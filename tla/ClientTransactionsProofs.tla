---------------------- MODULE ClientTransactionsProofs ----------------------
(***************************************************************************)
(* What becomes of the transactions the SDK builds, for any number of      *)
(* clients, keys, mints and slots. The published interfaces agree with the *)
(* program's structs, so each account is found in its place; what is left  *)
(* to be compared are the vaults of the reward pools.                      *)
(***************************************************************************)
EXTENDS ClientTransactions, ArithmeticTheorems, SequenceTheorems

-----------------------------------------------------------------------------
\* The published interface is the program's own, as far as it matters here
\* (idl.ts, and the Accounts structs of the instructions).
LEMMA InterfacesAgree ==
    Published.instructions = Own.instructions /\ Published.stakePool = Own.stakePool
<1>1. Source!ClaimAll = Current!claimAll
  BY Zenon DEF Source!ClaimAll, Current!claimAll, Source!MutSigner, Current!MutSigner,
        Source!Mut, Current!Mut, Source!Plain, Current!Plain, Source!Listed, Current!Listed
<1>2. Source!Deposit = Current!deposit
  BY Zenon DEF Source!Deposit, Current!deposit, Source!MutSigner, Current!MutSigner,
        Source!Mut, Current!Mut, Source!Plain, Current!Plain, Source!Listed, Current!Listed,
        Source!U32, Current!U32, Source!U64, Current!U64, Source!Field, Current!Field
<1>3. Source!InitializeStakePool = Current!initializeStakePool
  BY Zenon DEF Source!InitializeStakePool, Current!initializeStakePool,
        Source!MutSigner, Current!MutSigner,
        Source!Mut, Current!Mut, Source!Plain, Current!Plain, Source!Listed, Current!Listed,
        Source!U8, Current!U8, Source!U64, Current!U64, Source!Field, Current!Field
<1>4. Source!TransferAuthority = Current!transferAuthority
  BY Zenon DEF Source!TransferAuthority, Current!transferAuthority,
        Source!MutSigner, Current!MutSigner,
        Source!Mut, Current!Mut, Source!Plain, Current!Plain, Source!Listed, Current!Listed
<1>5. Source!DangerouslyMintStakeMint = Current!dangerouslyMintStakeMint
  BY Zenon DEF Source!DangerouslyMintStakeMint, Current!dangerouslyMintStakeMint,
        Source!MutSigner, Current!MutSigner, Source!Signer, Current!Signer,
        Source!Mut, Current!Mut, Source!Plain, Current!Plain, Source!Listed, Current!Listed,
        Source!U64, Current!U64, Source!Field, Current!Field
<1>6. Source!AddRewardPool = Current!addRewardPool
  BY Zenon DEF Source!AddRewardPool, Current!addRewardPool,
        Source!MutSigner, Current!MutSigner, Source!Signer, Current!Signer,
        Source!Mut, Current!Mut, Source!Plain, Current!Plain, Source!Listed, Current!Listed,
        Source!U8, Current!U8, Source!Field, Current!Field
<1>7. Source!SetFlags = Current!setFlags
  BY Zenon DEF Source!SetFlags, Current!setFlags, Source!MutSigner, Current!MutSigner,
        Source!Mut, Current!Mut, Source!Listed, Current!Listed,
        Source!U8, Current!U8, Source!Field, Current!Field
<1>8. Source!Withdraw = Current!withdraw
  BY <1>1, Zenon DEF Source!Withdraw, Current!withdraw,
        Source!Mut, Current!Mut, Source!Listed, Current!Listed
<1>9. Source!UpdateTokenMeta = Current!updateTokenMeta
  BY Zenon DEF Source!UpdateTokenMeta, Current!updateTokenMeta, Source!Signer, Current!Signer,
        Source!Mut, Current!Mut, Source!Plain, Current!Plain, Source!Listed, Current!Listed,
        Source!Text, Current!Text, Source!Field, Current!Field
<1>10. Source!instructions = Current!instructions
  BY <1>1, <1>2, <1>3, <1>4, <1>5, <1>6, <1>7, <1>8, <1>9, Zenon
     DEF Source!instructions, Current!instructions
<1>11. Source!SizeOf(Source!RewardPool) = Current!SizeOf(Current!RewardPool)
  BY Zenon DEF Source!SizeOf, Current!SizeOf, Source!OffsetOf, Current!OffsetOf,
        Source!Total, Current!Total, Source!RewardPool, Current!RewardPool,
        Source!PublicKey, Current!PublicKey, Source!U128, Current!U128,
        Source!U64, Current!U64, Source!Field, Current!Field
<1>12. Source!StakePool = Current!stakePool
  BY <1>11, Zenon DEF Source!StakePool, Current!stakePool,
        Source!Discriminator, Current!Discriminator,
        Source!PublicKey, Current!PublicKey, Source!U128, Current!U128, Source!U8, Current!U8,
        Source!U64, Current!U64, Source!Field, Current!Field
<1>13. CASE version = "v0"
  BY <1>13 DEF Published, Own
<1>14. CASE version # "v0"
  BY <1>10, <1>12, <1>14 DEF Published, Own
<1> QED BY <1>13, <1>14

-----------------------------------------------------------------------------
\* A sequence begins with the metas a client makes of these accounts and keys.
Begins(metas, accounts, keys) ==
    /\ Len(accounts) \in Nat /\ DOMAIN accounts = 1..Len(accounts)
    /\ Len(metas) \in Nat /\ DOMAIN metas = 1..Len(metas)
    /\ Len(accounts) <= Len(metas)
    /\ \A i \in DOMAIN accounts : metas[i] = Metas(accounts, keys)[i]

\* Keys a client names have the privileges of the interface.
LEMMA BuiltHasPrivileges ==
    ASSUME NEW accounts, NEW keys, NEW metas, NEW feePayer,
           Begins(metas, accounts, keys), CanBuild(accounts, keys)
    PROVE  HasPrivileges(accounts, metas, feePayer)
<1> SUFFICES ASSUME NEW i \in DOMAIN accounts
             PROVE  \/ accounts[i].isOptional /\ metas[i].pubkey = ProgramId
                    \/ /\ accounts[i].isMut => metas[i].pubkey \in Writable(metas, feePayer)
                       /\ accounts[i].isSigner => metas[i].pubkey \in Signing(metas, feePayer)
  BY DEF HasPrivileges, Begins
<1>1. metas[i] = Metas(accounts, keys)[i] /\ i \in DOMAIN metas
  BY DEF Begins
<1>2. CASE accounts[i].name \notin DOMAIN keys
  <2>1. accounts[i].isOptional
    BY <1>2 DEF CanBuild
  <2>2. metas[i] = Meta(ProgramId, FALSE, FALSE)
    BY <1>1, <1>2 DEF Metas
  <2> QED BY <2>1, <2>2 DEF Meta
<1>3. CASE accounts[i].name \in DOMAIN keys
  <2>1. metas[i] = Meta(keys[accounts[i].name], accounts[i].isMut, accounts[i].isSigner)
    BY <1>1, <1>3 DEF Metas
  <2>2. metas[i].isWritable = accounts[i].isMut /\ metas[i].isSigner = accounts[i].isSigner
    BY <2>1 DEF Meta
  <2>3. metas[i] \in ToSet(metas)
    BY <1>1 DEF ToSet
  <2>4. accounts[i].isMut => metas[i].pubkey \in Writable(metas, feePayer)
    BY <2>2, <2>3 DEF Writable
  <2>5. accounts[i].isSigner => metas[i].pubkey \in Signing(metas, feePayer)
    BY <2>2, <2>3 DEF Signing
  <2> QED BY <2>4, <2>5
<1> QED BY <1>2, <1>3

\* Under a name the program finds the key the client named.
LEMMA BuiltKeyOf ==
    ASSUME NEW accounts, NEW keys, NEW metas, NEW name,
           Begins(metas, accounts, keys), \E i \in DOMAIN accounts : accounts[i].name = name
    PROVE  KeyOf(accounts, metas, name) = IF name \in DOMAIN keys THEN keys[name] ELSE ProgramId
<1> DEFINE i == CHOOSE j \in DOMAIN accounts : accounts[j].name = name
<1>1. i \in DOMAIN accounts /\ accounts[i].name = name
  OBVIOUS
<1>2. KeyOf(accounts, metas, name) = metas[i].pubkey
  BY DEF KeyOf
<1> HIDE DEF i
<1>3. metas[i] = Metas(accounts, keys)[i]
  BY <1>1 DEF Begins
<1>4. Metas(accounts, keys)[i] = IF name \in DOMAIN keys
                                 THEN Meta(keys[name], accounts[i].isMut, accounts[i].isSigner)
                                 ELSE Meta(ProgramId, FALSE, FALSE)
  BY <1>1 DEF Metas
<1> QED BY <1>2, <1>3, <1>4 DEF Meta

\* A transaction: the metas of the accounts, then others.
LEMMA BuiltBegins ==
    ASSUME NEW accounts, Len(accounts) \in Nat, DOMAIN accounts = 1..Len(accounts),
           NEW keys, NEW S, NEW others \in Seq(S)
    PROVE  /\ Begins(Metas(accounts, keys), accounts, keys)
           /\ Begins(Metas(accounts, keys) \o others, accounts, keys)
           /\ Remaining(accounts, Metas(accounts, keys) \o others) = others
<1> DEFINE n == Len(accounts)
           metas == Metas(accounts, keys)
           T == S \cup {metas[i] : i \in 1..n}
           all == metas \o others
<1>1. n \in Nat /\ metas = [i \in 1..n |-> metas[i]]
  BY DEF Metas
<1>2. DOMAIN accounts = 1..n
  OBVIOUS
<1> HIDE DEF n, metas
<1>3. metas \in Seq(T) /\ Len(metas) = n /\ DOMAIN metas = 1..n
  BY <1>1
<1>4. others \in Seq(T)
  OBVIOUS
<1> HIDE DEF T
<1>5. /\ all \in Seq(T)
      /\ Len(all) = n + Len(others)
      /\ \A i \in 1..(n + Len(others)) :
            all[i] = IF i <= n THEN metas[i] ELSE others[i - n]
  BY <1>3, <1>4, ConcatProperties
<1>6. Len(others) \in Nat
  OBVIOUS
<1> HIDE DEF all
<1>7. Begins(metas, accounts, keys)
  BY <1>1, <1>2, <1>3 DEF Begins, n, metas
<1>8. Begins(all, accounts, keys)
  <2>1. Len(all) \in Nat /\ DOMAIN all = 1..Len(all) /\ n <= Len(all)
    BY <1>1, <1>5, <1>6
  <2>2. \A i \in 1..n : all[i] = metas[i]
    BY <1>1, <1>5, <1>6
  <2> QED BY <1>1, <1>2, <2>1, <2>2 DEF Begins, n, metas
<1>9. SubSeq(all, n + 1, Len(all)) = others
  <2> DEFINE rest == SubSeq(all, n + 1, Len(all))
  <2>1. \A i \in (n + 1)..Len(all) : all[i] \in T
    BY <1>1, <1>5, <1>6
  <2>2. /\ rest \in Seq(T)
        /\ Len(rest) = IF n + 1 <= Len(all) THEN Len(all) - (n + 1) + 1 ELSE 0
        /\ \A i \in 1..(Len(all) - (n + 1) + 1) : rest[i] = all[n + 1 + i - 1]
    <3> DEFINE a == n + 1
               b == Len(all)
    <3>1. a \in Int /\ b \in Int
      BY <1>1, <1>5, <1>6
    <3>2. \A i \in a..b : all[i] \in T
      BY <2>1
    <3> HIDE DEF a, b
    <3>3. /\ SubSeq(all, a, b) \in Seq(T)
          /\ Len(SubSeq(all, a, b)) = IF a <= b THEN b - a + 1 ELSE 0
          /\ \A i \in 1..(b - a + 1) : SubSeq(all, a, b)[i] = all[a + i - 1]
      BY <3>1, <3>2, SubSeqProperties
    <3> QED BY <3>3 DEF a, b
  <2> HIDE DEF rest
  <2>3. Len(rest) = Len(others)
    BY <1>1, <1>5, <1>6, <2>2
  <2>4. ASSUME NEW i \in 1..Len(others) PROVE rest[i] = others[i]
    <3>1. i \in 1..(Len(all) - (n + 1) + 1) /\ n + 1 + i - 1 = n + i
      BY <1>1, <1>5, <1>6
    <3>2. rest[i] = all[n + i]
      BY <2>2, <3>1
    <3> DEFINE m == n + i
    <3>3. m \in 1..(n + Len(others)) /\ ~ (m <= n) /\ m - n = i
      BY <1>1, <1>6
    <3> HIDE DEF m
    <3>4. all[m] = others[m - n]
      BY <1>5, <3>3
    <3> QED BY <3>2, <3>3, <3>4 DEF m
  <2> QED BY <1>4, <2>2, <2>3, <2>4 DEF rest
<1> QED BY <1>7, <1>8, <1>9 DEF Remaining, all, metas, n

-----------------------------------------------------------------------------
\* The function that the definition of FlattenSeq chooses.
IsJoin(f, seqs, n) == f = [i \in 1..n |-> IF i = 1 THEN seqs[i] ELSE f[i - 1] \o seqs[i]]

LEMMA JoinEquations ==
    ASSUME NEW f, NEW seqs, NEW n, IsJoin(f, seqs, n), NEW i \in 1..n
    PROVE  f[i] = IF i = 1 THEN seqs[i] ELSE f[i - 1] \o seqs[i]
BY Zenon DEF IsJoin

LEMMA JoinExists ==
    ASSUME NEW seqs, NEW n \in Nat
    PROVE  \E f : IsJoin(f, seqs, n)
<1> DEFINE T == {k \in Nat : \E f : IsJoin(f, seqs, k)}
<1>1. 0 \in T
  <2>1. IsJoin([i \in 1..0 |-> 0], seqs, 0)
    BY SMT DEF IsJoin
  <2> QED BY <2>1
<1>2. ASSUME NEW k \in T PROVE k + 1 \in T
  <2>1. PICK f : IsJoin(f, seqs, k)
    OBVIOUS
  <2> DEFINE next == IF k = 0 THEN seqs[k + 1] ELSE f[k] \o seqs[k + 1]
             g == [i \in 1..(k + 1) |-> IF i = k + 1 THEN next ELSE f[i]]
  <2>2. ASSUME NEW i \in 1..(k + 1)
        PROVE  g[i] = IF i = 1 THEN seqs[i] ELSE g[i - 1] \o seqs[i]
    <3>1. CASE i # k + 1
      <4>1. i \in 1..k /\ g[i] = f[i] /\ (i # 1 => g[i - 1] = f[i - 1])
        BY <3>1
      <4>2. f[i] = IF i = 1 THEN seqs[i] ELSE f[i - 1] \o seqs[i]
        BY <2>1, <4>1, JoinEquations
      <4> QED BY <4>1, <4>2, Zenon
    <3>2. CASE i = k + 1
      <4>1. g[i] = next /\ (i = 1 <=> k = 0) /\ (i # 1 => g[i - 1] = f[k])
        BY <3>2
      <4>2. next = IF i = 1 THEN seqs[i] ELSE f[k] \o seqs[i]
        BY <3>2, <4>1, Zenon
      <4> QED BY <4>1, <4>2, Zenon
    <3> QED BY <3>1, <3>2
  <2>3. IsJoin(g, seqs, k + 1)
    BY <2>2 DEF IsJoin
  <2> QED BY <2>3
<1>3. T \in SUBSET Nat
  OBVIOUS
<1>4. \A k \in Nat : k \in T
  <2> HIDE DEF T
  <2> QED BY <1>1, <1>2, <1>3, NatSetInduction
<1> QED BY <1>4

LEMMA FlattenIsJoin ==
    ASSUME NEW seqs, Len(seqs) \in Nat \ {0}
    PROVE  \E f : IsJoin(f, seqs, Len(seqs)) /\ FlattenSeq(seqs) = f[Len(seqs)]
BY JoinExists DEF FlattenSeq, IsJoin

LEMMA ConcatElements ==
    ASSUME NEW S, NEW s \in Seq(S), NEW t \in Seq(S)
    PROVE  s \o t \in Seq(S) /\ ToSet(s \o t) = ToSet(s) \cup ToSet(t)
<1>1. /\ s \o t \in Seq(S) /\ Len(s \o t) = Len(s) + Len(t)
      /\ Len(s) \in Nat /\ Len(t) \in Nat
      /\ DOMAIN s = 1..Len(s) /\ DOMAIN t = 1..Len(t) /\ DOMAIN (s \o t) = 1..Len(s \o t)
      /\ \A i \in 1..(Len(s) + Len(t)) :
            (s \o t)[i] = IF i <= Len(s) THEN s[i] ELSE t[i - Len(s)]
  BY ConcatProperties
<1> DEFINE u == s \o t
<1> HIDE DEF u
<1>2. ASSUME NEW i \in DOMAIN u PROVE u[i] \in ToSet(s) \cup ToSet(t)
  <2>1. CASE i <= Len(s)
    BY <1>1, <2>1 DEF ToSet, u
  <2>2. CASE ~ i <= Len(s)
    <3>1. i - Len(s) \in DOMAIN t /\ u[i] = t[i - Len(s)]
      BY <1>1, <2>2 DEF u
    <3> QED BY <3>1 DEF ToSet
  <2> QED BY <2>1, <2>2
<1>3. ASSUME NEW i \in DOMAIN s PROVE s[i] \in ToSet(u)
  <2>1. i \in DOMAIN u /\ u[i] = s[i]
    BY <1>1 DEF u
  <2> QED BY <2>1 DEF ToSet
<1>4. ASSUME NEW i \in DOMAIN t PROVE t[i] \in ToSet(u)
  <2>1. i + Len(s) \in DOMAIN u /\ u[i + Len(s)] = t[i]
    BY <1>1 DEF u
  <2> QED BY <2>1 DEF ToSet
<1>5. ToSet(u) = ToSet(s) \cup ToSet(t)
  BY <1>2, <1>3, <1>4 DEF ToSet
<1> QED BY <1>1, <1>5 DEF u

\* A flattened sequence has the elements of its pieces.
LEMMA FlattenElements ==
    ASSUME NEW S, NEW seqs \in Seq(Seq(S))
    PROVE  /\ FlattenSeq(seqs) \in Seq(S)
           /\ ToSet(FlattenSeq(seqs)) = UNION {ToSet(seqs[i]) : i \in DOMAIN seqs}
<1>1. Len(seqs) \in Nat /\ DOMAIN seqs = 1..Len(seqs)
  OBVIOUS
<1>2. CASE Len(seqs) = 0
  <2>1. seqs = <<>> /\ FlattenSeq(seqs) = seqs
    BY <1>2 DEF FlattenSeq
  <2>2. ToSet(seqs) = {} /\ DOMAIN seqs = {}
    BY <1>1, <1>2 DEF ToSet
  <2>3. UNION {ToSet(seqs[i]) : i \in DOMAIN seqs} = {}
    BY <2>2
  <2>4. <<>> \in Seq(S)
    OBVIOUS
  <2> QED BY <2>1, <2>2, <2>3, <2>4, Zenon
<1>3. CASE Len(seqs) # 0
  <2> DEFINE n == Len(seqs)
  <2>1. PICK f : IsJoin(f, seqs, n) /\ FlattenSeq(seqs) = f[n]
    BY <1>1, <1>3, FlattenIsJoin
  <2> DEFINE Joins(k) == k \in 1..n =>
                 /\ f[k] \in Seq(S)
                 /\ ToSet(f[k]) = UNION {ToSet(seqs[i]) : i \in 1..k}
             T == {k \in Nat : Joins(k)}
  <2>2. 0 \in T
    BY <1>1
  <2>3. ASSUME NEW k \in T PROVE k + 1 \in T
    <3> SUFFICES ASSUME k + 1 \in 1..n
                 PROVE  /\ f[k + 1] \in Seq(S)
                        /\ ToSet(f[k + 1]) = UNION {ToSet(seqs[i]) : i \in 1..(k + 1)}
      OBVIOUS
    <3>1. seqs[k + 1] \in Seq(S)
      BY <1>1
    <3>2. CASE k = 0
      <4>1. f[1] = seqs[1]
        BY <2>1, <3>2, JoinEquations
      <4>2. 1..(k + 1) = {1}
        BY <3>2
      <4> QED BY <3>1, <3>2, <4>1, <4>2
    <3>3. CASE k # 0
      <4>1. f[k + 1] = f[k] \o seqs[k + 1]
        <5>1. k + 1 # 1 /\ k + 1 - 1 = k
          BY <3>3
        <5>2. f[k + 1] = IF k + 1 = 1 THEN seqs[k + 1] ELSE f[k + 1 - 1] \o seqs[k + 1]
          BY <2>1, JoinEquations
        <5> QED BY <5>1, <5>2, Zenon
      <4>2. /\ f[k] \in Seq(S)
            /\ ToSet(f[k]) = UNION {ToSet(seqs[i]) : i \in 1..k}
        BY <1>1, <3>3
      <4>3. /\ f[k + 1] \in Seq(S)
            /\ ToSet(f[k + 1]) = ToSet(f[k]) \cup ToSet(seqs[k + 1])
        BY <3>1, <4>1, <4>2, ConcatElements
      <4>4. 1..(k + 1) = (1..k) \cup {k + 1}
        OBVIOUS
      <4> HIDE DEF T, n
      <4> QED BY <4>2, <4>3, <4>4
    <3> QED BY <3>2, <3>3
  <2>4. T \in SUBSET Nat
    OBVIOUS
  <2>5. \A k \in Nat : k \in T
    <3> HIDE DEF T
    <3> QED BY <2>2, <2>3, <2>4, NatSetInduction
  <2>6. Joins(n)
    BY <1>1, <2>5
  <2> QED BY <1>1, <1>3, <2>1, <2>6
<1> QED BY <1>2, <1>3

-----------------------------------------------------------------------------
\* The names an instruction lists its accounts under.
Named(accounts, names) ==
    /\ Len(accounts) = Len(names) /\ DOMAIN accounts = 1..Len(names)
    /\ \A i \in 1..Len(names) : accounts[i].name = names[i]

DepositNames == <<"payer", "owner", "from", "vault", "stakeMint", "destination", "stakePool",
                  "stakeDepositReceipt", "tokenProgram", "rent", "systemProgram">>

ClaimNames == <<"owner", "stakePool", "stakeDepositReceipt", "tokenProgram">>

WithdrawNames == <<"owner", "stakePool", "stakeDepositReceipt", "tokenProgram",
                   "vault", "stakeMint", "from", "destination">>

InitializeNames == <<"payer", "authority", "mint", "stakePool", "stakeMint", "vault",
                     "tokenProgram", "rent", "systemProgram">>

AddRewardPoolNames == <<"payer", "authority", "rewardMint", "stakePool", "rewardVault",
                        "tokenProgram", "rent", "systemProgram">>

TransferNames == <<"authority", "newAuthority", "stakePool">>

MintNames == <<"payer", "authority", "stakeMint", "destination", "stakePool", "tokenProgram">>

FlagsNames == <<"authority", "stakePool">>

MetaNames == <<"authority", "metadataAccount", "stakePool", "stakeMint", "metadataProgram",
               "rent", "systemProgram">>

\* The names of the instructions' accounts, in both versions.
LEMMA StakerAccountsNamed ==
    /\ Named(Accounts("deposit"), DepositNames)
    /\ Named(Accounts("claimAll"), ClaimNames)
    /\ Named(Accounts("withdraw"), WithdrawNames)
<1> USE DEF Current!MutSigner, Current!Mut, Current!Plain, Current!Listed,
            V0!Current!MutSigner, V0!Current!Mut, V0!Current!Plain, V0!Current!Listed,
            V0!Mut, V0!Listed, V0!Optional
<1>1. Named(Current!deposit.accounts, DepositNames)
  BY DEF Current!deposit, Named, DepositNames
<1>2. Named(V0!Current!deposit.accounts, DepositNames)
  BY DEF V0!Current!deposit, Named, DepositNames
<1>3. Named(Current!claimAll.accounts, ClaimNames)
  BY DEF Current!claimAll, Named, ClaimNames
<1>4. Named(V0!Current!claimAll.accounts, ClaimNames)
  BY DEF V0!Current!claimAll, Named, ClaimNames
<1>5. Named(Current!withdraw.accounts, WithdrawNames)
  BY DEF Current!withdraw, Current!claimAll, Named, WithdrawNames
<1>6. Named(V0!withdraw.accounts, WithdrawNames)
  BY DEF V0!withdraw, V0!claimAll, V0!Current!claimAll, Named, WithdrawNames
<1>7. CASE version = "v0"
  <2>1. /\ Accounts("deposit") = V0!Current!deposit.accounts
        /\ Accounts("claimAll") = V0!Current!claimAll.accounts
        /\ Accounts("withdraw") = V0!withdraw.accounts
    BY <1>7 DEF Accounts, Own, V0!instructions, V0!deposit, V0!claimAll
  <2> QED BY <1>2, <1>4, <1>6, <2>1
<1>8. CASE version # "v0"
  <2>1. /\ Accounts("deposit") = Current!deposit.accounts
        /\ Accounts("claimAll") = Current!claimAll.accounts
        /\ Accounts("withdraw") = Current!withdraw.accounts
    <3>1. Own.instructions = Current!instructions
      BY <1>8, InterfacesAgree DEF Published
    <3> QED BY <3>1 DEF Accounts, Current!instructions
  <2> QED BY <1>1, <1>3, <1>5, <2>1
<1> QED BY <1>7, <1>8

LEMMA AuthorityAccountsNamed ==
    /\ Named(Accounts("initializeStakePool"), InitializeNames)
    /\ Named(Accounts("addRewardPool"), AddRewardPoolNames)
    /\ Named(Accounts("updateTokenMeta"), MetaNames)
    /\ version # "v0" => /\ Named(Accounts("transferAuthority"), TransferNames)
                         /\ Named(Accounts("dangerouslyMintStakeMint"), MintNames)
                         /\ Named(Accounts("setFlags"), FlagsNames)
<1> USE DEF Current!MutSigner, Current!Signer, Current!Mut, Current!Plain, Current!Listed,
            V0!Current!MutSigner, V0!Current!Signer, V0!Current!Mut, V0!Current!Plain,
            V0!Current!Listed
<1>1. Named(Current!initializeStakePool.accounts, InitializeNames)
  BY DEF Current!initializeStakePool, Named, InitializeNames
<1>2. Named(V0!Current!initializeStakePool.accounts, InitializeNames)
  BY DEF V0!Current!initializeStakePool, Named, InitializeNames
<1>3. Named(Current!addRewardPool.accounts, AddRewardPoolNames)
  BY DEF Current!addRewardPool, Named, AddRewardPoolNames
<1>4. Named(V0!Current!addRewardPool.accounts, AddRewardPoolNames)
  BY DEF V0!Current!addRewardPool, Named, AddRewardPoolNames
<1>5. Named(Current!updateTokenMeta.accounts, MetaNames)
  BY DEF Current!updateTokenMeta, Named, MetaNames
<1>6. Named(V0!Current!updateTokenMeta.accounts, MetaNames)
  BY DEF V0!Current!updateTokenMeta, Named, MetaNames
<1>7. Named(Current!transferAuthority.accounts, TransferNames)
  BY DEF Current!transferAuthority, Named, TransferNames
<1>8. Named(Current!dangerouslyMintStakeMint.accounts, MintNames)
  BY DEF Current!dangerouslyMintStakeMint, Named, MintNames
<1>9. Named(Current!setFlags.accounts, FlagsNames)
  BY DEF Current!setFlags, Named, FlagsNames
<1>10. CASE version = "v0"
  <2>1. /\ Accounts("initializeStakePool") = V0!Current!initializeStakePool.accounts
        /\ Accounts("addRewardPool") = V0!Current!addRewardPool.accounts
        /\ Accounts("updateTokenMeta") = V0!Current!updateTokenMeta.accounts
    BY <1>10 DEF Accounts, Own, V0!instructions, V0!initializeStakePool, V0!addRewardPool,
                 V0!updateTokenMeta
  <2> QED BY <1>2, <1>4, <1>6, <1>10, <2>1
<1>11. CASE version # "v0"
  <2>1. Own.instructions = Current!instructions
    BY <1>11, InterfacesAgree DEF Published
  <2>2. /\ Accounts("initializeStakePool") = Current!initializeStakePool.accounts
        /\ Accounts("addRewardPool") = Current!addRewardPool.accounts
        /\ Accounts("updateTokenMeta") = Current!updateTokenMeta.accounts
        /\ Accounts("transferAuthority") = Current!transferAuthority.accounts
        /\ Accounts("dangerouslyMintStakeMint") = Current!dangerouslyMintStakeMint.accounts
        /\ Accounts("setFlags") = Current!setFlags.accounts
    BY <2>1 DEF Accounts, Current!instructions
  <2> QED BY <1>1, <1>3, <1>5, <1>7, <1>8, <1>9, <2>2
<1> QED BY <1>10, <1>11

\* The well-known accounts are added to those the client names.
LEMMA SysvarsAdded ==
    ASSUME NEW keys, DOMAIN keys \cap {"tokenProgram", "rent", "systemProgram"} = {}
    PROVE  /\ DOMAIN AndSysvars(keys)
                = DOMAIN keys \cup {"tokenProgram", "rent", "systemProgram"}
           /\ \A name \in DOMAIN keys : AndSysvars(keys)[name] = keys[name]
           /\ \A name \in DOMAIN Sysvars : /\ name \in DOMAIN AndSysvars(keys)
                                           /\ AndSysvars(keys)[name] = Sysvars[name]
BY DEF AndSysvars, Sysvars

LEMMA BuiltNamesSysvars ==
    ASSUME NEW name, NEW keys, NEW metas, Begins(metas, Accounts(name), keys),
           \A n \in DOMAIN Sysvars : n \in DOMAIN keys /\ keys[n] = Sysvars[n]
    PROVE  NamesSysvars(name, metas)
<1> SUFFICES ASSUME NEW i \in DOMAIN Accounts(name), Accounts(name)[i].name \in DOMAIN Sysvars
             PROVE  KeyOf(Accounts(name), metas, Accounts(name)[i].name)
                    = Sysvars[Accounts(name)[i].name]
  BY DEF NamesSysvars, ToSet
<1> QED BY BuiltKeyOf

\* Where a client's library finds a key for every name, it builds the instruction.
LEMMA NamedCanBuild ==
    ASSUME NEW accounts, NEW names, Named(accounts, names), NEW keys,
           \A i \in 1..Len(names) : names[i] \in DOMAIN keys
    PROVE  CanBuild(accounts, keys)
BY DEF Named, CanBuild

-----------------------------------------------------------------------------
\* An instruction a client builds lists the program's accounts, and others behind.
LEMMA InstructionBegins ==
    ASSUME NEW name, Len(Accounts(name)) \in Nat,
           DOMAIN Accounts(name) = 1..Len(Accounts(name)),
           NEW keys, NEW S, NEW others \in Seq(S)
    PROVE  /\ Begins(Build(name, keys), Accounts(name), keys)
           /\ Begins(Build(name, keys) \o others, Accounts(name), keys)
           /\ Remaining(Accounts(name), Build(name, keys) \o others) = others
<1> DEFINE accounts == Accounts(name)
<1>1. Build(name, keys) = Metas(accounts, keys)
  BY InterfacesAgree DEF Build, Accounts
<1>2. Len(accounts) \in Nat /\ DOMAIN accounts = 1..Len(accounts) /\ others \in Seq(S)
  OBVIOUS
<1> HIDE DEF accounts
<1>3. /\ Begins(Metas(accounts, keys), accounts, keys)
      /\ Begins(Metas(accounts, keys) \o others, accounts, keys)
      /\ Remaining(accounts, Metas(accounts, keys) \o others) = others
  BY <1>2, BuiltBegins, SMT
<1> QED BY <1>1, <1>3, Zenon DEF accounts

\* The program finds its accounts in their places, with their privileges, and the
\* well-known accounts among them.
LEMMA InstructionArrives ==
    ASSUME NEW name, NEW names, Named(Accounts(name), names),
           NEW keys, CanBuildIx(name, keys),
           \A n \in DOMAIN Sysvars : n \in DOMAIN keys /\ keys[n] = Sysvars[n],
           NEW metas, Begins(metas, Accounts(name), keys)
    PROVE  /\ \A feePayer : HasPrivileges(Accounts(name), metas, feePayer)
           /\ NamesSysvars(name, metas)
           /\ \A i \in 1..Len(names) :
                  KeyOf(Accounts(name), metas, names[i])
                      = IF names[i] \in DOMAIN keys THEN keys[names[i]] ELSE ProgramId
<1>1. CanBuild(Accounts(name), keys)
  BY InterfacesAgree DEF CanBuildIx, Accounts
<1>2. \A feePayer : HasPrivileges(Accounts(name), metas, feePayer)
  BY <1>1, BuiltHasPrivileges
<1>3. NamesSysvars(name, metas)
  BY BuiltNamesSysvars
<1>4. ASSUME NEW i \in 1..Len(names)
      PROVE  KeyOf(Accounts(name), metas, names[i])
             = IF names[i] \in DOMAIN keys THEN keys[names[i]] ELSE ProgramId
  <2>1. \E j \in DOMAIN Accounts(name) : Accounts(name)[j].name = names[i]
    BY DEF Named
  <2> QED BY <2>1, BuiltKeyOf
<1> QED BY <1>2, <1>3, <1>4

\* The keys the SDK names, by name.
LEMMA DepositKeysNamed ==
    ASSUME NEW c
    PROVE  /\ \A n \in DOMAIN Sysvars :
                  n \in DOMAIN DepositKeys(c) /\ DepositKeys(c)[n] = Sysvars[n]
           /\ {"payer", "owner", "from", "stakePool", "vault", "stakeMint", "destination",
               "stakeDepositReceipt"} \subseteq DOMAIN DepositKeys(c)
           /\ DepositKeys(c)["payer"] = Wallet(c)
           /\ DepositKeys(c)["owner"] = Wallet(c)
           /\ DepositKeys(c)["from"] = TokenAccount(Wallet(c), NoKey)
           /\ DepositKeys(c)["stakePool"] = stake_pool
           /\ DepositKeys(c)["vault"] = VaultKey(stake_pool)
           /\ DepositKeys(c)["stakeMint"] = StakeMintKey(stake_pool)
           /\ DepositKeys(c)["destination"] = TokenAccount(Wallet(c), StakeMintKey(stake_pool))
           /\ DepositKeys(c)["stakeDepositReceipt"] = ReceiptKey(Wallet(c), stake_pool)
<1> DEFINE K == [payer |-> Wallet(c), owner |-> Wallet(c), from |-> TokenAccount(Wallet(c), NoKey),
                 stakePool |-> stake_pool, vault |-> VaultKey(stake_pool),
                 stakeMint |-> StakeMintKey(stake_pool),
                 destination |-> TokenAccount(Wallet(c), StakeMintKey(stake_pool)),
                 stakeDepositReceipt |-> ReceiptKey(Wallet(c), stake_pool)]
<1>1. DepositKeys(c) = AndSysvars(K)
  BY Zenon DEF DepositKeys
<1>2. DOMAIN K = {"payer", "owner", "from", "stakePool", "vault", "stakeMint", "destination",
                  "stakeDepositReceipt"}
  OBVIOUS
<1>3. /\ K["payer"] = Wallet(c) /\ K["owner"] = Wallet(c)
      /\ K["from"] = TokenAccount(Wallet(c), NoKey)
      /\ K["stakePool"] = stake_pool /\ K["vault"] = VaultKey(stake_pool)
      /\ K["stakeMint"] = StakeMintKey(stake_pool)
      /\ K["destination"] = TokenAccount(Wallet(c), StakeMintKey(stake_pool))
      /\ K["stakeDepositReceipt"] = ReceiptKey(Wallet(c), stake_pool)
  OBVIOUS
<1> HIDE DEF K
<1>4. DOMAIN K \cap {"tokenProgram", "rent", "systemProgram"} = {}
  BY <1>2
<1>5. /\ DOMAIN DepositKeys(c) = DOMAIN K \cup {"tokenProgram", "rent", "systemProgram"}
      /\ \A n \in DOMAIN K : DepositKeys(c)[n] = K[n]
      /\ \A n \in DOMAIN Sysvars : n \in DOMAIN DepositKeys(c) /\ DepositKeys(c)[n] = Sysvars[n]
  BY <1>1, <1>4, SysvarsAdded, Zenon
<1> QED BY <1>2, <1>3, <1>5

LEMMA ClaimKeysNamed ==
    ASSUME NEW c, NEW keys \in {ClaimKeys(c), WithFrom(ClaimKeys(c))}
    PROVE  /\ \A n \in DOMAIN Sysvars : n \in DOMAIN keys /\ keys[n] = Sysvars[n]
           /\ {"owner", "stakePool", "stakeDepositReceipt", "vault", "stakeMint", "destination"}
                  \subseteq DOMAIN keys
           /\ keys["owner"] = Wallet(c)
           /\ keys["stakePool"] = stake_pool
           /\ keys["stakeDepositReceipt"] = ReceiptKey(Wallet(c), stake_pool)
           /\ keys["vault"] = VaultKey(stake_pool)
           /\ keys["stakeMint"] = StakeMintKey(stake_pool)
           /\ "from" \in DOMAIN keys =>
                  keys["from"] = TokenAccount(Wallet(c), StakeMintKey(stake_pool))
<1> DEFINE K == [owner |-> Wallet(c), stakePool |-> stake_pool,
                 stakeDepositReceipt |-> ReceiptKey(Wallet(c), stake_pool),
                 vault |-> VaultKey(stake_pool), stakeMint |-> StakeMintKey(stake_pool),
                 destination |-> TokenAccount(Wallet(c), NoKey)]
           P == ClaimKeys(c)
<1>1. P = AndSysvars(K)
  BY Zenon DEF ClaimKeys
<1>2. DOMAIN K = {"owner", "stakePool", "stakeDepositReceipt", "vault", "stakeMint", "destination"}
  OBVIOUS
<1>3. /\ K["owner"] = Wallet(c) /\ K["stakePool"] = stake_pool
      /\ K["stakeDepositReceipt"] = ReceiptKey(Wallet(c), stake_pool)
      /\ K["vault"] = VaultKey(stake_pool) /\ K["stakeMint"] = StakeMintKey(stake_pool)
  OBVIOUS
<1> HIDE DEF K
<1>4. DOMAIN K \cap {"tokenProgram", "rent", "systemProgram"} = {}
  BY <1>2
<1>5. /\ \A n \in DOMAIN Sysvars : n \in DOMAIN P /\ P[n] = Sysvars[n]
      /\ DOMAIN P = DOMAIN K \cup {"tokenProgram", "rent", "systemProgram"}
      /\ \A n \in DOMAIN K : P[n] = K[n]
  BY <1>1, <1>4, SysvarsAdded
<1> HIDE DEF P
<1>6. /\ DOMAIN WithFrom(P) = DOMAIN P \cup {"from"}
      /\ \A n \in DOMAIN P : n # "from" => WithFrom(P)[n] = P[n]
      /\ WithFrom(P)["from"] = TokenAccount(P.owner, P.stakeMint)
  BY DEF WithFrom
<1>7. DOMAIN Sysvars = {"tokenProgram", "rent", "systemProgram"}
  BY DEF Sysvars
<1>8. keys = P \/ keys = WithFrom(P)
  BY DEF P
<1> QED BY <1>2, <1>3, <1>5, <1>6, <1>7, <1>8

-----------------------------------------------------------------------------
\* All that can turn a deposit down are the vaults sent along.
LEMMA DepositAcceptedWhen ==
    ASSUME PoolSigns, NEW c, CanBuildIx("deposit", DepositKeys(c)),
           NEW S, NEW others \in Seq(S), NEW feePayer
    PROVE  DepositAccepted(Build("deposit", DepositKeys(c)) \o others, feePayer)
               <=> RefreshAccepts(others, 1)
<1> DEFINE metas == Build("deposit", DepositKeys(c)) \o others
           key(name) == KeyOf(Accounts("deposit"), metas, name)
<1>1. Len(DepositNames) = 11
  BY DEF DepositNames
<1>2. /\ HasPrivileges(Accounts("deposit"), metas, feePayer)
      /\ NamesSysvars("deposit", metas)
      /\ \A i \in 1..11 : key(DepositNames[i])
             = IF DepositNames[i] \in DOMAIN DepositKeys(c) THEN DepositKeys(c)[DepositNames[i]]
               ELSE ProgramId
      /\ Remaining(Accounts("deposit"), metas) = others
  <2>1. Named(Accounts("deposit"), DepositNames)
    BY StakerAccountsNamed
  <2>2. Len(DepositNames) \in Nat
    BY <1>1
  <2>3. \A n \in DOMAIN Sysvars : n \in DOMAIN DepositKeys(c) /\ DepositKeys(c)[n] = Sysvars[n]
    BY DepositKeysNamed, Zenon
  <2>4. /\ Begins(metas, Accounts("deposit"), DepositKeys(c))
        /\ Remaining(Accounts("deposit"), metas) = others
    BY <2>1, <2>2, InstructionBegins DEF Named
  <2> HIDE DEF metas
  <2>5. /\ \A payer : HasPrivileges(Accounts("deposit"), metas, payer)
        /\ NamesSysvars("deposit", metas)
        /\ \A i \in 1..Len(DepositNames) : key(DepositNames[i])
               = IF DepositNames[i] \in DOMAIN DepositKeys(c) THEN DepositKeys(c)[DepositNames[i]]
                 ELSE ProgramId
    BY <2>1, <2>3, <2>4, InstructionArrives
  <2> QED BY <1>1, <2>4, <2>5, Zenon
<1>3. DepositAccepted(metas, feePayer) <=>
          /\ HasPrivileges(Accounts("deposit"), metas, feePayer)
          /\ NamesSysvars("deposit", metas)
          /\ key("stakePool") = stake_pool
          /\ key("vault") = VaultKey(stake_pool)
          /\ key("stakeMint") = StakeMintKey(stake_pool)
          /\ key("stakeDepositReceipt") = ReceiptKey(key("owner"), stake_pool)
          /\ key("from")[2] = key("payer") /\ key("destination")[2] = key("owner")
          /\ RefreshAccepts(Remaining(Accounts("deposit"), metas), 1)
          /\ PoolSigns
  BY Zenon DEF DepositAccepted
<1> HIDE DEF key, metas
<1>4. /\ DepositNames[1] = "payer" /\ DepositNames[2] = "owner" /\ DepositNames[3] = "from"
      /\ DepositNames[4] = "vault" /\ DepositNames[5] = "stakeMint"
      /\ DepositNames[6] = "destination" /\ DepositNames[7] = "stakePool"
      /\ DepositNames[8] = "stakeDepositReceipt"
  BY DEF DepositNames
<1>5. /\ 1 \in 1..11 /\ 2 \in 1..11 /\ 3 \in 1..11 /\ 4 \in 1..11
      /\ 5 \in 1..11 /\ 6 \in 1..11 /\ 7 \in 1..11 /\ 8 \in 1..11
  OBVIOUS
<1>6. /\ key("payer") = Wallet(c) /\ key("owner") = Wallet(c)
      /\ key("from") = TokenAccount(Wallet(c), NoKey)
      /\ key("vault") = VaultKey(stake_pool) /\ key("stakeMint") = StakeMintKey(stake_pool)
      /\ key("destination") = TokenAccount(Wallet(c), StakeMintKey(stake_pool))
      /\ key("stakePool") = stake_pool
      /\ key("stakeDepositReceipt") = ReceiptKey(Wallet(c), stake_pool)
  BY <1>2, <1>4, <1>5, DepositKeysNamed
<1>7. \A owner, mint : TokenAccount(owner, mint)[2] = owner
  BY DEF TokenAccount
<1> QED BY <1>2, <1>3, <1>6, <1>7, Zenon DEF metas

\* Likewise a claim and a withdrawal.
LEMMA ClaimAcceptedWhen ==
    ASSUME PoolSigns, NEW c, NEW keys \in {ClaimKeys(c), WithFrom(ClaimKeys(c))},
           NEW name \in {"claimAll", "withdraw"}, CanBuildIx(name, keys),
           NEW S, NEW others \in Seq(S), NEW feePayer
    PROVE  ClaimAccepted(name, Build(name, keys) \o others, feePayer)
               <=> RefreshAccepts(others, 2) /\ ClaimAccepts(others)
<1> DEFINE metas == Build(name, keys) \o others
           key(account) == KeyOf(Accounts(name), metas, account)
           names == IF name = "claimAll" THEN ClaimNames ELSE WithdrawNames
<1>1. Len(ClaimNames) = 4 /\ Len(WithdrawNames) = 8 /\ Len(names) \in 4..8
      /\ (name = "withdraw" => Len(names) = 8)
  BY DEF ClaimNames, WithdrawNames
<1>2. Named(Accounts(name), names)
  BY StakerAccountsNamed
<1>3. /\ HasPrivileges(Accounts(name), metas, feePayer)
      /\ NamesSysvars(name, metas)
      /\ \A i \in 1..Len(names) : key(names[i])
             = IF names[i] \in DOMAIN keys THEN keys[names[i]] ELSE ProgramId
      /\ Remaining(Accounts(name), metas) = others
  <2>1. \A n \in DOMAIN Sysvars : n \in DOMAIN keys /\ keys[n] = Sysvars[n]
    BY ClaimKeysNamed
  <2>2. Len(names) \in Nat
    BY <1>1
  <2> HIDE DEF names
  <2>3. /\ Begins(metas, Accounts(name), keys)
        /\ Remaining(Accounts(name), metas) = others
    BY <1>2, <2>2, InstructionBegins DEF Named
  <2> HIDE DEF metas
  <2>4. /\ \A payer : HasPrivileges(Accounts(name), metas, payer)
        /\ NamesSysvars(name, metas)
        /\ \A i \in 1..Len(names) : key(names[i])
               = IF names[i] \in DOMAIN keys THEN keys[names[i]] ELSE ProgramId
    BY <1>2, <2>1, <2>3, InstructionArrives
  <2> QED BY <2>3, <2>4, Zenon
<1>4. ClaimAccepted(name, metas, feePayer) <=>
          /\ HasPrivileges(Accounts(name), metas, feePayer)
          /\ NamesSysvars(name, metas)
          /\ key("stakePool") = stake_pool
          /\ key("stakeDepositReceipt") = ReceiptKey(key("owner"), stake_pool)
          /\ name = "withdraw" =>
                /\ key("vault") = VaultKey(stake_pool)
                /\ key("stakeMint") = StakeMintKey(stake_pool)
                /\ key("from") \in {ProgramId, TokenAccount(key("owner"), key("stakeMint"))}
          /\ RefreshAccepts(Remaining(Accounts(name), metas), 2)
          /\ ClaimAccepts(Remaining(Accounts(name), metas))
          /\ PoolSigns
  BY Zenon DEF ClaimAccepted
<1> HIDE DEF key, metas
<1>5. /\ names[1] = "owner" /\ names[2] = "stakePool" /\ names[3] = "stakeDepositReceipt"
      /\ name = "withdraw" => names[5] = "vault" /\ names[6] = "stakeMint" /\ names[7] = "from"
  BY DEF ClaimNames, WithdrawNames
<1>6. /\ 1 \in 1..Len(names) /\ 2 \in 1..Len(names) /\ 3 \in 1..Len(names)
      /\ name = "withdraw" => /\ 5 \in 1..Len(names) /\ 6 \in 1..Len(names)
                              /\ 7 \in 1..Len(names)
  <2>1. \A n \in 4..8 : 1 \in 1..n /\ 2 \in 1..n /\ 3 \in 1..n
    OBVIOUS
  <2>2. 5 \in 1..8 /\ 6 \in 1..8 /\ 7 \in 1..8
    OBVIOUS
  <2> HIDE DEF names
  <2> QED BY <1>1, <2>1, <2>2, Zenon
<1> HIDE DEF names
<1>7. /\ key("owner") = Wallet(c) /\ key("stakePool") = stake_pool
      /\ key("stakeDepositReceipt") = ReceiptKey(Wallet(c), stake_pool)
  BY <1>3, <1>5, <1>6, ClaimKeysNamed
<1>8. ASSUME name = "withdraw"
      PROVE  /\ key("vault") = VaultKey(stake_pool)
             /\ key("stakeMint") = StakeMintKey(stake_pool)
             /\ key("from") \in {ProgramId, TokenAccount(Wallet(c), StakeMintKey(stake_pool))}
  BY <1>3, <1>5, <1>6, <1>8, ClaimKeysNamed
<1> QED BY <1>3, <1>4, <1>7, <1>8 DEF metas

-----------------------------------------------------------------------------
\* The authority's instructions on the pool of the given address: what can turn
\* them down are the address and the caller.
LEMMA AuthorityAcceptedWhen ==
    ASSUME NEW name, NEW names, Named(Accounts(name), names),
           NEW i \in 1..Len(names), names[i] = "stakePool",
           NEW j \in 1..Len(names), names[j] = "authority",
           NEW keys, CanBuildIx(name, keys),
           \A n \in DOMAIN Sysvars : n \in DOMAIN keys /\ keys[n] = Sysvars[n],
           "stakePool" \in DOMAIN keys, "authority" \in DOMAIN keys,
           NEW metas, Begins(metas, Accounts(name), keys), NEW feePayer
    PROVE  AuthorityAccepted(name, metas, feePayer)
               <=> keys["stakePool"] = stake_pool /\ keys["authority"] = Wallet(authority)
<1>1. /\ HasPrivileges(Accounts(name), metas, feePayer)
      /\ NamesSysvars(name, metas)
      /\ \A k \in 1..Len(names) :
             KeyOf(Accounts(name), metas, names[k])
                 = IF names[k] \in DOMAIN keys THEN keys[names[k]] ELSE ProgramId
  BY InstructionArrives
<1>2. /\ KeyOf(Accounts(name), metas, "stakePool") = keys["stakePool"]
      /\ KeyOf(Accounts(name), metas, "authority") = keys["authority"]
  BY <1>1
<1>3. AuthorityAccepted(name, metas, feePayer) <=>
          /\ HasPrivileges(Accounts(name), metas, feePayer)
          /\ NamesSysvars(name, metas)
          /\ KeyOf(Accounts(name), metas, "stakePool") = stake_pool
          /\ KeyOf(Accounts(name), metas, "authority") = Wallet(authority)
  BY Zenon DEF AuthorityAccepted
<1> QED BY <1>1, <1>2, <1>3, Zenon

LEMMA WalletsDiffer ==
    /\ \A k, l : Wallet(k) = Wallet(l) <=> k = l
    /\ \A k : Wallet(k) # Sponsor
    /\ \A k, mint : Wallet(k) # MetadataKey(mint)
<1>1. ASSUME NEW k, NEW l PROVE Wallet(k) = Wallet(l) <=> k = l
  BY DEF Wallet
<1>2. ASSUME NEW k PROVE Wallet(k) # Sponsor
  <2>1. Len(Wallet(k)) = 2 /\ Len(Sponsor) = 1
    BY DEF Wallet, Sponsor
  <2> QED BY <2>1
<1>3. ASSUME NEW k, NEW mint PROVE Wallet(k) # MetadataKey(mint)
  <2>1. Wallet(k)[1] = "wallet" /\ MetadataKey(mint)[1] = "metadata"
    BY DEF Wallet, MetadataKey
  <2> QED BY <2>1
<1> QED BY <1>1, <1>2, <1>3

\* The index is read as it was written.
LEMMA IndexArrives ==
    ASSUME NEW i
    PROVE  ArgumentOf("addRewardPool", <<i>>, "index") = i
<1> DEFINE args == Own.instructions["addRewardPool"].args
<1>1. DOMAIN args = {1} /\ args[1].name = "index"
  <2>1. CASE version = "v0"
    <3>1. args = V0!Current!addRewardPool.args
      BY <2>1 DEF Own, V0!instructions, V0!addRewardPool
    <3> QED BY <3>1 DEF V0!Current!addRewardPool, V0!Current!U8, V0!Current!Field
  <2>2. CASE version # "v0"
    <3>1. Own.instructions = Current!instructions
      BY <2>2, InterfacesAgree DEF Published
    <3>2. args = Current!addRewardPool.args
      BY <3>1 DEF Current!instructions
    <3> QED BY <3>2 DEF Current!addRewardPool, Current!U8, Current!Field
  <2> QED BY <2>1, <2>2
<1>2. ArgumentOf("addRewardPool", <<i>>, "index") = Argument(args, <<i>>, args, "index")
  BY InterfacesAgree DEF ArgumentOf
<1> HIDE DEF args
<1>3. (CHOOSE j \in DOMAIN args : args[j].name = "index") = 1
  BY <1>1
<1>4. Argument(args, <<i>>, args, "index") = <<i>>[1]
  BY <1>1, <1>3 DEF Argument
<1> QED BY <1>2, <1>4

\* A reward pool is added if the caller is the authority, the pool named this pool,
\* and the slot free.
LEMMA AddRewardPoolWhen ==
    ASSUME NEW caller, NEW pool, NEW i \in Slots, NEW mint, AddRewardPool(caller, pool, i, mint)
    PROVE  LET accepted == caller = authority /\ pool = stake_pool /\ SlotFree(i, mint)
           IN  /\ admin'.by_authority <=> caller = authority
               /\ admin'.on_pool <=> pool = stake_pool
               /\ admin'.free <=> SlotFree(i, mint)
               /\ admin'.writable
               /\ admin'.result = IF accepted THEN "accepted" ELSE "rejected"
               /\ reward_vaults' = IF accepted THEN [reward_vaults EXCEPT ![i] = mint]
                                   ELSE reward_vaults
<1> DEFINE K == [payer |-> Wallet(caller), authority |-> Wallet(caller),
                 rewardMint |-> <<"mint", mint>>, stakePool |-> pool,
                 rewardVault |-> RewardVaultKey(pool, mint)]
           keys == AndSysvars(K)
           name == "addRewardPool"
           metas == Build(name, keys)
           key(n) == KeyOf(Accounts(name), metas, n)
           index == ArgumentOf(name, <<i>>, "index")
           accepted == /\ AuthorityAccepted(name, metas, Wallet(caller))
                       /\ index \in Slots
                       /\ SlotFree(index, key("rewardMint")[2])
                       /\ key("rewardVault") = RewardVaultKey(key("stakePool"), key("rewardMint")[2])
<1>1. /\ admin' = [NoCall EXCEPT !.op = "addRewardPool",
                                 !.by_authority = caller = authority,
                                 !.on_pool = pool = stake_pool,
                                 !.free = SlotFree(i, mint),
                                 !.result = IF accepted THEN "accepted" ELSE "rejected"]
      /\ reward_vaults' = IF accepted
                          THEN [reward_vaults EXCEPT ![index] = key("rewardVault")[3]]
                          ELSE reward_vaults
  BY Zenon DEF AddRewardPool
<1>2. /\ DOMAIN keys = {"payer", "authority", "rewardMint", "stakePool", "rewardVault",
                        "tokenProgram", "rent", "systemProgram"}
      /\ keys["authority"] = Wallet(caller) /\ keys["rewardMint"] = <<"mint", mint>>
      /\ keys["stakePool"] = pool /\ keys["rewardVault"] = RewardVaultKey(pool, mint)
      /\ \A n \in DOMAIN Sysvars : n \in DOMAIN keys /\ keys[n] = Sysvars[n]
  <2>1. DOMAIN K = {"payer", "authority", "rewardMint", "stakePool", "rewardVault"}
    OBVIOUS
  <2>2. /\ K["authority"] = Wallet(caller) /\ K["rewardMint"] = <<"mint", mint>>
        /\ K["stakePool"] = pool /\ K["rewardVault"] = RewardVaultKey(pool, mint)
    OBVIOUS
  <2> HIDE DEF K
  <2>3. DOMAIN K \cap {"tokenProgram", "rent", "systemProgram"} = {}
    BY <2>1
  <2>4. /\ DOMAIN keys = DOMAIN K \cup {"tokenProgram", "rent", "systemProgram"}
        /\ \A n \in DOMAIN K : keys[n] = K[n]
        /\ \A n \in DOMAIN Sysvars : n \in DOMAIN keys /\ keys[n] = Sysvars[n]
    BY <2>3, SysvarsAdded, Zenon
  <2> HIDE DEF keys
  <2> QED BY <2>1, <2>2, <2>4
<1> HIDE DEF K, keys
<1>3. Named(Accounts(name), AddRewardPoolNames)
  BY AuthorityAccountsNamed
<1>4. /\ Len(AddRewardPoolNames) = 8
      /\ AddRewardPoolNames[1] = "payer" /\ AddRewardPoolNames[2] = "authority"
      /\ AddRewardPoolNames[3] = "rewardMint" /\ AddRewardPoolNames[4] = "stakePool"
      /\ AddRewardPoolNames[5] = "rewardVault" /\ AddRewardPoolNames[6] = "tokenProgram"
      /\ AddRewardPoolNames[7] = "rent" /\ AddRewardPoolNames[8] = "systemProgram"
  BY DEF AddRewardPoolNames
<1>5. CanBuildIx(name, keys)
  <2>1. \A k \in 1..Len(AddRewardPoolNames) : AddRewardPoolNames[k] \in DOMAIN keys
    BY <1>2, <1>4
  <2>2. CanBuild(Accounts(name), keys)
    BY <1>3, <2>1, NamedCanBuild
  <2> QED BY <2>2, InterfacesAgree DEF CanBuildIx, Accounts
<1>6. Begins(metas, Accounts(name), keys)
  <2>1. Len(Accounts(name)) \in Nat /\ DOMAIN Accounts(name) = 1..Len(Accounts(name))
    BY <1>3, <1>4 DEF Named
  <2>2. <<>> \in Seq({})
    OBVIOUS
  <2> QED BY <2>1, <2>2, InstructionBegins
<1> HIDE DEF metas
<1>7. \A k \in 1..8 : key(AddRewardPoolNames[k]) = keys[AddRewardPoolNames[k]]
  <2>1. \A k \in 1..Len(AddRewardPoolNames) :
            key(AddRewardPoolNames[k]) = IF AddRewardPoolNames[k] \in DOMAIN keys
                                         THEN keys[AddRewardPoolNames[k]] ELSE ProgramId
    BY <1>2, <1>3, <1>5, <1>6, InstructionArrives
  <2> QED BY <1>2, <1>4, <2>1
<1>8. /\ key("rewardMint") = <<"mint", mint>> /\ key("stakePool") = pool
      /\ key("rewardVault") = RewardVaultKey(pool, mint)
  <2> HIDE DEF key
  <2> QED BY <1>2, <1>4, <1>7
<1>9. key("rewardMint")[2] = mint /\ key("rewardVault")[3] = mint
  BY <1>8 DEF RewardVaultKey
<1>10. AuthorityAccepted(name, metas, Wallet(caller)) <=> pool = stake_pool /\ caller = authority
  <2>1. 2 \in 1..Len(AddRewardPoolNames) /\ 4 \in 1..Len(AddRewardPoolNames)
    BY <1>4
  <2>2. "stakePool" \in DOMAIN keys /\ "authority" \in DOMAIN keys
    BY <1>2
  <2>3. AuthorityAccepted(name, metas, Wallet(caller))
            <=> keys["stakePool"] = stake_pool /\ keys["authority"] = Wallet(authority)
    BY <1>2, <1>3, <1>4, <1>5, <1>6, <2>1, <2>2, AuthorityAcceptedWhen
  <2> QED BY <1>2, <2>3, WalletsDiffer
<1>11. index = i
  BY IndexArrives
<1>12. accepted <=> caller = authority /\ pool = stake_pool /\ SlotFree(i, mint)
  <2> HIDE DEF key, index
  <2> QED BY <1>8, <1>9, <1>10, <1>11
<1> DEFINE result == IF accepted THEN "accepted" ELSE "rejected"
<1> HIDE DEF accepted, index, key
<1>13. /\ admin'.by_authority <=> caller = authority
       /\ admin'.on_pool <=> pool = stake_pool
       /\ admin'.free <=> SlotFree(i, mint)
       /\ admin'.writable /\ admin'.result = result
  <2> DEFINE by == caller = authority
             on == pool = stake_pool
             free == SlotFree(i, mint)
  <2> HIDE DEF by, on, free, result
  <2>1. admin' = [NoCall EXCEPT !.op = "addRewardPool", !.by_authority = by, !.on_pool = on,
                                !.free = free, !.result = result]
    BY <1>1, Zenon DEF by, on, free, result
  <2>2. /\ admin'.by_authority = by /\ admin'.on_pool = on /\ admin'.free = free
        /\ admin'.writable = TRUE /\ admin'.result = result
    BY <2>1 DEF NoCall
  <2> QED BY <2>2, Zenon DEF by, on, free
<1> QED BY <1>1, <1>9, <1>11, <1>12, <1>13, Zenon DEF result

-----------------------------------------------------------------------------
\* The vaults in use, as a sequence: the vaults of the slots, no more and no less.
LEMMA UsedVaultsOf ==
    ASSUME NEW slots \in [Slots -> Mints \cup {NoKey}]
    PROVE  /\ UsedVaults(slots) \in Seq(Mints)
           /\ ToSet(UsedVaults(slots)) = {slots[i] : i \in Slots} \ {NoKey}
<1> DEFINE piece(i) == IF slots[i] = NoKey THEN <<>> ELSE <<slots[i]>>
           pieces == [i \in Slots |-> piece(i)]
<1>1. \A i \in Slots : /\ slots[i] = NoKey => piece(i) = <<>>
                       /\ slots[i] # NoKey => piece(i) = <<slots[i]>>
  OBVIOUS
<1>2. UsedVaults(slots) = FlattenSeq(pieces)
  BY Zenon DEF UsedVaults
<1>3. \A i \in Slots : piece(i) \in Seq(Mints)
  <2> SUFFICES ASSUME NEW i \in Slots PROVE piece(i) \in Seq(Mints)
    OBVIOUS
  <2>1. slots[i] \in Mints \cup {NoKey}
    OBVIOUS
  <2> QED BY <1>1, <2>1
<1>4. \A i \in Slots : ToSet(piece(i)) = {slots[i]} \ {NoKey}
  <2>1. ToSet(<<>>) = {} /\ \A v : ToSet(<<v>>) = {v}
    BY DEF ToSet
  <2> QED BY <1>1, <2>1
<1> HIDE DEF piece
<1>5. pieces \in Seq(Seq(Mints)) /\ DOMAIN pieces = Slots
  BY <1>3, SizeAssumption DEF Slots
<1>6. \A i \in Slots : pieces[i] = piece(i)
  OBVIOUS
<1> HIDE DEF pieces
<1>7. /\ FlattenSeq(pieces) \in Seq(Mints)
      /\ ToSet(FlattenSeq(pieces)) = UNION {ToSet(pieces[i]) : i \in Slots}
  BY <1>5, FlattenElements
<1>8. UNION {ToSet(pieces[i]) : i \in Slots} = {slots[i] : i \in Slots} \ {NoKey}
  BY <1>4, <1>6
<1> QED BY <1>2, <1>7, <1>8

\* Vaults of another slot have another mint.
Distinct(slots) ==
    \A i, j \in Slots : slots[i] = slots[j] => i = j \/ slots[i] = NoKey

\* Slots that were seen in use keep their vaults.
Kept(seen, slots) == \A i \in Slots : seen[i] # NoKey => slots[i] = seen[i]

\* A pool read before is the pool now if all its vaults were in it.
LEMMA SeenAllVaults ==
    ASSUME NEW seen \in [Slots -> Mints \cup {NoKey}],
           NEW slots \in [Slots -> Mints \cup {NoKey}],
           Distinct(slots), Kept(seen, slots),
           \A i \in Slots : slots[i] # NoKey =>
               \E j \in Slots : seen[j] = slots[i]
    PROVE  slots = seen
<1> SUFFICES ASSUME NEW i \in Slots PROVE slots[i] = seen[i]
  OBVIOUS
<1>1. CASE slots[i] = NoKey
  BY <1>1 DEF Kept
<1>2. CASE slots[i] # NoKey
  <2>1. PICK j \in Slots : seen[j] = slots[i]
    BY <1>2
  <2>2. slots[j] = slots[i]
    BY <1>2, <2>1 DEF Kept
  <2>3. i = j
    BY <1>2, <2>2 DEF Distinct
  <2> QED BY <2>1, <2>3
<1> QED BY <1>1, <1>2

LEMMA VaultKeysDiffer ==
    /\ \A pool, v, w : RewardVaultKey(pool, v) = RewardVaultKey(pool, w) <=> v = w
    /\ \A pool, v, owner, mint : RewardVaultKey(pool, v) # TokenAccount(owner, mint)
<1>1. ASSUME NEW pool, NEW v, NEW w
      PROVE  RewardVaultKey(pool, v) = RewardVaultKey(pool, w) <=> v = w
  BY DEF RewardVaultKey
<1>2. ASSUME NEW pool, NEW v, NEW owner, NEW mint
      PROVE  RewardVaultKey(pool, v) # TokenAccount(owner, mint)
  <2>1. RewardVaultKey(pool, v)[1] = "rewardVault" /\ TokenAccount(owner, mint)[1] = "tokenAccount"
    BY DEF RewardVaultKey, TokenAccount
  <2> QED BY <2>1
<1> QED BY <1>1, <1>2, Zenon

\* The vaults a deposit sends along are the pool's if the pool is what it was.
LEMMA RefreshOfSeen ==
    ASSUME NEW seen \in [Slots -> Mints \cup {NoKey}],
           reward_vaults \in [Slots -> Mints \cup {NoKey}],
           Distinct(reward_vaults), Kept(seen, reward_vaults), staked
    PROVE  RefreshAccepts(RewardPoolPublicKeys(seen), 1) <=> reward_vaults = seen
<1> DEFINE now == UsedVaults(reward_vaults)
           then == UsedVaults(seen)
           accounts == RewardPoolPublicKeys(seen)
<1>1. /\ now \in Seq(Mints) /\ ToSet(now) = {reward_vaults[i] : i \in Slots} \ {NoKey}
      /\ then \in Seq(Mints) /\ ToSet(then) = {seen[i] : i \in Slots} \ {NoKey}
  BY UsedVaultsOf
<1>2. RefreshAccepts(accounts, 1) <=>
          \A k \in 1..Len(now) :
              /\ (k - 1) * 1 + 1 <= Len(accounts)
              /\ accounts[(k - 1) * 1 + 1].pubkey = RewardVaultKey(stake_pool, now[k])
  BY Zenon DEF RefreshAccepts
<1>3. accounts = [k \in 1..Len(then) |-> Meta(RewardVaultKey(stake_pool, then[k]), FALSE, FALSE)]
  BY DEF RewardPoolPublicKeys
<1> HIDE DEF now, then, accounts
<1>4. /\ Len(now) \in Nat /\ Len(then) \in Nat
      /\ DOMAIN now = 1..Len(now) /\ DOMAIN then = 1..Len(then)
  BY <1>1
<1>5. /\ Len(accounts) = Len(then)
      /\ \A k \in 1..Len(then) : accounts[k].pubkey = RewardVaultKey(stake_pool, then[k])
  BY <1>3, <1>4 DEF Meta
<1>6. RefreshAccepts(accounts, 1) <=>
          \A k \in 1..Len(now) : k <= Len(then) /\ then[k] = now[k]
  <2>1. ASSUME NEW k \in 1..Len(now)
        PROVE  /\ (k - 1) * 1 + 1 = k
               /\ k <= Len(then) => k \in 1..Len(then)
    BY <1>4
  <2>2. RefreshAccepts(accounts, 1) <=>
            \A k \in 1..Len(now) : k <= Len(then)
                                   /\ accounts[k].pubkey = RewardVaultKey(stake_pool, now[k])
    BY <1>2, <1>5, <2>1
  <2> QED BY <1>5, <2>1, <2>2, VaultKeysDiffer
<1>7. ASSUME RefreshAccepts(accounts, 1) PROVE reward_vaults = seen
  <2>1. ASSUME NEW i \in Slots, reward_vaults[i] # NoKey
        PROVE  \E j \in Slots : seen[j] = reward_vaults[i]
    <3>1. PICK k \in DOMAIN now : now[k] = reward_vaults[i]
      BY <1>1, <2>1 DEF ToSet
    <3>2. k \in DOMAIN then /\ then[k] = now[k]
      BY <1>4, <1>6, <1>7
    <3>3. now[k] \in ToSet(then)
      BY <3>2 DEF ToSet
    <3> QED BY <1>1, <3>1, <3>3
  <2> QED BY <2>1, SeenAllVaults
<1>8. ASSUME reward_vaults = seen PROVE RefreshAccepts(accounts, 1)
  <2>1. now = then
    BY <1>8 DEF now, then
  <2>2. \A k \in 1..Len(now) : k <= Len(now)
    BY <1>4
  <2> QED BY <1>6, <2>1, <2>2
<1> QED BY <1>7, <1>8 DEF accounts

\* The accounts a claim sends along: for a mint, its vault and the account to pay.
VaultMeta(mint)      == Meta(RewardVaultKey(stake_pool, mint), TRUE, FALSE)
PayMeta(owner, mint) == Meta(TokenAccount(owner, mint), TRUE, FALSE)

ClaimMetas(owner) == {VaultMeta(m) : m \in Mints} \cup {PayMeta(owner, m) : m \in Mints}

LEMMA RemainingAccountsOf ==
    ASSUME NEW seen \in [Slots -> Mints \cup {NoKey}],
           NEW mints \in [Slots -> Mints \cup {NoKey}], NEW owner
    PROVE  /\ RemainingAccounts(seen, mints, owner) \in Seq(ClaimMetas(owner))
           /\ \A m \in ToSet(RemainingAccounts(seen, mints, owner)) :
                  \E i \in Slots : /\ seen[i] # NoKey /\ mints[i] # NoKey
                                   /\ m \in {VaultMeta(seen[i]), PayMeta(owner, mints[i])}
<1> DEFINE piece(i) == IF seen[i] = NoKey \/ mints[i] = NoKey THEN <<>>
                       ELSE <<VaultMeta(seen[i]), PayMeta(owner, mints[i])>>
           pieces == [i \in Slots |-> piece(i)]
<1>1. \A i \in Slots : /\ seen[i] = NoKey \/ mints[i] = NoKey => piece(i) = <<>>
                       /\ seen[i] # NoKey /\ mints[i] # NoKey
                              => piece(i) = <<VaultMeta(seen[i]), PayMeta(owner, mints[i])>>
  OBVIOUS
<1>2. RemainingAccounts(seen, mints, owner) = FlattenSeq(pieces)
  BY Zenon DEF RemainingAccounts, VaultMeta, PayMeta
<1> HIDE DEF piece
<1>3. ASSUME NEW i \in Slots PROVE piece(i) \in Seq(ClaimMetas(owner))
  <2>1. CASE seen[i] = NoKey \/ mints[i] = NoKey
    <3>1. piece(i) = <<>>
      BY <1>1, <2>1, Zenon
    <3>2. <<>> \in Seq(ClaimMetas(owner))
      OBVIOUS
    <3> QED BY <3>1, <3>2
  <2>2. CASE seen[i] # NoKey /\ mints[i] # NoKey
    <3>1. seen[i] \in Mints /\ mints[i] \in Mints
      BY <2>2
    <3>2. VaultMeta(seen[i]) \in ClaimMetas(owner) /\ PayMeta(owner, mints[i]) \in ClaimMetas(owner)
      BY <3>1, Zenon DEF ClaimMetas
    <3>3. piece(i) = <<VaultMeta(seen[i]), PayMeta(owner, mints[i])>>
      BY <1>1, <2>2, Zenon
    <3>4. \A S : \A v, w \in S : <<v, w>> \in Seq(S)
      OBVIOUS
    <3> QED BY <3>2, <3>3, <3>4, Zenon
  <2> QED BY <2>1, <2>2
<1>4. ASSUME NEW i \in Slots, NEW m \in ToSet(piece(i))
      PROVE  /\ seen[i] # NoKey /\ mints[i] # NoKey
             /\ m \in {VaultMeta(seen[i]), PayMeta(owner, mints[i])}
  <2>1. ToSet(<<>>) = {} /\ \A v, w : ToSet(<<v, w>>) = {v, w}
    BY DEF ToSet
  <2> QED BY <1>1, <1>4, <2>1
<1>5. pieces \in Seq(Seq(ClaimMetas(owner))) /\ DOMAIN pieces = Slots
  BY <1>3, SizeAssumption DEF Slots
<1>6. \A i \in Slots : pieces[i] = piece(i)
  OBVIOUS
<1> HIDE DEF pieces
<1>7. /\ FlattenSeq(pieces) \in Seq(ClaimMetas(owner))
      /\ ToSet(FlattenSeq(pieces)) = UNION {ToSet(pieces[i]) : i \in Slots}
  BY <1>5, FlattenElements
<1>8. \A m \in UNION {ToSet(pieces[i]) : i \in Slots} : \E i \in Slots : m \in ToSet(piece(i))
  BY <1>6
<1> QED BY <1>2, <1>4, <1>7, <1>8, Zenon

\* For each mint of one sequence, its vault and the account to pay in the other.
Paired(used, accounts, owner) ==
    /\ used \in Seq(Mints) /\ accounts \in Seq(ClaimMetas(owner))
    /\ Len(accounts) = 2 * Len(used)
    /\ \A k \in 1..Len(used) : /\ accounts[2 * k - 1] = VaultMeta(used[k])
                               /\ accounts[2 * k] = PayMeta(owner, used[k])

LEMMA PairedConcat ==
    ASSUME NEW u, NEW r, NEW v, NEW s, NEW owner, Paired(u, r, owner), Paired(v, s, owner)
    PROVE  Paired(u \o v, r \o s, owner)
<1> DEFINE T == ClaimMetas(owner)
           n == Len(u)
           all == u \o v
           both == r \o s
<1>1. /\ u \in Seq(Mints) /\ v \in Seq(Mints) /\ r \in Seq(T) /\ s \in Seq(T)
      /\ n \in Nat /\ Len(v) \in Nat /\ Len(r) = 2 * n /\ Len(s) = 2 * Len(v)
  BY DEF Paired
<1> HIDE DEF T
<1>2. /\ all \in Seq(Mints) /\ Len(all) = n + Len(v)
      /\ \A i \in 1..(n + Len(v)) : all[i] = IF i <= n THEN u[i] ELSE v[i - n]
      /\ both \in Seq(T) /\ Len(both) = 2 * n + 2 * Len(v)
      /\ \A i \in 1..(2 * n + 2 * Len(v)) : both[i] = IF i <= 2 * n THEN r[i] ELSE s[i - 2 * n]
  <2>1. /\ all \in Seq(Mints) /\ Len(all) = n + Len(v)
        /\ \A i \in 1..(n + Len(v)) : all[i] = IF i <= n THEN u[i] ELSE v[i - n]
    BY <1>1, ConcatProperties
  <2>2. /\ both \in Seq(T) /\ Len(both) = Len(r) + Len(s)
        /\ \A i \in 1..(Len(r) + Len(s)) :
              both[i] = IF i <= Len(r) THEN r[i] ELSE s[i - Len(r)]
    <3> HIDE DEF n
    <3> QED BY <1>1, ConcatProperties
  <2> HIDE DEF all, both, n
  <2> QED BY <1>1, <2>1, <2>2
<1> HIDE DEF all, both, n
<1>3. ASSUME NEW k \in 1..(n + Len(v))
      PROVE  both[2 * k - 1] = VaultMeta(all[k]) /\ both[2 * k] = PayMeta(owner, all[k])
  <2> DEFINE e == 2 * k
             o == 2 * k - 1
             l == k - n
             el == 2 * l
             ol == 2 * l - 1
  <2>1. /\ e \in 1..(2 * n + 2 * Len(v)) /\ o \in 1..(2 * n + 2 * Len(v))
        /\ k <= n => e <= 2 * n /\ o <= 2 * n /\ k \in 1..n
        /\ ~ (k <= n) => /\ ~ (e <= 2 * n) /\ ~ (o <= 2 * n) /\ l \in 1..Len(v)
                         /\ e - 2 * n = el /\ o - 2 * n = ol
    BY <1>1
  <2>2. k \in 1..n => r[2 * k - 1] = VaultMeta(u[k]) /\ r[2 * k] = PayMeta(owner, u[k])
    BY DEF Paired, n
  <2>3. l \in 1..Len(v) => s[2 * l - 1] = VaultMeta(v[l]) /\ s[2 * l] = PayMeta(owner, v[l])
    <3> HIDE DEF l
    <3> QED BY DEF Paired
  <2>4. /\ k \in 1..n => r[o] = VaultMeta(u[k]) /\ r[e] = PayMeta(owner, u[k])
        /\ l \in 1..Len(v) => s[ol] = VaultMeta(v[l]) /\ s[el] = PayMeta(owner, v[l])
    BY <2>2, <2>3
  <2>5. all[k] = IF k <= n THEN u[k] ELSE v[l]
    BY <1>2
  <2> HIDE DEF e, o, el, ol, l
  <2>6. /\ both[e] = IF e <= 2 * n THEN r[e] ELSE s[e - 2 * n]
        /\ both[o] = IF o <= 2 * n THEN r[o] ELSE s[o - 2 * n]
    BY <1>2, <2>1
  <2>7. CASE k <= n
    <3>1. both[e] = r[e] /\ both[o] = r[o] /\ all[k] = u[k]
      BY <2>1, <2>5, <2>6, <2>7
    <3>2. both[o] = VaultMeta(all[k]) /\ both[e] = PayMeta(owner, all[k])
      BY <2>1, <2>4, <2>7, <3>1, Zenon
    <3> QED BY <3>2 DEF e, o
  <2>8. CASE ~ (k <= n)
    <3>1. both[e] = s[el] /\ both[o] = s[ol] /\ all[k] = v[l]
      BY <2>1, <2>5, <2>6, <2>8
    <3>2. both[o] = VaultMeta(all[k]) /\ both[e] = PayMeta(owner, all[k])
      BY <2>1, <2>4, <2>8, <3>1, Zenon
    <3> QED BY <3>2 DEF e, o
  <2> QED BY <2>7, <2>8
<1>4. Len(all) = n + Len(v) /\ Len(both) = 2 * Len(all)
  BY <1>1, <1>2
<1>5. Paired(all, both, owner)
  BY <1>2, <1>3, <1>4 DEF Paired, T
<1> QED BY <1>5 DEF all, both

LEMMA PairedPieces ==
    ASSUME NEW owner
    PROVE  /\ Paired(<<>>, <<>>, owner)
           /\ \A m \in Mints : Paired(<<m>>, <<VaultMeta(m), PayMeta(owner, m)>>, owner)
<1>1. Paired(<<>>, <<>>, owner)
  <2>1. <<>> \in Seq(Mints) /\ <<>> \in Seq(ClaimMetas(owner)) /\ Len(<<>>) = 0 /\ 1..0 = {}
    OBVIOUS
  <2> QED BY <2>1, SMT DEF Paired
<1>2. ASSUME NEW m \in Mints PROVE Paired(<<m>>, <<VaultMeta(m), PayMeta(owner, m)>>, owner)
  <2> DEFINE a == VaultMeta(m)
             b == PayMeta(owner, m)
             T == ClaimMetas(owner)
  <2>1. a \in T /\ b \in T
    BY Zenon DEF ClaimMetas
  <2> HIDE DEF a, b, T
  <2>2. /\ <<m>> \in Seq(Mints) /\ <<a, b>> \in Seq(T) /\ Len(<<a, b>>) = 2 * Len(<<m>>)
        /\ \A k \in 1..Len(<<m>>) : k = 1
    BY <2>1
  <2>3. <<m>>[1] = m /\ <<a, b>>[2 * 1 - 1] = a /\ <<a, b>>[2 * 1] = b
    OBVIOUS
  <2>4. \A k \in 1..Len(<<m>>) : /\ <<a, b>>[2 * k - 1] = VaultMeta(<<m>>[k])
                                 /\ <<a, b>>[2 * k] = PayMeta(owner, <<m>>[k])
    BY <2>2, <2>3, Zenon DEF a, b
  <2> QED BY <2>2, <2>4, Zenon DEF Paired, a, b, T
<1> QED BY <1>1, <1>2

\* A caller who knows every mint sends the vaults in use along in their order, each
\* with the account to pay.
LEMMA AllMintsPaired ==
    ASSUME NEW seen \in [Slots -> Mints \cup {NoKey}], NEW owner
    PROVE  Paired(UsedVaults(seen), RemainingAccounts(seen, seen, owner), owner)
<1> DEFINE vaults == [i \in Slots |-> IF seen[i] = NoKey THEN <<>> ELSE <<seen[i]>>]
           metas == [i \in Slots |->
                        IF seen[i] = NoKey \/ seen[i] = NoKey THEN <<>>
                        ELSE <<VaultMeta(seen[i]), PayMeta(owner, seen[i])>>]
           n == MAX_REWARD_POOLS
<1>1. UsedVaults(seen) = FlattenSeq(vaults)
  BY Zenon DEF UsedVaults
<1>2. RemainingAccounts(seen, seen, owner) = FlattenSeq(metas)
  BY Zenon DEF RemainingAccounts, VaultMeta, PayMeta
<1>3. ASSUME NEW i \in Slots PROVE Paired(vaults[i], metas[i], owner)
  <2>1. CASE seen[i] = NoKey
    <3>1. vaults[i] = <<>> /\ metas[i] = <<>>
      BY <2>1
    <3> QED BY <3>1, PairedPieces
  <2>2. CASE seen[i] # NoKey
    <3>1. vaults[i] = <<seen[i]>> /\ metas[i] = <<VaultMeta(seen[i]), PayMeta(owner, seen[i])>>
      BY <2>2
    <3>2. seen[i] \in Mints
      BY <2>2
    <3> QED BY <3>1, <3>2, PairedPieces, Zenon
  <2> QED BY <2>1, <2>2
<1>4. n \in Nat /\ Slots = 1..n
  BY SizeAssumption DEF Slots
<1>5. Len(vaults) = n /\ Len(metas) = n
  BY <1>4
<1> HIDE DEF n, vaults, metas
<1>6. CASE n = 0
  <2>1. vaults = <<>> /\ metas = <<>>
    <3>1. Slots = {}
      BY <1>4, <1>6
    <3> QED BY <3>1 DEF vaults, metas
  <2>2. FlattenSeq(<<>>) = <<>>
    BY DEF FlattenSeq
  <2> QED BY <1>1, <1>2, <2>1, <2>2, PairedPieces
<1>7. CASE n # 0
  <2>1. PICK f : IsJoin(f, vaults, n) /\ FlattenSeq(vaults) = f[n]
    BY <1>4, <1>5, <1>7, FlattenIsJoin
  <2>2. PICK g : IsJoin(g, metas, n) /\ FlattenSeq(metas) = g[n]
    BY <1>4, <1>5, <1>7, FlattenIsJoin
  <2> DEFINE T == {k \in Nat : k \in 1..n => Paired(f[k], g[k], owner)}
  <2>3. 0 \in T
    BY <1>4
  <2>4. ASSUME NEW k \in T PROVE k + 1 \in T
    <3> SUFFICES ASSUME k + 1 \in 1..n PROVE Paired(f[k + 1], g[k + 1], owner)
      OBVIOUS
    <3>1. Paired(vaults[k + 1], metas[k + 1], owner)
      BY <1>3, <1>4
    <3>2. /\ f[k + 1] = IF k + 1 = 1 THEN vaults[k + 1] ELSE f[k + 1 - 1] \o vaults[k + 1]
          /\ g[k + 1] = IF k + 1 = 1 THEN metas[k + 1] ELSE g[k + 1 - 1] \o metas[k + 1]
      BY <2>1, <2>2, JoinEquations
    <3>3. CASE k = 0
      <4>1. k + 1 = 1
        BY <3>3
      <4> QED BY <3>1, <3>2, <4>1, Zenon
    <3>4. CASE k # 0
      <4>1. k + 1 # 1 /\ k + 1 - 1 = k /\ k \in 1..n
        BY <1>4, <3>4
      <4>2. Paired(f[k], g[k], owner)
        BY <4>1
      <4>3. f[k + 1] = f[k] \o vaults[k + 1] /\ g[k + 1] = g[k] \o metas[k + 1]
        BY <3>2, <4>1, Zenon
      <4>4. Paired(f[k] \o vaults[k + 1], g[k] \o metas[k + 1], owner)
        BY <3>1, <4>2, PairedConcat
      <4> QED BY <4>3, <4>4
    <3> QED BY <3>3, <3>4
  <2>5. T \in SUBSET Nat
    OBVIOUS
  <2>6. n \in T
    <3> HIDE DEF T
    <3> QED BY <1>4, <2>3, <2>4, <2>5, NatSetInduction
  <2>7. n \in 1..n
    BY <1>4, <1>7
  <2> QED BY <1>1, <1>2, <2>1, <2>2, <2>6, <2>7
<1> QED BY <1>6, <1>7

\* The accounts a claim sends along are accepted if the pool is what it was and the
\* caller knew every mint.
LEMMA ClaimOfSeen ==
    ASSUME NEW seen \in [Slots -> Mints \cup {NoKey}],
           NEW mints \in [Slots -> Mints \cup {NoKey}],
           \A i \in Slots : mints[i] \in {seen[i], NoKey},
           reward_vaults \in [Slots -> Mints \cup {NoKey}],
           Distinct(reward_vaults), Kept(seen, reward_vaults), NEW owner
    PROVE  LET accounts == RemainingAccounts(seen, mints, owner)
           IN  RefreshAccepts(accounts, 2) /\ ClaimAccepts(accounts)
                   <=> reward_vaults = seen /\ mints = seen
<1> DEFINE now == UsedVaults(reward_vaults)
           accounts == RemainingAccounts(seen, mints, owner)
<1>1. now \in Seq(Mints) /\ ToSet(now) = {reward_vaults[i] : i \in Slots} \ {NoKey}
  BY UsedVaultsOf
<1>2. RefreshAccepts(accounts, 2) <=>
          (staked => \A k \in 1..Len(now) :
              /\ (k - 1) * 2 + 1 <= Len(accounts)
              /\ accounts[(k - 1) * 2 + 1].pubkey = RewardVaultKey(stake_pool, now[k]))
  BY Zenon DEF RefreshAccepts
<1>3. ClaimAccepts(accounts) <=>
          \A k \in 1..Len(now) :
              /\ 2 * k <= Len(accounts)
              /\ accounts[2 * k - 1].pubkey = RewardVaultKey(stake_pool, now[k])
              /\ accounts[2 * k - 1].isWritable /\ accounts[2 * k].isWritable
  BY Zenon DEF ClaimAccepts
<1>4. /\ accounts \in Seq(ClaimMetas(owner))
      /\ \A m \in ToSet(accounts) :
             \E i \in Slots : /\ seen[i] # NoKey /\ mints[i] # NoKey
                              /\ m \in {VaultMeta(seen[i]), PayMeta(owner, mints[i])}
  BY RemainingAccountsOf, Zenon
<1>5. /\ Len(now) \in Nat /\ DOMAIN now = 1..Len(now)
      /\ Len(accounts) \in Nat /\ DOMAIN accounts = 1..Len(accounts)
  BY <1>1, <1>4
<1>6. ASSUME reward_vaults = seen, mints = seen
      PROVE  RefreshAccepts(accounts, 2) /\ ClaimAccepts(accounts)
  <2>1. Paired(now, accounts, owner)
    BY <1>6, AllMintsPaired
  <2> HIDE DEF now, accounts
  <2>2. ASSUME NEW k \in 1..Len(now)
        PROVE  /\ 2 * k <= Len(accounts) /\ (k - 1) * 2 + 1 = 2 * k - 1 /\ 2 * k - 1 <= Len(accounts)
               /\ accounts[2 * k - 1].pubkey = RewardVaultKey(stake_pool, now[k])
               /\ accounts[2 * k - 1].isWritable /\ accounts[2 * k].isWritable
    <3>1. /\ Len(accounts) = 2 * Len(now)
          /\ accounts[2 * k - 1] = VaultMeta(now[k]) /\ accounts[2 * k] = PayMeta(owner, now[k])
      BY <2>1 DEF Paired
    <3>2. 2 * k <= Len(accounts) /\ (k - 1) * 2 + 1 = 2 * k - 1 /\ 2 * k - 1 <= Len(accounts)
      BY <1>5, <3>1
    <3>3. /\ accounts[2 * k - 1].pubkey = RewardVaultKey(stake_pool, now[k])
          /\ accounts[2 * k - 1].isWritable /\ accounts[2 * k].isWritable
      BY <3>1 DEF VaultMeta, PayMeta, Meta
    <3> QED BY <3>2, <3>3, Zenon
  <2> QED BY <1>2, <1>3, <2>2
<1>7. ASSUME ClaimAccepts(accounts) PROVE reward_vaults = seen /\ mints = seen
  <2>1. ASSUME NEW i \in Slots, reward_vaults[i] # NoKey
        PROVE  \E j \in Slots : seen[j] = reward_vaults[i] /\ mints[j] # NoKey
    <3>1. PICK k \in DOMAIN now : now[k] = reward_vaults[i]
      BY <1>1, <2>1 DEF ToSet
    <3> DEFINE o == 2 * k - 1
               m == accounts[o]
    <3>2. m.pubkey = RewardVaultKey(stake_pool, now[k]) /\ 2 * k <= Len(accounts)
      <4> HIDE DEF accounts, now
      <4> QED BY <1>3, <1>5, <1>7, <3>1
    <3>3. m \in ToSet(accounts)
      <4>1. o \in DOMAIN accounts
        <5> HIDE DEF accounts, now
        <5> QED BY <1>5, <3>1, <3>2
      <4> HIDE DEF o
      <4> QED BY <4>1 DEF ToSet
    <3> HIDE DEF m
    <3>4. PICK j \in Slots : /\ seen[j] # NoKey /\ mints[j] # NoKey
                             /\ m \in {VaultMeta(seen[j]), PayMeta(owner, mints[j])}
      BY <1>4, <3>3
    <3>5. /\ VaultMeta(seen[j]).pubkey = RewardVaultKey(stake_pool, seen[j])
          /\ PayMeta(owner, mints[j]).pubkey = TokenAccount(owner, mints[j])
      BY DEF VaultMeta, PayMeta, Meta
    <3> HIDE DEF now
    <3>6. m = VaultMeta(seen[j])
      BY <3>2, <3>4, <3>5, VaultKeysDiffer
    <3>7. seen[j] = now[k]
      BY <3>2, <3>5, <3>6, VaultKeysDiffer
    <3> QED BY <3>1, <3>4, <3>7
  <2>2. reward_vaults = seen
    BY <2>1, SeenAllVaults
  <2>3. ASSUME NEW i \in Slots PROVE mints[i] = seen[i]
    <3>1. CASE seen[i] = NoKey
      BY <3>1
    <3>2. CASE seen[i] # NoKey
      <4>1. PICK j \in Slots : seen[j] = reward_vaults[i] /\ mints[j] # NoKey
        BY <2>1, <2>2, <3>2
      <4>2. i = j
        BY <2>2, <3>2, <4>1 DEF Distinct
      <4> QED BY <4>1, <4>2
    <3> QED BY <3>1, <3>2
  <2> QED BY <2>2, <2>3
<1> QED BY <1>6, <1>7, Zenon

-----------------------------------------------------------------------------
\* A field of an account's data is read as it was stored.
LEMMA StoredIsRead ==
    ASSUME NEW fields, NEW values, NEW name, DOMAIN values = {name},
           NEW j \in DOMAIN fields, fields[j].name = name,
           \A i \in DOMAIN fields : fields[i].name = name => i = j
    PROVE  Decoded(fields, Stored(fields, values), name) = values[name]
<1>1. (CHOOSE i \in DOMAIN fields : fields[i].name = name) = j
  OBVIOUS
<1> DEFINE cell == <<OffsetOf(fields, j), fields[j].width, values[name]>>
<1>2. Stored(fields, values) = {cell}
  <2>1. {i \in DOMAIN fields : fields[i].name \in DOMAIN values} = {j}
    OBVIOUS
  <2> QED BY <2>1 DEF Stored
<1>3. Decoded(fields, {cell}, name) = BytesAt({cell}, OffsetOf(fields, j), fields[j].width)
  BY <1>1, Zenon DEF Decoded
<1>4. cell[1] = OffsetOf(fields, j) /\ cell[2] = fields[j].width /\ cell[3] = values[name]
  OBVIOUS
<1> HIDE DEF cell
<1>5. BytesAt({cell}, OffsetOf(fields, j), fields[j].width) = cell[3]
  <2>1. \E value \in {cell} : value[1] = OffsetOf(fields, j) /\ value[2] = fields[j].width
    BY <1>4
  <2>2. (CHOOSE value \in {cell} : value[1] = OffsetOf(fields, j) /\ value[2] = fields[j].width)
        = cell
    BY <2>1
  <2> QED BY <2>1, <2>2, Zenon DEF BytesAt
<1> QED BY <1>2, <1>3, <1>4, <1>5

\* A client sees the vaults that are in the slots.
LEMMA SeenAsStored ==
    ASSUME reward_vaults \in [Slots -> Mints \cup {NoKey}]
    PROVE  SeenRewardPools = reward_vaults
<1> DEFINE cells == [i \in Slots |-> Stored(Source!RewardPool, [rewardVault |-> reward_vaults[i]])]
           K == [rewardPools |-> cells]
           fields == Own.stakePool
<1>1. Source!RewardPool = Current!RewardPool
  BY Zenon DEF Source!RewardPool, Current!RewardPool,
        Source!PublicKey, Current!PublicKey, Source!U128, Current!U128,
        Source!U64, Current!U64, Source!Field, Current!Field
<1>2. \A i \in Slots : Decoded(Current!RewardPool, cells[i], "rewardVault") = reward_vaults[i]
  <2> SUFFICES ASSUME NEW i \in Slots
               PROVE  Decoded(Current!RewardPool, cells[i], "rewardVault") = reward_vaults[i]
    OBVIOUS
  <2> DEFINE R == Current!RewardPool
             V == [rewardVault |-> reward_vaults[i]]
  <2>1. /\ DOMAIN R = 1..4 /\ R[1].name = "rewardVault"
        /\ \A k \in DOMAIN R : R[k].name = "rewardVault" => k = 1
    BY DEF Current!RewardPool, Current!PublicKey, Current!U128, Current!U64, Current!Field
  <2>2. cells[i] = Stored(R, V)
    BY <1>1
  <2>3. DOMAIN V = {"rewardVault"} /\ V["rewardVault"] = reward_vaults[i]
    OBVIOUS
  <2>4. 1 \in DOMAIN R
    BY <2>1
  <2> HIDE DEF R, V, cells
  <2>5. Decoded(R, Stored(R, V), "rewardVault") = V["rewardVault"]
    BY <2>1, <2>3, <2>4, StoredIsRead
  <2> QED BY <2>2, <2>3, <2>5 DEF R
<1>3. DOMAIN K = {"rewardPools"} /\ K["rewardPools"] = cells
  OBVIOUS
<1>4. \E j \in DOMAIN fields : /\ fields[j].name = "rewardPools"
                               /\ \A i \in DOMAIN fields : fields[i].name = "rewardPools" => i = j
  <2>1. CASE version = "v0"
    <3>1. fields = V0!stakePool
      BY <2>1 DEF Own
    <3>2. DOMAIN fields = 1..15 /\ fields[7].name = "rewardPools"
      BY <3>1 DEF V0!stakePool, V0!Discriminator, V0!PublicKey, V0!U128, V0!U64, V0!U8, V0!Field
    <3>3. \A i \in DOMAIN fields : fields[i].name = "rewardPools" => i = 7
      BY <3>1 DEF V0!stakePool, V0!Discriminator, V0!PublicKey, V0!U128, V0!U64, V0!U8, V0!Field
    <3> QED BY <3>2, <3>3
  <2>2. CASE version # "v0"
    <3>1. fields = Source!StakePool
      BY <2>2 DEF Own
    <3>2. DOMAIN fields = 1..17 /\ fields[8].name = "rewardPools"
      BY <3>1 DEF Source!StakePool, Source!Discriminator, Source!PublicKey, Source!U128,
                  Source!U64, Source!U8, Source!Field
    <3>3. \A i \in DOMAIN fields : fields[i].name = "rewardPools" => i = 8
      BY <3>1 DEF Source!StakePool, Source!Discriminator, Source!PublicKey, Source!U128,
                  Source!U64, Source!U8, Source!Field
    <3> QED BY <3>2, <3>3
  <2> QED BY <2>1, <2>2
<1>5. PoolData = Stored(fields, K) /\ Published.stakePool = fields
  BY InterfacesAgree DEF PoolData
<1> HIDE DEF cells, K, fields
<1>6. Decoded(fields, Stored(fields, K), "rewardPools") = cells
  BY <1>3, <1>4, StoredIsRead
<1>7. SeenRewardPools = [i \in Slots |-> Decoded(Current!RewardPool, cells[i], "rewardVault")]
  <2>1. SeenRewardPools =
            [i \in Slots |-> Decoded(Current!RewardPool,
                                     Decoded(Published.stakePool, PoolData, "rewardPools")[i],
                                     "rewardVault")]
    BY Zenon DEF SeenRewardPools
  <2> QED BY <1>5, <1>6, <2>1, Zenon
<1> QED BY <1>2, <1>7

-----------------------------------------------------------------------------
\* The keys the callers of the authority's other instructions name.
LEMMA AdminKeysNamed ==
    ASSUME NEW caller, NEW new_authority
    PROVE  LET keys == AdminKeys(caller, new_authority)
           IN  /\ \A n \in DOMAIN Sysvars : n \in DOMAIN keys /\ keys[n] = Sysvars[n]
               /\ DOMAIN keys = {"payer", "authority", "newAuthority", "stakePool", "stakeMint",
                                 "destination", "metadataAccount", "metadataProgram",
                                 "tokenProgram", "rent", "systemProgram"}
               /\ keys["authority"] = Wallet(caller)
               /\ keys["newAuthority"] = Wallet(new_authority)
               /\ keys["stakePool"] = stake_pool
               /\ keys["stakeMint"] = StakeMintKey(stake_pool)
               /\ keys["metadataAccount"] = MetadataKey(StakeMintKey(stake_pool))
               /\ keys["metadataProgram"] = <<"metadata">>
<1> DEFINE K == [payer |-> Wallet(caller), authority |-> Wallet(caller),
                 newAuthority |-> Wallet(new_authority), stakePool |-> stake_pool,
                 stakeMint |-> StakeMintKey(stake_pool),
                 destination |-> TokenAccount(Wallet(caller), NoKey),
                 metadataAccount |-> MetadataKey(StakeMintKey(stake_pool)),
                 metadataProgram |-> <<"metadata">>]
           keys == AdminKeys(caller, new_authority)
<1>1. keys = AndSysvars(K)
  BY Zenon DEF AdminKeys
<1>2. DOMAIN K = {"payer", "authority", "newAuthority", "stakePool", "stakeMint",
                  "destination", "metadataAccount", "metadataProgram"}
  OBVIOUS
<1>3. /\ K["authority"] = Wallet(caller) /\ K["newAuthority"] = Wallet(new_authority)
      /\ K["stakePool"] = stake_pool /\ K["stakeMint"] = StakeMintKey(stake_pool)
      /\ K["metadataAccount"] = MetadataKey(StakeMintKey(stake_pool))
      /\ K["metadataProgram"] = <<"metadata">>
  OBVIOUS
<1> HIDE DEF K, keys
<1>4. DOMAIN K \cap {"tokenProgram", "rent", "systemProgram"} = {}
  BY <1>2
<1>5. /\ DOMAIN keys = DOMAIN K \cup {"tokenProgram", "rent", "systemProgram"}
      /\ \A n \in DOMAIN K : keys[n] = K[n]
      /\ \A n \in DOMAIN Sysvars : n \in DOMAIN keys /\ keys[n] = Sysvars[n]
  BY <1>1, <1>4, SysvarsAdded, Zenon
<1>6. DOMAIN keys = {"payer", "authority", "newAuthority", "stakePool", "stakeMint",
                     "destination", "metadataAccount", "metadataProgram",
                     "tokenProgram", "rent", "systemProgram"}
  BY <1>2, <1>5
<1>7. /\ keys["authority"] = Wallet(caller) /\ keys["newAuthority"] = Wallet(new_authority)
      /\ keys["stakePool"] = stake_pool /\ keys["stakeMint"] = StakeMintKey(stake_pool)
      /\ keys["metadataAccount"] = MetadataKey(StakeMintKey(stake_pool))
      /\ keys["metadataProgram"] = <<"metadata">>
  BY <1>2, <1>3, <1>5
<1> QED BY <1>5, <1>6, <1>7 DEF keys

AdminNames(name) ==
    CASE name = "setFlags" -> FlagsNames
      [] name = "dangerouslyMintStakeMint" -> MintNames
      [] name = "transferAuthority" -> TransferNames
      [] name = "updateTokenMeta" -> MetaNames

\* The accounts of an instruction the program offers, each of which AdminKeys names.
LEMMA AdminAccountsNamed ==
    ASSUME NEW name \in {"setFlags", "dangerouslyMintStakeMint", "transferAuthority",
                         "updateTokenMeta"},
           Offered(name)
    PROVE  /\ Named(Accounts(name), AdminNames(name))
           /\ Len(AdminNames(name)) \in Nat
           /\ \A i \in 1..Len(AdminNames(name)) :
                  AdminNames(name)[i] \in {"payer", "authority", "newAuthority", "stakePool",
                                           "stakeMint", "destination", "metadataAccount",
                                           "metadataProgram", "tokenProgram", "rent",
                                           "systemProgram"}
           /\ \E i \in 1..Len(AdminNames(name)) : AdminNames(name)[i] = "stakePool"
           /\ \E i \in 1..Len(AdminNames(name)) : AdminNames(name)[i] = "authority"
           /\ name = "transferAuthority" =>
                  \E i \in 1..Len(AdminNames(name)) : AdminNames(name)[i] = "newAuthority"
           /\ name \in {"dangerouslyMintStakeMint", "updateTokenMeta"} =>
                  \E i \in 1..Len(AdminNames(name)) : AdminNames(name)[i] = "stakeMint"
           /\ name = "updateTokenMeta" =>
                  /\ \E i \in 1..Len(AdminNames(name)) : AdminNames(name)[i] = "metadataAccount"
                  /\ \E i \in 1..Len(AdminNames(name)) : AdminNames(name)[i] = "metadataProgram"
<1>1. name # "updateTokenMeta" => version # "v0"
  BY DEF Offered, Own, V0!instructions
<1>2. CASE name = "setFlags"
  <2>1. AdminNames(name) = FlagsNames
    BY <1>2, Zenon DEF AdminNames
  <2>2. Named(Accounts(name), FlagsNames)
    BY <1>1, <1>2, AuthorityAccountsNamed
  <2>3. Len(FlagsNames) = 2 /\ FlagsNames[1] = "authority" /\ FlagsNames[2] = "stakePool"
    BY DEF FlagsNames
  <2> QED BY <1>2, <2>1, <2>2, <2>3
<1>3. CASE name = "transferAuthority"
  <2>1. AdminNames(name) = TransferNames
    BY <1>3, Zenon DEF AdminNames
  <2>2. Named(Accounts(name), TransferNames)
    BY <1>1, <1>3, AuthorityAccountsNamed
  <2>3. /\ Len(TransferNames) = 3 /\ TransferNames[1] = "authority"
        /\ TransferNames[2] = "newAuthority" /\ TransferNames[3] = "stakePool"
    BY DEF TransferNames
  <2> QED BY <1>3, <2>1, <2>2, <2>3
<1>4. CASE name = "dangerouslyMintStakeMint"
  <2>1. AdminNames(name) = MintNames
    BY <1>4, Zenon DEF AdminNames
  <2>2. Named(Accounts(name), MintNames)
    BY <1>1, <1>4, AuthorityAccountsNamed
  <2>3. /\ Len(MintNames) = 6 /\ MintNames[1] = "payer" /\ MintNames[2] = "authority"
        /\ MintNames[3] = "stakeMint" /\ MintNames[4] = "destination"
        /\ MintNames[5] = "stakePool" /\ MintNames[6] = "tokenProgram"
    BY DEF MintNames
  <2> QED BY <1>4, <2>1, <2>2, <2>3
<1>5. CASE name = "updateTokenMeta"
  <2>1. AdminNames(name) = MetaNames
    BY <1>5, Zenon DEF AdminNames
  <2>2. Named(Accounts(name), MetaNames)
    BY <1>5, AuthorityAccountsNamed
  <2>3. /\ Len(MetaNames) = 7 /\ MetaNames[1] = "authority" /\ MetaNames[2] = "metadataAccount"
        /\ MetaNames[3] = "stakePool" /\ MetaNames[4] = "stakeMint"
        /\ MetaNames[5] = "metadataProgram" /\ MetaNames[6] = "rent"
        /\ MetaNames[7] = "systemProgram"
    BY DEF MetaNames
  <2> QED BY <1>5, <2>1, <2>2, <2>3
<1> QED BY <1>2, <1>3, <1>4, <1>5

\* Of the accounts of update_token_meta only the metadata account is written.
LEMMA OnlyMetadataIsMut ==
    ASSUME NEW i \in DOMAIN Accounts("updateTokenMeta"), Accounts("updateTokenMeta")[i].isMut
    PROVE  Accounts("updateTokenMeta")[i].name = "metadataAccount"
<1>1. \A j \in DOMAIN Current!updateTokenMeta.accounts :
          Current!updateTokenMeta.accounts[j].isMut =>
              Current!updateTokenMeta.accounts[j].name = "metadataAccount"
  BY DEF Current!updateTokenMeta, Current!Signer, Current!Mut, Current!Plain, Current!Listed
<1>2. \A j \in DOMAIN V0!Current!updateTokenMeta.accounts :
          V0!Current!updateTokenMeta.accounts[j].isMut =>
              V0!Current!updateTokenMeta.accounts[j].name = "metadataAccount"
  BY DEF V0!Current!updateTokenMeta, V0!Current!Signer, V0!Current!Mut, V0!Current!Plain,
         V0!Current!Listed
<1>3. CASE version = "v0"
  <2>1. Accounts("updateTokenMeta") = V0!Current!updateTokenMeta.accounts
    BY <1>3 DEF Accounts, Own, V0!instructions, V0!updateTokenMeta
  <2> QED BY <1>2, <2>1
<1>4. CASE version # "v0"
  <2>1. Own.instructions = Current!instructions
    BY <1>4, InterfacesAgree DEF Published
  <2>2. Accounts("updateTokenMeta") = Current!updateTokenMeta.accounts
    BY <2>1 DEF Accounts, Current!instructions
  <2> QED BY <1>1, <2>2
<1> QED BY <1>3, <1>4

\* Its payer is writable only if it pays the fee.
LEMMA PayerWritableWhen ==
    ASSUME NEW caller, NEW new_authority, NEW metas, NEW feePayer, metadata \in BOOLEAN,
           metas = Build("updateTokenMeta", AdminKeys(caller, new_authority)),
           Begins(metas, Accounts("updateTokenMeta"), AdminKeys(caller, new_authority)),
           KeyOf(Accounts("updateTokenMeta"), metas, "authority") = Wallet(caller)
    PROVE  PayerWritable(metas, feePayer) <=> metadata \/ feePayer = Wallet(caller)
<1> DEFINE accounts == Accounts("updateTokenMeta")
           keys == AdminKeys(caller, new_authority)
<1>1. metas = Metas(accounts, keys)
  BY InterfacesAgree DEF Build, Accounts
<1>2. ASSUME NEW m \in ToSet(metas), m.isWritable PROVE m.pubkey # Wallet(caller)
  <2>1. DOMAIN metas = DOMAIN accounts
    BY <1>1 DEF Metas
  <2>2. PICK i \in DOMAIN accounts : metas[i] = m
    BY <2>1 DEF ToSet
  <2>3. /\ accounts[i].name \in DOMAIN keys =>
               m = Meta(keys[accounts[i].name], accounts[i].isMut, accounts[i].isSigner)
        /\ accounts[i].name \notin DOMAIN keys => m = Meta(ProgramId, FALSE, FALSE)
    BY <1>1, <2>2 DEF Metas
  <2> HIDE DEF keys, accounts
  <2>4. /\ accounts[i].name \in DOMAIN keys /\ accounts[i].isMut
        /\ m.pubkey = keys[accounts[i].name]
    BY <1>2, <2>3 DEF Meta
  <2>5. accounts[i].name = "metadataAccount"
    BY <2>4, OnlyMetadataIsMut DEF accounts
  <2>6. keys["metadataAccount"] = MetadataKey(StakeMintKey(stake_pool))
    BY AdminKeysNamed, Zenon DEF keys
  <2> QED BY <2>4, <2>5, <2>6, WalletsDiffer
<1>3. Wallet(caller) \in Writable(metas, feePayer) <=> feePayer = Wallet(caller)
  BY <1>2 DEF Writable
<1>4. PayerWritable(metas, feePayer) <=> metadata \/ Wallet(caller) \in Writable(metas, feePayer)
  BY Zenon DEF PayerWritable
<1> QED BY <1>3, <1>4

\* The authority's other instructions succeed if the caller is the authority and,
\* where an account must be paid for, pays the fee.
LEMMA AdminAcceptedWhen ==
    ASSUME PoolSigns, metadata \in BOOLEAN, NEW caller, NEW new_authority, NEW feePayer,
           NEW name \in {"setFlags", "dangerouslyMintStakeMint", "transferAuthority",
                         "updateTokenMeta"},
           Offered(name)
    PROVE  LET metas == Build(name, AdminKeys(caller, new_authority))
           IN  /\ AdminAccepted(name, metas, feePayer)
                      <=> /\ caller = authority
                          /\ metadata \/ feePayer = Wallet(caller) \/ name # "updateTokenMeta"
               /\ name = "transferAuthority" =>
                      KeyOf(Accounts(name), metas, "newAuthority") = Wallet(new_authority)
<1> DEFINE keys == AdminKeys(caller, new_authority)
           metas == Build(name, keys)
           names == AdminNames(name)
           key(n) == KeyOf(Accounts(name), metas, n)
<1>1. /\ \A n \in DOMAIN Sysvars : n \in DOMAIN keys /\ keys[n] = Sysvars[n]
      /\ DOMAIN keys = {"payer", "authority", "newAuthority", "stakePool", "stakeMint",
                        "destination", "metadataAccount", "metadataProgram",
                        "tokenProgram", "rent", "systemProgram"}
      /\ keys["authority"] = Wallet(caller)
      /\ keys["newAuthority"] = Wallet(new_authority)
      /\ keys["stakePool"] = stake_pool
      /\ keys["stakeMint"] = StakeMintKey(stake_pool)
      /\ keys["metadataAccount"] = MetadataKey(StakeMintKey(stake_pool))
      /\ keys["metadataProgram"] = <<"metadata">>
  BY AdminKeysNamed, Zenon
<1>2. /\ Named(Accounts(name), names) /\ Len(names) \in Nat
      /\ \A i \in 1..Len(names) : names[i] \in DOMAIN keys
      /\ \E i \in 1..Len(names) : names[i] = "stakePool"
      /\ \E i \in 1..Len(names) : names[i] = "authority"
      /\ name = "transferAuthority" => \E i \in 1..Len(names) : names[i] = "newAuthority"
      /\ name \in {"dangerouslyMintStakeMint", "updateTokenMeta"} =>
             \E i \in 1..Len(names) : names[i] = "stakeMint"
      /\ name = "updateTokenMeta" => /\ \E i \in 1..Len(names) : names[i] = "metadataAccount"
                                     /\ \E i \in 1..Len(names) : names[i] = "metadataProgram"
  <2> HIDE DEF keys
  <2> QED BY <1>1, AdminAccountsNamed
<1> HIDE DEF keys, names
<1>3. CanBuildIx(name, keys)
  <2>1. CanBuild(Accounts(name), keys)
    BY <1>2, NamedCanBuild
  <2> QED BY <2>1, InterfacesAgree DEF CanBuildIx, Accounts
<1>4. Begins(metas, Accounts(name), keys)
  <2>1. Len(Accounts(name)) \in Nat /\ DOMAIN Accounts(name) = 1..Len(Accounts(name))
    BY <1>2 DEF Named
  <2>2. <<>> \in Seq({})
    OBVIOUS
  <2> QED BY <2>1, <2>2, InstructionBegins
<1> HIDE DEF metas
<1>5. \A i \in 1..Len(names) : key(names[i]) = keys[names[i]]
  <2>1. \A i \in 1..Len(names) :
            key(names[i]) = IF names[i] \in DOMAIN keys THEN keys[names[i]] ELSE ProgramId
    BY <1>1, <1>2, <1>3, <1>4, InstructionArrives
  <2> HIDE DEF key
  <2> QED BY <1>2, <2>1
<1>6. AuthorityAccepted(name, metas, feePayer) <=> caller = authority
  <2>1. PICK i \in 1..Len(names) : names[i] = "stakePool"
    BY <1>2
  <2>2. PICK j \in 1..Len(names) : names[j] = "authority"
    BY <1>2
  <2>3. "stakePool" \in DOMAIN keys /\ "authority" \in DOMAIN keys
    BY <1>1
  <2>4. AuthorityAccepted(name, metas, feePayer)
            <=> keys["stakePool"] = stake_pool /\ keys["authority"] = Wallet(authority)
    BY <1>1, <1>2, <1>3, <1>4, <2>1, <2>2, <2>3, AuthorityAcceptedWhen
  <2> QED BY <1>1, <2>4, WalletsDiffer
<1>7. name = "transferAuthority" => key("newAuthority") = Wallet(new_authority)
  <2> HIDE DEF key
  <2> QED BY <1>1, <1>2, <1>5
<1>8. CASE name \in {"setFlags", "transferAuthority"}
  <2>1. AdminAccepted(name, metas, feePayer) <=> AuthorityAccepted(name, metas, feePayer)
    BY <1>8 DEF AdminAccepted
  <2> QED BY <1>6, <1>7, <1>8, <2>1 DEF metas, keys
<1>9. CASE name = "dangerouslyMintStakeMint"
  <2>1. AdminAccepted(name, metas, feePayer) <=> MintAccepted(metas, feePayer)
    BY <1>9 DEF AdminAccepted
  <2>2. key("stakeMint") = StakeMintKey(stake_pool)
    <3> HIDE DEF key
    <3> QED BY <1>1, <1>2, <1>5, <1>9
  <2>3. MintAccepted(metas, feePayer) <=> AuthorityAccepted(name, metas, feePayer)
    BY <1>9, <2>2, Zenon DEF MintAccepted
  <2> QED BY <1>6, <1>7, <1>9, <2>1, <2>3 DEF metas, keys
<1>10. CASE name = "updateTokenMeta"
  <2>1. AdminAccepted(name, metas, feePayer) <=> MetaAccepted(metas, feePayer)
    BY <1>10 DEF AdminAccepted
  <2>2. /\ key("stakeMint") = StakeMintKey(stake_pool)
        /\ key("metadataProgram") = <<"metadata">>
        /\ key("metadataAccount") = MetadataKey(StakeMintKey(stake_pool))
        /\ key("authority") = Wallet(caller)
    <3> HIDE DEF key
    <3>1. \A n : (\E i \in 1..Len(names) : names[i] = n) => key(n) = keys[n]
      BY <1>5
    <3>2. /\ key("stakeMint") = keys["stakeMint"]
          /\ key("metadataProgram") = keys["metadataProgram"]
          /\ key("metadataAccount") = keys["metadataAccount"]
          /\ key("authority") = keys["authority"]
      BY <1>2, <1>10, <3>1
    <3> QED BY <1>1, <3>2, Zenon
  <2>3. PayerWritable(metas, feePayer) <=> metadata \/ feePayer = Wallet(caller)
    BY <1>4, <1>10, <2>2, PayerWritableWhen DEF metas, keys
  <2>4. MetaAccepted(metas, feePayer)
            <=> AuthorityAccepted(name, metas, feePayer) /\ PayerWritable(metas, feePayer)
    BY <1>10, <2>2, Zenon DEF MetaAccepted
  <2> QED BY <1>6, <1>7, <1>10, <2>1, <2>3, <2>4 DEF metas, keys
<1> QED BY <1>8, <1>9, <1>10

LEMMA AdminCallWhen ==
    ASSUME PoolSigns, metadata \in BOOLEAN, NEW caller, NEW new_authority, NEW feePayer,
           NEW name \in {"setFlags", "dangerouslyMintStakeMint", "transferAuthority",
                         "updateTokenMeta"},
           AdminCall(name, caller, new_authority, feePayer)
    PROVE  LET writable == metadata \/ feePayer = Wallet(caller) \/ name # "updateTokenMeta"
               accepted == caller = authority /\ writable
           IN  /\ admin' = [NoCall EXCEPT !.op = name,
                                          !.by_authority = caller = authority,
                                          !.writable = writable,
                                          !.result = IF accepted THEN "accepted" ELSE "rejected"]
               /\ authority' = IF accepted /\ name = "transferAuthority" THEN new_authority
                               ELSE authority
               /\ metadata' \in BOOLEAN
<1> DEFINE metas == Build(name, AdminKeys(caller, new_authority))
           accepted == AdminAccepted(name, metas, feePayer)
           writable == metadata \/ feePayer = Wallet(caller) \/ name # "updateTokenMeta"
<1>1. /\ Offered(name)
      /\ admin' = [NoCall EXCEPT !.op = name,
                                 !.by_authority = caller = authority,
                                 !.writable = writable,
                                 !.result = IF accepted THEN "accepted" ELSE "rejected"]
      /\ authority' = IF accepted /\ name = "transferAuthority"
                      THEN KeyOf(Accounts(name), metas, "newAuthority")[2] ELSE authority
      /\ metadata' = (metadata \/ (accepted /\ name = "updateTokenMeta"))
  BY Zenon DEF AdminCall
<1>2. /\ accepted <=> caller = authority /\ writable
      /\ name = "transferAuthority" =>
             KeyOf(Accounts(name), metas, "newAuthority") = Wallet(new_authority)
  BY <1>1, AdminAcceptedWhen
<1>3. Wallet(new_authority)[2] = new_authority
  BY DEF Wallet
<1>4. authority' = IF accepted /\ name = "transferAuthority" THEN new_authority ELSE authority
  BY <1>1, <1>2, <1>3, Zenon
<1>5. metadata' \in BOOLEAN
  BY <1>1
<1> HIDE DEF accepted, writable
<1> QED BY <1>1, <1>2, <1>4, <1>5, Zenon DEF writable

-----------------------------------------------------------------------------
\* The accounts a deposit and a claim send along, of a pool at a given address.
VaultsSent(pool, seen) ==
    [k \in 1..Len(UsedVaults(seen)) |->
        Meta(RewardVaultKey(pool, UsedVaults(seen)[k]), FALSE, FALSE)]

PayoutsSent(pool, seen, mints, owner) ==
    FlattenSeq([i \in Slots |->
        IF seen[i] = NoKey \/ mints[i] = NoKey THEN <<>>
        ELSE <<Meta(RewardVaultKey(pool, seen[i]), TRUE, FALSE),
               Meta(TokenAccount(owner, mints[i]), TRUE, FALSE)>>])

\* A transaction knows slots that have kept their vaults, and carries the accounts
\* chosen for them; its outcome is known only when it is over.
Transaction(c, r, pool, slots) ==
    /\ r = [op |-> r.op, seen |-> r.seen, mints |-> r.mints, accounts |-> r.accounts,
            sent |-> r.sent]
    /\ r.op \in {"idle", "read", "deposit", "claim"}
    /\ r.seen \in [Slots -> Mints \cup {NoKey}]
    /\ r.mints \in [Slots -> Mints \cup {NoKey}]
    /\ r.sent \in {"none", "accepted", "rejected"}
    /\ r.op # "idle" => pool # NoAddress /\ r.sent = "none" /\ Kept(r.seen, slots)
    /\ r.op = "deposit" => r.accounts = VaultsSent(pool, r.seen)
    /\ r.op = "claim" => /\ \A i \in Slots : r.mints[i] \in {r.seen[i], NoKey}
                         /\ r.accounts = PayoutsSent(pool, r.seen, r.mints, Wallet(c))

\* The inductive invariant: every transaction under way, and the pool signs for its
\* own address.
ClientInvariant ==
    /\ version \in {"current", "v0"}
    /\ stake_pool \in {StakePoolKey(k) : k \in Keys} \cup {NoAddress}
    /\ creator \in Keys \cup {NoKey} /\ authority \in Keys \cup {NoKey}
    /\ stake_pool # NoAddress => PoolSigns
    /\ reward_vaults \in [Slots -> Mints \cup {NoKey}]
    /\ Distinct(reward_vaults)
    /\ staked \in BOOLEAN /\ metadata \in BOOLEAN
    /\ DOMAIN call = Clients /\ call = [c \in Clients |-> call[c]]
    /\ \A c \in Clients : Transaction(c, call[c], stake_pool, reward_vaults)
    /\ admin.result \in {"none", "accepted", "rejected"}
    /\ AuthorityIsObeyed

LEMMA InvariantImpliesTypeOK ==
    ASSUME ClientInvariant
    PROVE  TypeOK
<1>1. \A i, j \in Slots :
          reward_vaults[i] = reward_vaults[j] => i = j \/ reward_vaults[i] = NoKey
  BY DEF ClientInvariant, Distinct
<1>2. \A c \in Clients :
          /\ call[c].op \in {"idle", "read", "deposit", "claim"}
          /\ call[c].seen \in [Slots -> Mints \cup {NoKey}]
          /\ call[c].mints \in [Slots -> Mints \cup {NoKey}]
          /\ call[c].sent \in {"none", "accepted", "rejected"}
  BY Zenon DEF ClientInvariant, Transaction
<1>3. /\ version \in {"current", "v0"}
      /\ stake_pool \in {StakePoolKey(k) : k \in Keys} \cup {NoAddress}
      /\ creator \in Keys \cup {NoKey} /\ authority \in Keys \cup {NoKey}
      /\ reward_vaults \in [Slots -> Mints \cup {NoKey}]
      /\ staked \in BOOLEAN /\ metadata \in BOOLEAN
      /\ admin.result \in {"none", "accepted", "rejected"}
  BY Zenon DEF ClientInvariant
<1> QED BY <1>1, <1>2, <1>3, Zenon DEF TypeOK

\* A client that is not building anything, whatever became of its last transaction.
LEMMA IdleTransaction ==
    ASSUME NEW c, NEW pool, NEW slots, NEW sent \in {"none", "accepted", "rejected"}
    PROVE  Transaction(c, [Idle EXCEPT !.sent = sent], pool, slots)
<1> DEFINE r == [Idle EXCEPT !.sent = sent]
<1>1. r = [op |-> "idle", seen |-> NoPools, mints |-> NoPools, accounts |-> <<>>, sent |-> sent]
  BY DEF Idle
<1>2. NoPools \in [Slots -> Mints \cup {NoKey}]
  BY DEF NoPools
<1> HIDE DEF r
<1>3. /\ r.op = "idle" /\ r.seen = NoPools /\ r.mints = NoPools /\ r.accounts = <<>>
      /\ r.sent = sent
  BY <1>1
<1>4. r = [op |-> r.op, seen |-> r.seen, mints |-> r.mints, accounts |-> r.accounts,
           sent |-> r.sent]
  BY <1>1, <1>3
<1>5. r.op # "deposit" /\ r.op # "claim"
  BY <1>3
<1>6. Transaction(c, r, pool, slots)
  BY <1>2, <1>3, <1>4, <1>5, Zenon DEF Transaction
<1> QED BY <1>6 DEF r

LEMMA IdleIsTransaction ==
    ASSUME NEW c, NEW pool, NEW slots
    PROVE  Transaction(c, Idle, pool, slots)
<1>1. Idle = [Idle EXCEPT !.sent = "none"]
  BY DEF Idle
<1> QED BY <1>1, IdleTransaction

\* A client's step puts another transaction in the place of its own and leaves the
\* pool alone.
LEMMA ClientStep ==
    ASSUME ClientInvariant, UNCHANGED <<poolVars, reward_vaults, metadata, admin>>,
           staked' \in BOOLEAN, NEW c \in Clients, NEW r, call' = [call EXCEPT ![c] = r],
           Transaction(c, r, stake_pool, reward_vaults)
    PROVE  ClientInvariant'
<1>1. /\ version' = version /\ stake_pool' = stake_pool /\ creator' = creator
      /\ authority' = authority /\ reward_vaults' = reward_vaults /\ metadata' = metadata
      /\ admin' = admin
  BY DEF poolVars
<1>2. call = [d \in Clients |-> call[d]] /\ DOMAIN call = Clients
  BY DEF ClientInvariant
<1>3. call'[c] = r /\ \A d \in Clients : d # c => call'[d] = call[d]
  BY <1>2
<1>4. DOMAIN call' = Clients /\ call' = [d \in Clients |-> call'[d]]
  BY <1>2
<1>5. \A d \in Clients : Transaction(d, call'[d], stake_pool', reward_vaults')
  <2> SUFFICES ASSUME NEW d \in Clients
               PROVE  Transaction(d, call'[d], stake_pool', reward_vaults')
    OBVIOUS
  <2>1. CASE d = c
    BY <1>1, <1>3, <2>1, Zenon
  <2>2. CASE d # c
    <3>1. Transaction(d, call[d], stake_pool, reward_vaults)
      BY Zenon DEF ClientInvariant
    <3> QED BY <1>1, <1>3, <2>2, <3>1, Zenon
  <2> QED BY <2>1, <2>2
<1>6. /\ version' \in {"current", "v0"}
      /\ stake_pool' \in {StakePoolKey(k) : k \in Keys} \cup {NoAddress}
      /\ creator' \in Keys \cup {NoKey} /\ authority' \in Keys \cup {NoKey}
      /\ stake_pool' # NoAddress => StakePoolKey(creator') = stake_pool'
      /\ reward_vaults' \in [Slots -> Mints \cup {NoKey}]
      /\ Distinct(reward_vaults')
      /\ staked' \in BOOLEAN /\ metadata' \in BOOLEAN
      /\ admin'.result \in {"none", "accepted", "rejected"}
      /\ AuthorityIsObeyed'
  BY <1>1, Zenon DEF ClientInvariant, PoolSigns, AuthorityIsObeyed
<1> QED BY <1>4, <1>5, <1>6, Zenon DEF ClientInvariant, PoolSigns

LEMMA ReadPoolStep ==
    ASSUME ClientInvariant, NEW c \in Clients, ReadPool(c)
    PROVE  ClientInvariant'
<1> DEFINE r == [Idle EXCEPT !.op = "read", !.seen = reward_vaults]
<1>1. reward_vaults \in [Slots -> Mints \cup {NoKey}] /\ DOMAIN call = Clients
  BY Zenon DEF ClientInvariant
<1>2. SeenRewardPools = reward_vaults
  BY <1>1, SeenAsStored
<1>3. /\ stake_pool # NoAddress /\ call[c] = Idle
      /\ call' = [call EXCEPT ![c].op = "read", ![c].seen = reward_vaults]
      /\ UNCHANGED <<poolVars, reward_vaults, staked, metadata, admin>>
  BY <1>2, Zenon DEF ReadPool
<1>4. call' = [call EXCEPT ![c] = r]
  BY <1>1, <1>3
<1>5. r = [op |-> "read", seen |-> reward_vaults, mints |-> NoPools, accounts |-> <<>>,
           sent |-> "none"]
  <2>1. /\ Idle = [op |-> Idle.op, seen |-> Idle.seen, mints |-> Idle.mints,
                   accounts |-> Idle.accounts, sent |-> Idle.sent]
        /\ Idle.mints = NoPools /\ Idle.accounts = <<>> /\ Idle.sent = "none"
    BY DEF Idle
  <2>2. r = [Idle EXCEPT !.op = "read", !.seen = reward_vaults]
    OBVIOUS
  <2> HIDE DEF r
  <2>3. r = [op |-> "read", seen |-> reward_vaults, mints |-> Idle.mints,
             accounts |-> Idle.accounts, sent |-> Idle.sent]
    BY <2>1, <2>2
  <2> QED BY <2>1, <2>3, Zenon
<1> HIDE DEF r
<1>6. Transaction(c, r, stake_pool, reward_vaults)
  <2>1. NoPools \in [Slots -> Mints \cup {NoKey}] /\ Kept(reward_vaults, reward_vaults)
    BY DEF NoPools, Kept
  <2>2. /\ r.op = "read" /\ r.seen = reward_vaults /\ r.mints = NoPools /\ r.sent = "none"
        /\ r = [op |-> r.op, seen |-> r.seen, mints |-> r.mints, accounts |-> r.accounts,
                sent |-> r.sent]
    BY <1>5
  <2>3. r.op # "deposit" /\ r.op # "claim"
    BY <2>2
  <2> QED BY <1>1, <1>3, <2>1, <2>2, <2>3, Zenon DEF Transaction
<1>7. staked' \in BOOLEAN
  BY <1>3 DEF ClientInvariant
<1> QED BY <1>3, <1>4, <1>6, <1>7, ClientStep

LEMMA BuildDepositStep ==
    ASSUME ClientInvariant, NEW c \in Clients, BuildDeposit(c)
    PROVE  ClientInvariant'
<1> DEFINE s == call[c]
           sentAlong == VaultsSent(stake_pool, s.seen)
           r == [s EXCEPT !.op = "deposit", !.accounts = sentAlong]
<1>1. DOMAIN call = Clients /\ Transaction(c, s, stake_pool, reward_vaults) /\ s.op = "read"
  BY Zenon DEF ClientInvariant, BuildDeposit
<1>2. sentAlong = RewardPoolPublicKeys(s.seen)
  BY Zenon DEF VaultsSent, RewardPoolPublicKeys
<1>3. /\ call' = [call EXCEPT ![c].op = "deposit", ![c].accounts = sentAlong]
      /\ UNCHANGED <<poolVars, reward_vaults, staked, metadata, admin>>
  BY <1>2, Zenon DEF BuildDeposit
<1> HIDE DEF sentAlong
<1>4. call' = [call EXCEPT ![c] = r]
  BY <1>1, <1>3
<1>5. r = [op |-> "deposit", seen |-> s.seen, mints |-> s.mints, accounts |-> sentAlong,
           sent |-> s.sent]
  <2>1. s = [op |-> s.op, seen |-> s.seen, mints |-> s.mints, accounts |-> s.accounts,
             sent |-> s.sent]
    BY <1>1, Zenon DEF Transaction
  <2>2. r = [s EXCEPT !.op = "deposit", !.accounts = sentAlong]
    OBVIOUS
  <2> HIDE DEF r, s
  <2> QED BY <2>1, <2>2
<1> HIDE DEF r
<1>6. Transaction(c, r, stake_pool, reward_vaults)
  <2> HIDE DEF s
  <2>1. /\ r.op = "deposit" /\ r.seen = s.seen /\ r.mints = s.mints /\ r.sent = s.sent
        /\ r.accounts = VaultsSent(stake_pool, s.seen)
        /\ r = [op |-> r.op, seen |-> r.seen, mints |-> r.mints, accounts |-> r.accounts,
                sent |-> r.sent]
    BY <1>5 DEF sentAlong
  <2>2. r.op # "claim" /\ s.op # "idle"
    BY <1>1, <2>1
  <2> QED BY <1>1, <2>1, <2>2, Zenon DEF Transaction
<1>7. staked' \in BOOLEAN
  BY <1>3 DEF ClientInvariant
<1> QED BY <1>3, <1>4, <1>6, <1>7, ClientStep

LEMMA BuildClaimStep ==
    ASSUME ClientInvariant, NEW c \in Clients, NEW mints \in [Slots -> Mints \cup {NoKey}],
           BuildClaim(c, mints)
    PROVE  ClientInvariant'
<1> DEFINE s == call[c]
           sentAlong == PayoutsSent(stake_pool, s.seen, mints, Wallet(c))
           r == [s EXCEPT !.op = "claim", !.mints = mints, !.accounts = sentAlong]
<1>1. /\ DOMAIN call = Clients /\ Transaction(c, s, stake_pool, reward_vaults) /\ s.op = "read"
      /\ \A i \in Slots : mints[i] \in {s.seen[i], NoKey}
  BY Zenon DEF ClientInvariant, BuildClaim
<1>2. sentAlong = RemainingAccounts(s.seen, mints, Wallet(c))
  BY Zenon DEF PayoutsSent, RemainingAccounts
<1>3. /\ call' = [call EXCEPT ![c].op = "claim", ![c].mints = mints, ![c].accounts = sentAlong]
      /\ UNCHANGED <<poolVars, reward_vaults, staked, metadata, admin>>
  BY <1>2, Zenon DEF BuildClaim
<1> HIDE DEF sentAlong
<1>4. call' = [call EXCEPT ![c] = r]
  BY <1>1, <1>3
<1>5. r = [op |-> "claim", seen |-> s.seen, mints |-> mints, accounts |-> sentAlong,
           sent |-> s.sent]
  <2>1. s = [op |-> s.op, seen |-> s.seen, mints |-> s.mints, accounts |-> s.accounts,
             sent |-> s.sent]
    BY <1>1, Zenon DEF Transaction
  <2>2. r = [s EXCEPT !.op = "claim", !.mints = mints, !.accounts = sentAlong]
    OBVIOUS
  <2> HIDE DEF r, s
  <2> QED BY <2>1, <2>2
<1> HIDE DEF r
<1>6. Transaction(c, r, stake_pool, reward_vaults)
  <2> HIDE DEF s
  <2>1. /\ r.op = "claim" /\ r.seen = s.seen /\ r.mints = mints /\ r.sent = s.sent
        /\ r.accounts = PayoutsSent(stake_pool, s.seen, mints, Wallet(c))
        /\ r = [op |-> r.op, seen |-> r.seen, mints |-> r.mints, accounts |-> r.accounts,
                sent |-> r.sent]
    BY <1>5 DEF sentAlong
  <2>2. r.op # "deposit" /\ s.op # "idle"
    BY <1>1, <2>1
  <2> QED BY <1>1, <2>1, <2>2, Zenon DEF Transaction
<1>7. staked' \in BOOLEAN
  BY <1>3 DEF ClientInvariant
<1> QED BY <1>3, <1>4, <1>6, <1>7, ClientStep

LEMMA SubmitDepositStep ==
    ASSUME ClientInvariant, NEW c \in Clients, NEW feePayer, SubmitDeposit(c, feePayer)
    PROVE  ClientInvariant'
<1> DEFINE sent == IF DepositAccepted(Build("deposit", DepositKeys(c)) \o call[c].accounts, feePayer)
                   THEN "accepted" ELSE "rejected"
           r == [Idle EXCEPT !.sent = sent]
<1>1. /\ call' = [call EXCEPT ![c] = r]
      /\ UNCHANGED <<poolVars, reward_vaults, metadata, admin>>
      /\ staked' \in {staked, TRUE}
  BY DEF SubmitDeposit
<1>2. sent \in {"none", "accepted", "rejected"}
  OBVIOUS
<1> HIDE DEF sent
<1>3. Transaction(c, r, stake_pool, reward_vaults)
  BY <1>2, IdleTransaction
<1>4. staked' \in BOOLEAN
  BY <1>1 DEF ClientInvariant
<1> HIDE DEF r
<1> QED BY <1>1, <1>3, <1>4, ClientStep

LEMMA SubmitClaimStep ==
    ASSUME ClientInvariant, NEW c \in Clients, NEW name, NEW keys, NEW feePayer,
           SubmitClaim(c, name, keys, feePayer)
    PROVE  ClientInvariant'
<1> DEFINE sent == IF ClaimAccepted(name, Build(name, keys) \o call[c].accounts, feePayer)
                   THEN "accepted" ELSE "rejected"
           r == [Idle EXCEPT !.sent = sent]
<1>1. /\ call' = [call EXCEPT ![c] = r]
      /\ UNCHANGED <<poolVars, reward_vaults, metadata, admin>>
      /\ staked' \in {staked, FALSE}
  BY DEF SubmitClaim
<1>2. sent \in {"none", "accepted", "rejected"}
  OBVIOUS
<1> HIDE DEF sent
<1>3. Transaction(c, r, stake_pool, reward_vaults)
  BY <1>2, IdleTransaction
<1>4. staked' \in BOOLEAN
  BY <1>1 DEF ClientInvariant
<1> HIDE DEF r
<1> QED BY <1>1, <1>3, <1>4, ClientStep

LEMMA ReturnStep ==
    ASSUME ClientInvariant, NEW c \in Clients, Return(c)
    PROVE  ClientInvariant'
<1>1. /\ call' = [call EXCEPT ![c] = Idle]
      /\ UNCHANGED <<poolVars, reward_vaults, metadata, admin>> /\ staked' = staked
  BY DEF Return
<1>2. Transaction(c, Idle, stake_pool, reward_vaults)
  BY IdleIsTransaction
<1>3. staked' \in BOOLEAN
  BY <1>1 DEF ClientInvariant
<1> QED BY <1>1, <1>2, <1>3, ClientStep

\* The pool is where its creator's key leads, and the creator has the authority.
LEMMA SdkInitStakePoolWhen ==
    ASSUME NEW caller, NEW auth, SdkInitStakePool(caller, auth)
    PROVE  stake_pool' = StakePoolKey(auth) /\ creator' = auth /\ authority' = auth
<1> DEFINE name == "initializeStakePool"
           pool == StakePoolKey(auth)
           K == [payer |-> Wallet(caller), authority |-> Wallet(auth),
                 stakePool |-> pool, stakeMint |-> StakeMintKey(pool),
                 mint |-> <<"mint">>, vault |-> VaultKey(pool)]
           keys == AndSysvars(K)
           metas == Build(name, keys)
           key(n) == KeyOf(Accounts(name), metas, n)
<1>1. /\ stake_pool' = key("stakePool") /\ creator' = key("authority")[2]
      /\ authority' = key("authority")[2]
  BY Zenon DEF SdkInitStakePool
<1>2. /\ "stakePool" \in DOMAIN keys /\ "authority" \in DOMAIN keys
      /\ keys["stakePool"] = pool /\ keys["authority"] = Wallet(auth)
  <2>1. DOMAIN K = {"payer", "authority", "stakePool", "stakeMint", "mint", "vault"}
    OBVIOUS
  <2>2. K["authority"] = Wallet(auth) /\ K["stakePool"] = pool
    OBVIOUS
  <2> HIDE DEF K
  <2>3. DOMAIN K \cap {"tokenProgram", "rent", "systemProgram"} = {}
    BY <2>1
  <2>4. /\ DOMAIN keys = DOMAIN K \cup {"tokenProgram", "rent", "systemProgram"}
        /\ \A n \in DOMAIN K : keys[n] = K[n]
    BY <2>3, SysvarsAdded, Zenon
  <2> HIDE DEF keys
  <2> QED BY <2>1, <2>2, <2>4
<1> HIDE DEF K, keys
<1>3. Named(Accounts(name), InitializeNames)
  BY AuthorityAccountsNamed
<1>4. Len(InitializeNames) = 9 /\ InitializeNames[2] = "authority" /\ InitializeNames[4] = "stakePool"
  BY DEF InitializeNames
<1>5. Begins(metas, Accounts(name), keys)
  <2>1. Len(Accounts(name)) \in Nat /\ DOMAIN Accounts(name) = 1..Len(Accounts(name))
    BY <1>3, <1>4 DEF Named
  <2>2. <<>> \in Seq({})
    OBVIOUS
  <2> QED BY <2>1, <2>2, InstructionBegins
<1> HIDE DEF metas
<1>6. /\ \E i \in DOMAIN Accounts(name) : Accounts(name)[i].name = "stakePool"
      /\ \E i \in DOMAIN Accounts(name) : Accounts(name)[i].name = "authority"
  <2>1. 2 \in DOMAIN Accounts(name) /\ 4 \in DOMAIN Accounts(name)
    BY <1>3, <1>4 DEF Named
  <2>2. Accounts(name)[2].name = "authority" /\ Accounts(name)[4].name = "stakePool"
    BY <1>3, <1>4 DEF Named
  <2> QED BY <2>1, <2>2
<1>7. key("stakePool") = pool /\ key("authority") = Wallet(auth)
  BY <1>2, <1>5, <1>6, BuiltKeyOf
<1>8. Wallet(auth)[2] = auth
  BY DEF Wallet
<1> HIDE DEF key
<1> QED BY <1>1, <1>7, <1>8, Zenon

LEMMA SdkInitStakePoolStep ==
    ASSUME ClientInvariant, NEW caller \in Keys, NEW auth \in Keys, SdkInitStakePool(caller, auth)
    PROVE  ClientInvariant'
<1>1. stake_pool' = StakePoolKey(auth) /\ creator' = auth /\ authority' = auth
  BY SdkInitStakePoolWhen
<1>2. /\ stake_pool = NoAddress
      /\ version' = version /\ reward_vaults' = reward_vaults /\ staked' = staked
      /\ metadata' = metadata /\ call' = call /\ admin' = admin
  BY DEF SdkInitStakePool
<1>3. ASSUME NEW c \in Clients
      PROVE  Transaction(c, call'[c], stake_pool', reward_vaults')
  <2>1. Transaction(c, call[c], stake_pool, reward_vaults)
    BY Zenon DEF ClientInvariant
  <2> DEFINE r == call[c]
  <2> HIDE DEF r
  <2>2. Transaction(c, r, stake_pool, reward_vaults)
    BY <2>1 DEF r
  <2>3. r.op = "idle"
    BY <1>2, <2>2, Zenon DEF Transaction
  <2>4. r.op # "deposit" /\ r.op # "claim"
    BY <2>3
  <2>5. Transaction(c, r, stake_pool', reward_vaults')
    BY <2>2, <2>3, <2>4, Zenon DEF Transaction
  <2> QED BY <1>2, <2>5 DEF r
<1>4. call' = [c \in Clients |-> call'[c]] /\ DOMAIN call' = Clients
  BY <1>2 DEF ClientInvariant
<1>5. /\ version' \in {"current", "v0"}
      /\ stake_pool' \in {StakePoolKey(k) : k \in Keys} \cup {NoAddress}
      /\ creator' \in Keys \cup {NoKey} /\ authority' \in Keys \cup {NoKey}
      /\ stake_pool' # NoAddress => StakePoolKey(creator') = stake_pool'
      /\ reward_vaults' \in [Slots -> Mints \cup {NoKey}]
      /\ Distinct(reward_vaults')
      /\ staked' \in BOOLEAN /\ metadata' \in BOOLEAN
      /\ admin'.result \in {"none", "accepted", "rejected"}
      /\ AuthorityIsObeyed'
  BY <1>1, <1>2, Zenon DEF ClientInvariant, AuthorityIsObeyed
<1> QED BY <1>3, <1>4, <1>5, Zenon DEF ClientInvariant, PoolSigns

\* An instruction of an authority's has ended and the transactions under way are
\* what they were.
LEMMA AuthorityStep ==
    ASSUME ClientInvariant, UNCHANGED <<version, stake_pool, creator, staked, call>>,
           authority' \in Keys \cup {NoKey}, metadata' \in BOOLEAN,
           reward_vaults' \in [Slots -> Mints \cup {NoKey}], Distinct(reward_vaults'),
           Kept(reward_vaults, reward_vaults'),
           admin'.result \in {"none", "accepted", "rejected"}, AuthorityIsObeyed'
    PROVE  ClientInvariant'
<1>1. ASSUME NEW c \in Clients
      PROVE  Transaction(c, call'[c], stake_pool', reward_vaults')
  <2>1. Transaction(c, call[c], stake_pool, reward_vaults)
    BY Zenon DEF ClientInvariant
  <2>2. call'[c] = call[c] /\ stake_pool' = stake_pool
    OBVIOUS
  <2> DEFINE r == call[c]
  <2> HIDE DEF r
  <2>3. Transaction(c, r, stake_pool, reward_vaults)
    BY <2>1 DEF r
  <2>4. Kept(r.seen, reward_vaults) => Kept(r.seen, reward_vaults')
    BY DEF Kept
  <2>5. Transaction(c, r, stake_pool, reward_vaults')
    BY <2>3, <2>4, Zenon DEF Transaction
  <2> QED BY <2>2, <2>5 DEF r
<1>2. call' = [c \in Clients |-> call'[c]] /\ DOMAIN call' = Clients
  BY DEF ClientInvariant
<1>3. /\ version' \in {"current", "v0"}
      /\ stake_pool' \in {StakePoolKey(k) : k \in Keys} \cup {NoAddress}
      /\ creator' \in Keys \cup {NoKey}
      /\ stake_pool' # NoAddress => StakePoolKey(creator') = stake_pool'
      /\ staked' \in BOOLEAN
  BY Zenon DEF ClientInvariant, PoolSigns
<1> QED BY <1>1, <1>2, <1>3, Zenon DEF ClientInvariant, PoolSigns

LEMMA AddRewardPoolStep ==
    ASSUME ClientInvariant, NEW caller \in Keys, NEW i \in Slots, NEW mint \in Mints,
           NEW pool, AddRewardPool(caller, pool, i, mint)
    PROVE  ClientInvariant'
<1> DEFINE accepted == caller = authority /\ pool = stake_pool /\ SlotFree(i, mint)
<1>1. /\ admin'.by_authority <=> caller = authority
      /\ admin'.on_pool <=> pool = stake_pool
      /\ admin'.free <=> SlotFree(i, mint)
      /\ admin'.writable
      /\ admin'.result = IF accepted THEN "accepted" ELSE "rejected"
      /\ reward_vaults' = IF accepted THEN [reward_vaults EXCEPT ![i] = mint] ELSE reward_vaults
  BY AddRewardPoolWhen
<1>2. /\ UNCHANGED <<version, stake_pool, creator, staked, call>>
      /\ authority' = authority /\ metadata' = metadata
  BY DEF AddRewardPool, poolVars
<1>3. /\ reward_vaults \in [Slots -> Mints \cup {NoKey}] /\ Distinct(reward_vaults)
      /\ authority \in Keys \cup {NoKey} /\ metadata \in BOOLEAN
  BY Zenon DEF ClientInvariant
<1>4. SlotFree(i, mint) <=> reward_vaults[i] = NoKey /\ \A j \in Slots : reward_vaults[j] # mint
  BY DEF SlotFree
<1>5. /\ reward_vaults' \in [Slots -> Mints \cup {NoKey}]
      /\ Distinct(reward_vaults') /\ Kept(reward_vaults, reward_vaults')
  <2>1. CASE accepted
    <3>1. /\ reward_vaults' = [reward_vaults EXCEPT ![i] = mint] /\ reward_vaults[i] = NoKey
          /\ \A j \in Slots : reward_vaults[j] # mint
      BY <1>1, <1>4, <2>1
    <3>2. /\ reward_vaults'[i] = mint
          /\ \A j \in Slots : j # i => reward_vaults'[j] = reward_vaults[j]
          /\ reward_vaults' \in [Slots -> Mints \cup {NoKey}]
      BY <1>3, <3>1
    <3>3. Distinct(reward_vaults')
      BY <1>3, <3>1, <3>2 DEF Distinct
    <3>4. Kept(reward_vaults, reward_vaults')
      BY <3>1, <3>2 DEF Kept
    <3> QED BY <3>2, <3>3, <3>4
  <2>2. CASE ~ accepted
    <3>1. reward_vaults' = reward_vaults
      BY <1>1, <2>2
    <3> QED BY <1>3, <3>1 DEF Kept
  <2> QED BY <2>1, <2>2
<1>6. admin'.result \in {"none", "accepted", "rejected"}
  BY <1>1
<1> HIDE DEF accepted
<1>7. AuthorityIsObeyed'
  BY <1>1 DEF AuthorityIsObeyed, accepted
<1> QED BY <1>2, <1>3, <1>5, <1>6, <1>7, AuthorityStep

LEMMA AdminCallStep ==
    ASSUME ClientInvariant, NEW caller \in Keys, NEW new_authority \in Keys, NEW feePayer,
           NEW name \in {"setFlags", "dangerouslyMintStakeMint", "transferAuthority",
                         "updateTokenMeta"},
           AdminCall(name, caller, new_authority, feePayer)
    PROVE  ClientInvariant'
<1> DEFINE writable == metadata \/ feePayer = Wallet(caller) \/ name # "updateTokenMeta"
           accepted == caller = authority /\ writable
<1>1. /\ stake_pool # NoAddress
      /\ UNCHANGED <<version, stake_pool, creator, staked, call>>
      /\ reward_vaults' = reward_vaults
  BY DEF AdminCall
<1>2. /\ reward_vaults \in [Slots -> Mints \cup {NoKey}] /\ Distinct(reward_vaults)
      /\ authority \in Keys \cup {NoKey} /\ metadata \in BOOLEAN /\ PoolSigns
  BY <1>1, Zenon DEF ClientInvariant
<1>3. /\ admin' = [NoCall EXCEPT !.op = name,
                                 !.by_authority = caller = authority,
                                 !.writable = writable,
                                 !.result = IF accepted THEN "accepted" ELSE "rejected"]
      /\ authority' = IF accepted /\ name = "transferAuthority" THEN new_authority ELSE authority
      /\ metadata' \in BOOLEAN
  BY <1>2, AdminCallWhen
<1>4. authority' \in Keys \cup {NoKey}
  BY <1>2, <1>3
<1>5. Kept(reward_vaults, reward_vaults')
  BY <1>1 DEF Kept
<1>6. writable \in BOOLEAN
  BY <1>2
<1>7. /\ admin'.by_authority = (caller = authority) /\ admin'.on_pool = TRUE
      /\ admin'.free = TRUE /\ admin'.writable = writable
      /\ admin'.result = IF accepted THEN "accepted" ELSE "rejected"
  <2> DEFINE result == IF accepted THEN "accepted" ELSE "rejected"
  <2> HIDE DEF writable, result
  <2>1. admin' = [NoCall EXCEPT !.op = name, !.by_authority = caller = authority,
                                !.writable = writable, !.result = result]
    BY <1>3, Zenon DEF result, writable
  <2>2. /\ admin'.by_authority = (caller = authority) /\ admin'.on_pool = TRUE
        /\ admin'.free = TRUE /\ admin'.writable = writable /\ admin'.result = result
    BY <2>1 DEF NoCall
  <2> QED BY <2>2, Zenon DEF result
<1> HIDE DEF accepted, writable
<1>8. admin'.result \in {"none", "accepted", "rejected"}
  BY <1>7
<1>9. AuthorityIsObeyed'
  BY <1>6, <1>7 DEF AuthorityIsObeyed, accepted
<1> QED BY <1>1, <1>2, <1>3, <1>4, <1>5, <1>8, <1>9, AuthorityStep

LEMMA AdminReturnStep ==
    ASSUME ClientInvariant, AdminReturn
    PROVE  ClientInvariant'
<1>1. /\ admin' = NoCall /\ UNCHANGED <<version, stake_pool, creator, staked, call>>
      /\ reward_vaults' = reward_vaults /\ authority' = authority /\ metadata' = metadata
  BY DEF AdminReturn, poolVars
<1>2. /\ reward_vaults \in [Slots -> Mints \cup {NoKey}] /\ Distinct(reward_vaults)
      /\ authority \in Keys \cup {NoKey} /\ metadata \in BOOLEAN
  BY Zenon DEF ClientInvariant
<1>3. Kept(reward_vaults, reward_vaults')
  BY <1>1 DEF Kept
<1>4. admin'.result = "none"
  BY <1>1 DEF NoCall
<1>5. AuthorityIsObeyed'
  BY <1>4 DEF AuthorityIsObeyed
<1> QED BY <1>1, <1>2, <1>3, <1>4, <1>5, AuthorityStep

-----------------------------------------------------------------------------
LEMMA InitInvariant ==
    ASSUME Init
    PROVE  ClientInvariant
<1>1. /\ version \in {"current", "v0"} /\ stake_pool = NoAddress
      /\ creator = NoKey /\ authority = NoKey /\ reward_vaults = NoPools
      /\ staked = FALSE /\ metadata = FALSE /\ call = [c \in Clients |-> Idle] /\ admin = NoCall
  BY DEF Init
<1>2. reward_vaults \in [Slots -> Mints \cup {NoKey}] /\ Distinct(reward_vaults)
  BY <1>1 DEF NoPools, Distinct
<1>3. \A c \in Clients : Transaction(c, call[c], stake_pool, reward_vaults)
  BY <1>1, IdleIsTransaction
<1>4. call = [c \in Clients |-> call[c]] /\ DOMAIN call = Clients
  BY <1>1
<1>5. admin.result = "none"
  BY <1>1 DEF NoCall
<1>6. AuthorityIsObeyed
  BY <1>5 DEF AuthorityIsObeyed
<1>7. /\ stake_pool \in {StakePoolKey(k) : k \in Keys} \cup {NoAddress}
      /\ creator \in Keys \cup {NoKey} /\ authority \in Keys \cup {NoKey}
      /\ staked \in BOOLEAN /\ metadata \in BOOLEAN
      /\ admin.result \in {"none", "accepted", "rejected"}
  BY <1>1, <1>5
<1> QED BY <1>1, <1>2, <1>3, <1>4, <1>6, <1>7, Zenon DEF ClientInvariant

LEMMA StutteringStep ==
    ASSUME ClientInvariant, UNCHANGED vars
    PROVE  ClientInvariant'
<1>1. /\ version' = version /\ stake_pool' = stake_pool /\ creator' = creator
      /\ authority' = authority /\ reward_vaults' = reward_vaults /\ staked' = staked
      /\ metadata' = metadata /\ call' = call /\ admin' = admin
  BY DEF vars, poolVars
<1> QED BY <1>1, Zenon DEF ClientInvariant, PoolSigns, AuthorityIsObeyed

\* A step of the system is one of these.
LEMMA NextSteps ==
    ASSUME Next
    PROVE  \/ \E c \in Clients : ReadPool(c)
           \/ \E c \in Clients : BuildDeposit(c)
           \/ \E c \in Clients, mints \in [Slots -> Mints \cup {NoKey}] : BuildClaim(c, mints)
           \/ \E c \in Clients : \E payer \in {Wallet(c), Sponsor} : SubmitDeposit(c, payer)
           \/ \E c \in Clients, name \in {"claimAll", "withdraw"} :
                 \E keys \in {ClaimKeys(c), WithFrom(ClaimKeys(c))}, payer \in {Wallet(c), Sponsor} :
                     SubmitClaim(c, name, keys, payer)
           \/ \E c \in Clients : Return(c)
           \/ \E k, auth \in Keys : SdkInitStakePool(k, auth)
           \/ \E k \in Keys, i \in Slots, m \in Mints :
                 \E pool \in {StakePoolKey(k), stake_pool} : AddRewardPool(k, pool, i, m)
           \/ \E name \in {"setFlags", "dangerouslyMintStakeMint", "transferAuthority",
                           "updateTokenMeta"} :
                 \E k, new \in Keys : \E payer \in {Wallet(k), Sponsor} :
                     AdminCall(name, k, new, payer)
           \/ AdminReturn
BY Zenon DEF Next

LEMMA NextInvariant ==
    ASSUME ClientInvariant, Next
    PROVE  ClientInvariant'
<1>1. CASE \E c \in Clients : ReadPool(c)
  BY <1>1, ReadPoolStep, Zenon
<1>2. CASE \E c \in Clients : BuildDeposit(c)
  BY <1>2, BuildDepositStep, Zenon
<1>3. CASE \E c \in Clients, mints \in [Slots -> Mints \cup {NoKey}] : BuildClaim(c, mints)
  BY <1>3, BuildClaimStep, Zenon
<1>4. CASE \E c \in Clients : \E payer \in {Wallet(c), Sponsor} : SubmitDeposit(c, payer)
  BY <1>4, SubmitDepositStep, Zenon
<1>5. CASE \E c \in Clients, name \in {"claimAll", "withdraw"} :
              \E keys \in {ClaimKeys(c), WithFrom(ClaimKeys(c))}, payer \in {Wallet(c), Sponsor} :
                  SubmitClaim(c, name, keys, payer)
  BY <1>5, SubmitClaimStep, Zenon
<1>6. CASE \E c \in Clients : Return(c)
  BY <1>6, ReturnStep, Zenon
<1>7. CASE \E k, auth \in Keys : SdkInitStakePool(k, auth)
  BY <1>7, SdkInitStakePoolStep, Zenon
<1>8. CASE \E k \in Keys, i \in Slots, m \in Mints :
              \E pool \in {StakePoolKey(k), stake_pool} : AddRewardPool(k, pool, i, m)
  BY <1>8, AddRewardPoolStep, Zenon
<1>9. CASE \E name \in {"setFlags", "dangerouslyMintStakeMint", "transferAuthority",
                        "updateTokenMeta"} :
              \E k, new \in Keys : \E payer \in {Wallet(k), Sponsor} :
                  AdminCall(name, k, new, payer)
  BY <1>9, AdminCallStep, Zenon
<1>10. CASE AdminReturn
  BY <1>10, AdminReturnStep
<1> QED BY <1>1, <1>2, <1>3, <1>4, <1>5, <1>6, <1>7, <1>8, <1>9, <1>10, NextSteps, Zenon

\* Whatever the clients and the authority do, and in whatever order, the slots a
\* client saw in use keep their vaults, its transaction carries the accounts
\* chosen for them, and the pool signs for its own address.
THEOREM ClientsInvariant == Spec => []ClientInvariant
<1>1. Init => ClientInvariant
  BY InitInvariant
<1>2. ClientInvariant /\ [Next]_vars => ClientInvariant'
  BY NextInvariant, StutteringStep
<1> QED BY <1>1, <1>2, PTL DEF Spec

\* The types of the pool as clients see it; no vault is in two slots.
THEOREM ClientsTypes == Spec => []TypeOK
BY ClientsInvariant, InvariantImpliesTypeOK, PTL

\* The authority is obeyed, and nobody else, however often the pool was handed on
\* (has_one = authority of the instructions' Accounts structs, macros.rs).
THEOREM AuthorityObeyed == Spec => []AuthorityIsObeyed
<1>1. ClientInvariant => AuthorityIsObeyed
  BY Zenon DEF ClientInvariant
<1> QED BY <1>1, ClientsInvariant, PTL

-----------------------------------------------------------------------------
\* A transaction ends in its own submission.
LEMMA OnlySubmitted ==
    ASSUME ClientInvariant, [Next]_vars, NEW c \in Clients,
           call[c].op \in {"deposit", "claim"}, call'[c].sent # "none"
    PROVE  \/ call[c].op = "deposit" /\ \E payer \in {Wallet(c), Sponsor} : SubmitDeposit(c, payer)
           \/ /\ call[c].op = "claim"
              /\ \E name \in {"claimAll", "withdraw"}, keys \in {ClaimKeys(c), WithFrom(ClaimKeys(c))},
                    payer \in {Wallet(c), Sponsor} : SubmitClaim(c, name, keys, payer)
<1> DEFINE Goal == \/ call[c].op = "deposit" /\ \E payer \in {Wallet(c), Sponsor} : SubmitDeposit(c, payer)
                   \/ /\ call[c].op = "claim"
                      /\ \E name \in {"claimAll", "withdraw"},
                            keys \in {ClaimKeys(c), WithFrom(ClaimKeys(c))},
                            payer \in {Wallet(c), Sponsor} :
                                SubmitClaim(c, name, keys, payer)
<1> SUFFICES Goal
  OBVIOUS
<1>1. /\ DOMAIN call = Clients /\ call[c].sent = "none" /\ stake_pool # NoAddress
  <2>1. Transaction(c, call[c], stake_pool, reward_vaults) /\ DOMAIN call = Clients
    BY Zenon DEF ClientInvariant
  <2>2. call[c].op # "idle"
    OBVIOUS
  <2> QED BY <2>1, <2>2, Zenon DEF Transaction
<1>2. call' # call
  BY <1>1
<1>3. call[c].op # "read" /\ call[c] # Idle
  BY DEF Idle
<1>4. ASSUME NEW d \in Clients, NEW r, call' = [call EXCEPT ![d] = r] PROVE d = c
  BY <1>1, <1>4
<1>5. CASE \E d \in Clients : ReadPool(d)
  <2>1. PICK d \in Clients : ReadPool(d)
    BY <1>5
  <2>2. call[d] = Idle /\ (c # d => call'[c] = call[c])
    BY <1>1, <2>1 DEF ReadPool
  <2> QED BY <1>1, <1>3, <2>2
<1>6. CASE \E d \in Clients : BuildDeposit(d)
  <2>1. PICK d \in Clients : BuildDeposit(d)
    BY <1>6
  <2>2. call[d].op = "read" /\ (c # d => call'[c] = call[c])
    BY <1>1, <2>1 DEF BuildDeposit
  <2> QED BY <1>1, <1>3, <2>2
<1>7. CASE \E d \in Clients, mints \in [Slots -> Mints \cup {NoKey}] : BuildClaim(d, mints)
  <2>1. PICK d \in Clients, mints \in [Slots -> Mints \cup {NoKey}] : BuildClaim(d, mints)
    BY <1>7
  <2>2. call[d].op = "read" /\ (c # d => call'[c] = call[c])
    BY <1>1, <2>1 DEF BuildClaim
  <2> QED BY <1>1, <1>3, <2>2
<1>8. CASE \E d \in Clients : \E payer \in {Wallet(d), Sponsor} : SubmitDeposit(d, payer)
  <2>1. PICK d \in Clients : \E payer \in {Wallet(d), Sponsor} : SubmitDeposit(d, payer)
    BY <1>8
  <2>2. PICK payer \in {Wallet(d), Sponsor} : SubmitDeposit(d, payer)
    BY <2>1
  <2>3. call[d].op = "deposit" /\ \E r : call' = [call EXCEPT ![d] = r]
    BY <2>2, Zenon DEF SubmitDeposit
  <2>4. d = c
    BY <1>4, <2>3
  <2> QED BY <2>2, <2>3, <2>4
<1>9. CASE \E d \in Clients, name \in {"claimAll", "withdraw"} :
              \E keys \in {ClaimKeys(d), WithFrom(ClaimKeys(d))}, payer \in {Wallet(d), Sponsor} :
                  SubmitClaim(d, name, keys, payer)
  <2>1. PICK d \in Clients, name \in {"claimAll", "withdraw"} :
              \E keys \in {ClaimKeys(d), WithFrom(ClaimKeys(d))}, payer \in {Wallet(d), Sponsor} :
                  SubmitClaim(d, name, keys, payer)
    BY <1>9, Zenon
  <2>2. PICK keys \in {ClaimKeys(d), WithFrom(ClaimKeys(d))}, payer \in {Wallet(d), Sponsor} :
                  SubmitClaim(d, name, keys, payer)
    BY <2>1, Zenon
  <2>3. call[d].op = "claim" /\ \E r : call' = [call EXCEPT ![d] = r]
    BY <2>2, Zenon DEF SubmitClaim
  <2>4. d = c
    BY <1>4, <2>3
  <2> QED BY <2>2, <2>3, <2>4, Zenon
<1>10. CASE \E d \in Clients : Return(d)
  <2>1. PICK d \in Clients : Return(d)
    BY <1>10
  <2>2. call[d].sent # "none" /\ call' = [call EXCEPT ![d] = Idle]
    BY <2>1 DEF Return
  <2> QED BY <1>1, <1>4, <2>2, Zenon
<1>11. CASE \E k, auth \in Keys : SdkInitStakePool(k, auth)
  BY <1>2, <1>11 DEF SdkInitStakePool
<1>12. CASE \E k \in Keys, i \in Slots, m \in Mints :
              \E pool \in {StakePoolKey(k), stake_pool} : AddRewardPool(k, pool, i, m)
  <2>1. PICK k \in Keys, i \in Slots, m \in Mints : \E pool : AddRewardPool(k, pool, i, m)
    BY <1>12, Zenon
  <2>2. PICK pool : AddRewardPool(k, pool, i, m)
    BY <2>1
  <2>3. call' = call
    BY <2>2, Zenon DEF AddRewardPool
  <2> QED BY <1>2, <2>3
<1>13. CASE \E name \in {"setFlags", "dangerouslyMintStakeMint", "transferAuthority",
                        "updateTokenMeta"} :
              \E k, new \in Keys : \E payer \in {Wallet(k), Sponsor} :
                  AdminCall(name, k, new, payer)
  BY <1>2, <1>13, Zenon DEF AdminCall
<1>14. CASE AdminReturn
  BY <1>2, <1>14 DEF AdminReturn
<1>15. CASE UNCHANGED vars
  BY <1>2, <1>15 DEF vars
<1> HIDE DEF Goal
<1> QED BY <1>5, <1>6, <1>7, <1>8, <1>9, <1>10, <1>11, <1>12, <1>13, <1>14, <1>15, NextSteps, Zenon

\* On a pool with stake, a deposit is accepted if the pool is what the client saw.
LEMMA DepositEnds ==
    ASSUME ClientInvariant, staked, NEW c \in Clients, NEW payer, SubmitDeposit(c, payer)
    PROVE  call'[c].sent = "accepted" <=> reward_vaults = call[c].seen
<1> DEFINE r == call[c]
           sentAlong == RewardPoolPublicKeys(r.seen)
           accepted == DepositAccepted(Build("deposit", DepositKeys(c)) \o sentAlong, payer)
<1>1. /\ Transaction(c, r, stake_pool, reward_vaults) /\ r.op = "deposit"
      /\ CanBuildIx("deposit", DepositKeys(c)) /\ DOMAIN call = Clients
  BY Zenon DEF ClientInvariant, SubmitDeposit
<1>2. /\ r.seen \in [Slots -> Mints \cup {NoKey}] /\ stake_pool # NoAddress
      /\ Kept(r.seen, reward_vaults) /\ r.accounts = VaultsSent(stake_pool, r.seen)
  <2> HIDE DEF r
  <2>1. r.op # "idle"
    BY <1>1
  <2> QED BY <1>1, <2>1, Zenon DEF Transaction
<1>3. r.accounts = sentAlong
  BY <1>2, Zenon DEF VaultsSent, RewardPoolPublicKeys
<1>4. /\ PoolSigns /\ reward_vaults \in [Slots -> Mints \cup {NoKey}] /\ Distinct(reward_vaults)
  BY <1>2, Zenon DEF ClientInvariant
<1>5. call'[c].sent = IF accepted THEN "accepted" ELSE "rejected"
  <2> HIDE DEF accepted
  <2>1. call' = [call EXCEPT ![c] = [Idle EXCEPT !.sent = IF accepted THEN "accepted"
                                                          ELSE "rejected"]]
    BY <1>3, Zenon DEF SubmitDeposit, accepted
  <2> DEFINE outcome == IF accepted THEN "accepted" ELSE "rejected"
  <2> HIDE DEF outcome
  <2>2. call' = [call EXCEPT ![c] = [Idle EXCEPT !.sent = outcome]]
    BY <2>1, Zenon DEF outcome
  <2>3. call'[c] = [Idle EXCEPT !.sent = outcome]
    BY <1>1, <2>2
  <2>4. call'[c].sent = outcome
    BY <2>3 DEF Idle
  <2> QED BY <2>4, Zenon DEF outcome
<1>6. \E S : sentAlong \in Seq(S)
  <2>1. UsedVaults(r.seen) \in Seq(Mints)
    BY <1>2, UsedVaultsOf
  <2>2. Len(UsedVaults(r.seen)) \in Nat
    BY <2>1
  <2> DEFINE n == Len(UsedVaults(r.seen))
  <2>3. sentAlong = [k \in 1..n |-> sentAlong[k]]
    BY DEF RewardPoolPublicKeys
  <2> HIDE DEF sentAlong, n
  <2>4. sentAlong \in Seq({sentAlong[k] : k \in 1..n})
    BY <2>2, <2>3 DEF n
  <2> QED BY <2>4
<1>7. accepted <=> RefreshAccepts(sentAlong, 1)
  <2> HIDE DEF sentAlong
  <2>1. PICK S : sentAlong \in Seq(S)
    BY <1>6
  <2> QED BY <1>1, <1>4, <2>1, DepositAcceptedWhen
<1>8. RefreshAccepts(sentAlong, 1) <=> reward_vaults = r.seen
  <2> HIDE DEF r
  <2> QED BY <1>2, <1>4, RefreshOfSeen
<1> HIDE DEF accepted, sentAlong
<1> QED BY <1>5, <1>7, <1>8

\* A claim or a withdrawal is accepted if the pool is what the client saw and the
\* caller knew every mint.
LEMMA ClaimEnds ==
    ASSUME ClientInvariant, NEW c \in Clients, NEW name \in {"claimAll", "withdraw"},
           NEW keys \in {ClaimKeys(c), WithFrom(ClaimKeys(c))}, NEW payer,
           SubmitClaim(c, name, keys, payer)
    PROVE  call'[c].sent = "accepted"
               <=> reward_vaults = call[c].seen /\ call[c].mints = call[c].seen
<1> DEFINE r == call[c]
           sentAlong == RemainingAccounts(r.seen, r.mints, Wallet(c))
           accepted == ClaimAccepted(name, Build(name, keys) \o sentAlong, payer)
<1>1. /\ Transaction(c, r, stake_pool, reward_vaults) /\ r.op = "claim"
      /\ CanBuildIx(name, keys) /\ DOMAIN call = Clients
  BY Zenon DEF ClientInvariant, SubmitClaim
<1>2. /\ r.seen \in [Slots -> Mints \cup {NoKey}] /\ r.mints \in [Slots -> Mints \cup {NoKey}]
      /\ stake_pool # NoAddress /\ Kept(r.seen, reward_vaults)
      /\ \A i \in Slots : r.mints[i] \in {r.seen[i], NoKey}
      /\ r.accounts = PayoutsSent(stake_pool, r.seen, r.mints, Wallet(c))
  <2> HIDE DEF r
  <2>1. r.op # "idle"
    BY <1>1
  <2> QED BY <1>1, <2>1, Zenon DEF Transaction
<1>3. r.accounts = sentAlong
  BY <1>2, Zenon DEF PayoutsSent, RemainingAccounts
<1>4. /\ PoolSigns /\ reward_vaults \in [Slots -> Mints \cup {NoKey}] /\ Distinct(reward_vaults)
  BY <1>2, Zenon DEF ClientInvariant
<1>5. call'[c].sent = IF accepted THEN "accepted" ELSE "rejected"
  <2> HIDE DEF accepted
  <2>1. call' = [call EXCEPT ![c] = [Idle EXCEPT !.sent = IF accepted THEN "accepted"
                                                          ELSE "rejected"]]
    BY <1>3, Zenon DEF SubmitClaim, accepted
  <2> DEFINE outcome == IF accepted THEN "accepted" ELSE "rejected"
  <2> HIDE DEF outcome
  <2>2. call' = [call EXCEPT ![c] = [Idle EXCEPT !.sent = outcome]]
    BY <2>1, Zenon DEF outcome
  <2>3. call'[c] = [Idle EXCEPT !.sent = outcome]
    BY <1>1, <2>2
  <2>4. call'[c].sent = outcome
    BY <2>3 DEF Idle
  <2> QED BY <2>4, Zenon DEF outcome
<1>6. sentAlong \in Seq(ClaimMetas(Wallet(c)))
  <2> HIDE DEF r
  <2> QED BY <1>2, RemainingAccountsOf
<1>7. accepted <=> RefreshAccepts(sentAlong, 2) /\ ClaimAccepts(sentAlong)
  <2> HIDE DEF sentAlong
  <2> QED BY <1>1, <1>4, <1>6, ClaimAcceptedWhen
<1>8. RefreshAccepts(sentAlong, 2) /\ ClaimAccepts(sentAlong)
          <=> reward_vaults = r.seen /\ r.mints = r.seen
  <2> HIDE DEF r
  <2> QED BY <1>2, <1>4, ClaimOfSeen
<1> HIDE DEF accepted, sentAlong
<1> QED BY <1>5, <1>7, <1>8

\* A deposit on a pool with stake is accepted exactly if no reward pool has been
\* added since the client read the pool (utils.ts:148-153, state.rs:206-224).
THEOREM DepositsMustBeCurrent == Spec => DepositAcceptedIffCurrent
<1>1. ASSUME ClientInvariant, [Next]_vars, NEW c \in Clients,
             call[c].op = "deposit", call'[c].sent # "none", staked
      PROVE  call'[c].sent = "accepted" <=> reward_vaults = call[c].seen
  <2>1. PICK payer \in {Wallet(c), Sponsor} : SubmitDeposit(c, payer)
    BY <1>1, OnlySubmitted
  <2> QED BY <1>1, <2>1, DepositEnds
<1>2. ClientInvariant /\ [Next]_vars =>
          [\A c \in Clients :
              call[c].op = "deposit" /\ call'[c].sent # "none" /\ staked =>
                  (call'[c].sent = "accepted" <=> reward_vaults = call[c].seen)]_vars
  BY <1>1
<1> QED BY <1>2, ClientsInvariant, PTL DEF Spec, DepositAcceptedIffCurrent

\* Likewise a claim and a withdrawal, if also the caller knew every mint
\* (utils.ts:162-185, claim_base.rs:61-88).
THEOREM ClaimsMustBeCurrent == Spec => ClaimAcceptedIffCurrent
<1>1. ASSUME ClientInvariant, [Next]_vars, NEW c \in Clients,
             call[c].op = "claim", call'[c].sent # "none"
      PROVE  call'[c].sent = "accepted"
                 <=> reward_vaults = call[c].seen /\ call[c].mints = call[c].seen
  <2>1. PICK name \in {"claimAll", "withdraw"}, keys \in {ClaimKeys(c), WithFrom(ClaimKeys(c))},
             payer \in {Wallet(c), Sponsor} : SubmitClaim(c, name, keys, payer)
    BY <1>1, OnlySubmitted
  <2> QED BY <1>1, <2>1, ClaimEnds
<1>2. ClientInvariant /\ [Next]_vars =>
          [\A c \in Clients :
              call[c].op = "claim" /\ call'[c].sent # "none" =>
                  (call'[c].sent = "accepted"
                       <=> reward_vaults = call[c].seen /\ call[c].mints = call[c].seen)]_vars
  BY <1>1
<1> QED BY <1>2, ClientsInvariant, PTL DEF Spec, ClaimAcceptedIffCurrent

=============================================================================
