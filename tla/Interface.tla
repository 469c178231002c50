------------------------------ MODULE Interface ------------------------------
(***************************************************************************)
(* The terms in which a program on Solana and its published interface      *)
(* describe instructions and accounts, and how transactions and account    *)
(* data follow from a description. A description is read twice: by the     *)
(* client, which builds what the published one says, and by the program,   *)
(* which takes it apart as its own source says.                            *)
(***************************************************************************)
EXTENDS Arithmetic, Sequences, SequencesExt

\* The accounts of an instruction, in their order.
Listed(name, isMut, isSigner) ==
    [name |-> name, isMut |-> isMut, isSigner |-> isSigner, isOptional |-> FALSE]

Plain(name)     == Listed(name, FALSE, FALSE)
Mut(name)       == Listed(name, TRUE, FALSE)
Signer(name)    == Listed(name, FALSE, TRUE)
MutSigner(name) == Listed(name, TRUE, TRUE)

Optional(account) == [account EXCEPT !.isOptional = TRUE]

\* The fields of an account, or the arguments of an instruction, with the bytes
\* each takes. A text has no fixed width; nothing is read behind one.
Field(name, width) == [name |-> name, width |-> width]

PublicKey(name) == Field(name, 32)
U128(name)      == Field(name, 16)
U64(name)       == Field(name, 8)
I64(name)       == Field(name, 8)
U32(name)       == Field(name, 4)
U8(name)        == Field(name, 1)
Text(name)      == Field(name, 0)

-----------------------------------------------------------------------------
\* Account data: fields one after the other, behind 8 bytes that tell the type.
Discriminator == Field("discriminator", 8)

OffsetOf(fields, i) == Total([j \in DOMAIN fields |-> fields[j].width], i - 1)

SizeOf(fields) == OffsetOf(fields, Len(fields) + 1)

\* The data that holds these values, by place: the fields not given are not read
\* by anybody.
Stored(fields, values) ==
    {<<OffsetOf(fields, i), fields[i].width, values[fields[i].name]>> :
        i \in {j \in DOMAIN fields : fields[j].name \in DOMAIN values}}

\* What is read where no value begins, or not the whole of one.
Garbage == -1

BytesAt(data, offset, length) ==
    IF \E value \in data : value[1] = offset /\ value[2] = length
    THEN (CHOOSE value \in data : value[1] = offset /\ value[2] = length)[3]
    ELSE Garbage

Decoded(fields, data, name) ==
    LET i == CHOOSE j \in DOMAIN fields : fields[j].name = name
    IN  BytesAt(data, OffsetOf(fields, i), fields[i].width)

-----------------------------------------------------------------------------
\* Instructions. The client's library looks a key up for every account the
\* interface lists and fails if one is missing; in the place of an optional one
\* it puts the program.
ProgramId == <<"program">>

CanBuild(accounts, keys) ==
    \A i \in DOMAIN accounts : accounts[i].name \in DOMAIN keys \/ accounts[i].isOptional

Meta(pubkey, isWritable, isSigner) ==
    [pubkey |-> pubkey, isWritable |-> isWritable, isSigner |-> isSigner]

Metas(accounts, keys) ==
    [i \in DOMAIN accounts |->
        IF accounts[i].name \in DOMAIN keys
        THEN Meta(keys[accounts[i].name], accounts[i].isMut, accounts[i].isSigner)
        ELSE Meta(ProgramId, FALSE, FALSE)]

\* A message states the privileges of a key once, for all the accounts that name
\* it; the key that pays the fee is writable and signs.
Writable(metas, feePayer) == {feePayer} \cup {m.pubkey : m \in {n \in ToSet(metas) : n.isWritable}}

Signing(metas, feePayer) == {feePayer} \cup {m.pubkey : m \in {n \in ToSet(metas) : n.isSigner}}

\* The program goes through its accounts by position and demands the privileges
\* it needs of each.
HasPrivileges(accounts, metas, feePayer) ==
    /\ Len(accounts) <= Len(metas)
    /\ \A i \in DOMAIN accounts :
          \/ accounts[i].isOptional /\ metas[i].pubkey = ProgramId
          \/ /\ accounts[i].isMut => metas[i].pubkey \in Writable(metas, feePayer)
             /\ accounts[i].isSigner => metas[i].pubkey \in Signing(metas, feePayer)

\* The key the program finds for an account, and what follows its own accounts.
KeyOf(accounts, metas, name) ==
    metas[CHOOSE i \in DOMAIN accounts : accounts[i].name = name].pubkey

Remaining(accounts, metas) == SubSeq(metas, Len(accounts) + 1, Len(metas))

\* Arguments are written one after the other in the order of the interface, and
\* read in the program's; a program that expects other types fails to read them.
Argument(args, values, expected, name) ==
    LET i == CHOOSE j \in DOMAIN expected : expected[j].name = name
    IN  IF i \in DOMAIN args /\ \A j \in 1..i : args[j].width = expected[j].width
        THEN values[i] ELSE Garbage

=============================================================================
