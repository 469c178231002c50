----------------------------- MODULE RewardLedger -----------------------------
(***************************************************************************)
(* What a pool promises about rewards, said as a ledger says it: whatever  *)
(* has arrived is entered to the credit of every single receipt, in        *)
(* proportion to its stake, before anybody joins, claims or leaves; a      *)
(* claim pays the receipt's credit. The program does this without touching *)
(* the other receipts: it keeps one accumulator per reward pool, and in    *)
(* each receipt the accumulator up to which it was paid.                   *)
(***************************************************************************)
EXTENDS Arithmetic

CONSTANTS
    NumReceipts,
    Slots,
    Unit        \* a credit of one token

Receipts == 1..NumReceipts

VARIABLES
    stake,      \* of every receipt
    credit,     \* of every receipt in every slot, in fractions of a token
    counted,    \* what has been entered of every slot's balance
    balance     \* the tokens in every slot's reward vault

vars == <<stake, credit, counted, balance>>

Nothing == [i \in Slots |-> 0]

Init ==
    /\ stake = [r \in Receipts |-> 0]
    /\ credit = [r \in Receipts |-> Nothing]
    /\ counted = Nothing
    /\ balance = Nothing

TotalStake == Total(stake, NumReceipts)

\* What has arrived in slot i, for each unit of stake.
Increase(i) ==
    IF TotalStake = 0 THEN 0 ELSE ((balance[i] - counted[i]) * Unit) \div TotalStake

\* The ledger with all that has arrived entered. Without stake nothing is.
Counted == IF TotalStake = 0 THEN counted ELSE balance

Credited == [r \in Receipts |-> [i \in Slots |-> credit[r][i] + stake[r] * Increase(i)]]

Due(r, i) == Credited[r][i] \div Unit

Join(r) ==
    /\ stake[r] = 0
    /\ stake'[r] \in Nat
    /\ stake' = [stake EXCEPT ![r] = stake'[r]]
    /\ credit' = [Credited EXCEPT ![r] = Nothing]
    /\ counted' = Counted
    /\ UNCHANGED balance

\* A claimant may leave the tokens of a slot in its vault: the slots in kept.
Pay(r, kept) ==
    /\ credit' = [Credited EXCEPT ![r] = Nothing]
    /\ counted' = [i \in Slots |-> Counted[i] - Due(r, i)]
    /\ balance' = [i \in Slots |-> IF i \in kept THEN balance[i] ELSE balance[i] - Due(r, i)]

Claim(r, kept) == Pay(r, kept) /\ UNCHANGED stake

Leave(r, kept) == Pay(r, kept) /\ stake' = [stake EXCEPT ![r] = 0]

Arrive(i) ==
    /\ balance[i] <= balance'[i]
    /\ balance' = [balance EXCEPT ![i] = balance'[i]]
    /\ UNCHANGED <<stake, credit, counted>>

Next ==
    \/ \E r \in Receipts : Join(r)
    \/ \E r \in Receipts, kept \in SUBSET Slots : Claim(r, kept) \/ Leave(r, kept)
    \/ \E i \in Slots : Arrive(i)

Spec == Init /\ [][Next]_vars

=============================================================================
