-------------------------------- MODULE Escrow --------------------------------
(***************************************************************************)
(* What a pool promises about the tokens deposited in it, without weights, *)
(* rewards or stake mint tokens: each deposit is held until its own time,  *)
(* or until the escape hatch opens, and is then paid back once, whole.     *)
(***************************************************************************)
EXTENDS Integers

CONSTANTS
    Holders,    \* the accounts tokens come from and go to
    Receipts,
    Amounts

VARIABLES
    purses,     \* the tokens of every holder
    pot,        \* the tokens in the vault
    held,       \* of every receipt, what is held for it and until when
    terms,      \* how long a deposit can be held, agreed on before the first
    now,
    hatch       \* is the escape hatch open?

vars == <<purses, pot, held, terms, now, hatch>>

Nothing == [open |-> FALSE, amount |-> 0, until |-> 0]

Init ==
    /\ purses \in [Holders -> Nat]
    /\ pot = 0
    /\ held = [r \in Receipts |-> Nothing]
    /\ terms = {}
    /\ now = 0
    /\ hatch = FALSE

\* Once, and for good.
SetTerms ==
    /\ terms = {}
    /\ terms' # {}
    /\ UNCHANGED <<purses, pot, held, now, hatch>>

Put(a, r, n, lock) ==
    /\ ~ held[r].open
    /\ n <= purses[a]
    /\ purses' = [purses EXCEPT ![a] = @ - n]
    /\ pot' = pot + n
    /\ held' = [held EXCEPT ![r] = [open |-> TRUE, amount |-> n, until |-> now + lock]]
    /\ UNCHANGED <<terms, now, hatch>>

MayTake(r) == held[r].open /\ (hatch \/ held[r].until <= now)

Take(r, to) ==
    /\ MayTake(r)
    /\ purses' = [purses EXCEPT ![to] = @ + held[r].amount]
    /\ pot' = pot - held[r].amount
    /\ held' = [held EXCEPT ![r] = Nothing]
    /\ UNCHANGED <<terms, now, hatch>>

\* The owner gives the deposit up: the tokens stay in the vault, for nobody.
LeaveBehind(r) ==
    /\ MayTake(r)
    /\ held' = [held EXCEPT ![r] = Nothing]
    /\ UNCHANGED <<purses, pot, terms, now, hatch>>

Pass ==
    /\ now' = now + 1
    /\ UNCHANGED <<purses, pot, held, terms, hatch>>

SetHatch ==
    /\ hatch' = ~ hatch
    /\ UNCHANGED <<purses, pot, held, terms, now>>

Next ==
    \/ SetTerms
    \/ \E a \in Holders, r \in Receipts, n \in Amounts, lock \in terms : Put(a, r, n, lock)
    \/ \E r \in Receipts : LeaveBehind(r) \/ \E to \in Holders : Take(r, to)
    \/ Pass
    \/ SetHatch

Spec == Init /\ [][Next]_vars

=============================================================================
