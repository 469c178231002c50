-------------------------- MODULE StakePoolLiveness --------------------------
(***************************************************************************)
(* A staker who keeps asking for the stake back gets it. The program runs  *)
(* no schedule of its own: what is assumed fair is that time passes, and   *)
(* that the owner of an open receipt goes on submitting Withdraw.          *)
(***************************************************************************)
EXTENDS StakePoolProperties

WithdrawSome(r) ==
    \E to \in Accounts \cup {Vault}, kept \in SUBSET Slots : Withdraw(r, to, kept)

FairSpec ==
    /\ Spec
    /\ WF_vars(Tick)
    /\ \A r \in Receipts : WF_vars(WithdrawSome(r))

LockEnds(r) ==
    receipts[r].deposit_timestamp + receipts[r].lockup_duration <= MaxTime

\* What the code demands of a receipt's owner and the pool's authority besides
\* time: stake mint tokens to burn or the flag that waives them, and an
\* accumulator that has not reached the end of its u128.
MayLeave(r) ==
    /\ receipts[r].open
    /\ LockEnds(r) \/ ESCAPE_HATCH_ENABLED \in flags
    /\ WITHDRAW_IGNORES_LP \in flags \/ CanBurn(r)
    /\ RefreshSucceeds

\* No open receipt stays for ever in a position to leave (withdraw.rs:91-139):
\* once its lockup is over, or the escape hatch stays open, and its owner holds
\* the tokens to burn, nothing the other stakers do keeps it in.
NobodyIsTrapped ==
    \A r \in Receipts : ~ <>[] MayLeave(r)

=============================================================================
