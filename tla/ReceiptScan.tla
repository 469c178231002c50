----------------------------- MODULE ReceiptScan -----------------------------
(***************************************************************************)
(* How the SDK finds the receipts of one wallet in one pool, and a free    *)
(* address for the next one (utils.ts). A receipt's address is derived     *)
(* from a nonce; nobody keeps a list, so clients of the wallet read the    *)
(* addresses page by page while others deposit and withdraw. The program   *)
(* takes any nonce; only some depositors ask the SDK for the next one.     *)
(*                                                                         *)
(* One request to the RPC node is one step: the accounts of a page are     *)
(* read together, whatever happens between two pages happens in between.   *)
(***************************************************************************)
EXTENDS Integers

CONSTANTS
    Clients,            \* programs that act for the wallet
    MAX_INDEX,          \* the largest nonce (the largest u32)
    SCAN_PAGE,          \* page size of batchRequestStakeReceipts
    NONCE_PAGE          \* page size of getNextUnusedStakeReceiptNonce

ASSUME PageAssumption ==
    /\ MAX_INDEX \in Nat
    /\ SCAN_PAGE \in Nat \ {0}
    /\ NONCE_PAGE \in Nat \ {0}

Nonces == 0..MAX_INDEX

VARIABLES
    open,       \* the nonces whose receipt account exists
    call,       \* the SDK call each client is in
    \* --- history, read by the properties only
    steady,     \* receipts open ever since a client's scan began
    rivals,     \* has another deposit got through since a client's search began?
    taken       \* nonces that were open at some moment of a client's search

vars == <<open, call, steady, rivals, taken>>

Idle == [op |-> "idle", page |-> 0, found |-> {}, nonce |-> 0]

Page(p, size) == (p * size)..((p + 1) * size - 1)

\* maxPage: the quotient is rounded up.
MaxPage(size) == (MAX_INDEX + size - 1) \div size

\* Mutant: only the first index of a page has to fit.
DerivableFirst(p, size) == p * size <= MAX_INDEX

\* Every index of the page fits the four bytes of the seed; toArrayLike throws
\* on one that does not, and with it the call.
Derivable(p, size) == (p + 1) * size - 1 <= MAX_INDEX

Init ==
    /\ open = {}
    /\ call = [c \in Clients |-> Idle]
    /\ steady = [c \in Clients |-> {}]
    /\ rivals = [c \in Clients |-> FALSE]
    /\ taken = [c \in Clients |-> {}]

-----------------------------------------------------------------------------
StartScan(c) ==
    /\ call[c] = Idle
    /\ call' = [call EXCEPT ![c].op = "scan"]
    /\ steady' = [steady EXCEPT ![c] = open]
    /\ UNCHANGED <<open, rivals, taken>>

\* Mutant: a page that is not full is taken for the last one.
EndsScanShort(valid) == \E i \in 0..(SCAN_PAGE - 1) : \A n \in valid : n % SCAN_PAGE # i

\* The scan takes an empty page for the last one.
EndsScan(valid) == valid = {}

\* One round of the loop of batchRequestStakeReceipts.
ScanPage(c) ==
    LET page  == call[c].page
        valid == open \cap Page(page, SCAN_PAGE)
    IN  /\ call[c].op = "scan"
        /\ \/ /\ page > MaxPage(SCAN_PAGE)
              /\ call' = [call EXCEPT ![c].op = "scanned"]
           \/ /\ page <= MaxPage(SCAN_PAGE)
              /\ ~ Derivable(page, SCAN_PAGE)
              /\ call' = [call EXCEPT ![c].op = "failed"]
           \/ /\ page <= MaxPage(SCAN_PAGE)
              /\ Derivable(page, SCAN_PAGE)
              /\ call' = [call EXCEPT
                    ![c].found = @ \cup valid,
                    ![c].op    = IF EndsScan(valid) THEN "scanned" ELSE @,
                    ![c].page  = IF EndsScan(valid) THEN @ ELSE @ + 1]
        /\ UNCHANGED <<open, steady, rivals, taken>>

-----------------------------------------------------------------------------
StartSearch(c) ==
    /\ call[c] = Idle
    /\ call' = [call EXCEPT ![c].op = "search"]
    /\ taken' = [taken EXCEPT ![c] = open]
    /\ UNCHANGED <<open, steady, rivals>>

\* Mutants of findIndex: any address without an account; the first address of a
\* page that has one.
ChosenAny(n, page) == n \in Page(page, NONCE_PAGE) \ open

ChosenPageStart(n, page) ==
    /\ Page(page, NONCE_PAGE) \ open # {}
    /\ n = page * NONCE_PAGE

\* findIndex: the first address of the page without an account.
Chosen(n, page) ==
    /\ n \in Page(page, NONCE_PAGE) \ open
    /\ \A m \in Page(page, NONCE_PAGE) \ open : n <= m

\* One round of the loop of getNextUnusedStakeReceiptNonce.
SearchPage(c) ==
    LET page == call[c].page
    IN  /\ call[c].op = "search"
        /\ \/ /\ page > MaxPage(NONCE_PAGE) \/ ~ Derivable(page, NONCE_PAGE)
              /\ call' = [call EXCEPT ![c].op = "exhausted"]
           \/ /\ page <= MaxPage(NONCE_PAGE)
              /\ Derivable(page, NONCE_PAGE)
              /\ Page(page, NONCE_PAGE) \subseteq open
              /\ call' = [call EXCEPT ![c].page = @ + 1]
           \/ /\ page <= MaxPage(NONCE_PAGE)
              /\ Derivable(page, NONCE_PAGE)
              /\ \E n \in Page(page, NONCE_PAGE) :
                    /\ Chosen(n, page)
                    /\ call' = [call EXCEPT ![c].op = "submit", ![c].nonce = n]
        /\ UNCHANGED <<open, steady, rivals, taken>>

\* A deposit is accepted: the program creates the receipt's account (init), which
\* fails when there is one. Submitters are the clients whose call it is.
Take(n, submitters) ==
    /\ n \notin open
    /\ open' = open \cup {n}
    /\ rivals' = [c \in Clients |->
          c \notin submitters /\ (rivals[c] \/ call[c].op \in {"search", "submit"})]
    /\ taken' = [c \in Clients |->
          IF c \in submitters THEN {}
          ELSE IF call[c].op = "search" THEN taken[c] \cup {n} ELSE taken[c]]

\* The deposit built with the nonce of a search reaches the chain.
Submit(c) ==
    /\ call[c].op = "submit"
    /\ \/ /\ Take(call[c].nonce, {c})
          /\ call' = [call EXCEPT ![c] = Idle]
       \/ /\ call[c].nonce \in open
          /\ call' = [call EXCEPT ![c].op = "rejected"]
          /\ UNCHANGED <<open, rivals, taken>>
    /\ UNCHANGED steady

\* Anybody deposits for the wallet, with any nonce.
Deposit(n) ==
    /\ Take(n, {})
    /\ UNCHANGED <<call, steady>>

\* The program closes the account of a receipt that is withdrawn.
Withdraw(n) ==
    /\ n \in open
    /\ open' = open \ {n}
    /\ steady' = [c \in Clients |-> steady[c] \ {n}]
    /\ UNCHANGED <<call, rivals, taken>>

\* The call returns or throws; the client starts over.
Return(c) ==
    /\ call[c].op \in {"scanned", "rejected", "failed", "exhausted"}
    /\ call' = [call EXCEPT ![c] = Idle]
    /\ steady' = [steady EXCEPT ![c] = {}]
    /\ rivals' = [rivals EXCEPT ![c] = FALSE]
    /\ taken' = [taken EXCEPT ![c] = {}]
    /\ UNCHANGED open

Next ==
    \/ \E c \in Clients : StartScan(c) \/ ScanPage(c)
    \/ \E c \in Clients : StartSearch(c) \/ SearchPage(c) \/ Submit(c)
    \/ \E n \in Nonces : Deposit(n) \/ Withdraw(n)
    \/ \E c \in Clients : Return(c)

Spec == Init /\ [][Next]_vars

-----------------------------------------------------------------------------
CallType ==
    [op : {"idle", "scan", "scanned", "search", "submit", "rejected", "failed", "exhausted"},
     page : Nat, found : SUBSET Nonces, nonce : Nonces]

\* The calls and the history are well typed: no call gets past the nonces there
\* are, and a steady receipt is open (utils.ts:56-69).
TypeOK ==
    /\ open \in SUBSET Nonces
    /\ call \in [Clients -> CallType]
    /\ steady \in [Clients -> SUBSET open]
    /\ rivals \in [Clients -> BOOLEAN]
    /\ taken \in [Clients -> SUBSET Nonces]

\* A search passes over no address it might have had: those below the nonce it
\* returns all held a receipt at some moment of the search, and when it gives up,
\* so did all the addresses of the pages it can look at (utils.ts:117-141),
\* whatever was deposited and withdrawn behind it and before it.
SearchSkipsTakenOnly ==
    \A c \in Clients :
        /\ call[c].op \in {"submit", "rejected"} => 0..(call[c].nonce - 1) \subseteq taken[c]
        /\ call[c].op = "exhausted" =>
               \A n \in Nonces : Derivable(n \div NONCE_PAGE, NONCE_PAGE) => n \in taken[c]

\* A scan returns every receipt that was open throughout, provided no page up to
\* its own lost all of its receipts: receipts opened and closed by others between
\* two of its requests hide nothing (utils.ts:50-103).
ScanFindsCovered ==
    \A c \in Clients : call[c].op = "scanned" =>
        \A n \in steady[c] :
            (\A p \in 0..(n \div SCAN_PAGE) : steady[c] \cap Page(p, SCAN_PAGE) # {})
                => n \in call[c].found

\* A deposit with a nonce from getNextUnusedStakeReceiptNonce is rejected only
\* when another deposit for the wallet got through meanwhile (utils.ts:134-137,
\* deposit.rs:47-58): of those that race, one always gets on.
RejectedOnlyByRivals ==
    \A c \in Clients : call[c].op = "rejected" => rivals[c]

\* "Request all of a wallet's StakeDepositReceipts" (utils.ts:42): a scan returns
\* every receipt that was open throughout.
ScanFindsAll ==
    \A c \in Clients : call[c].op = "scanned" => steady[c] \subseteq call[c].found

=============================================================================
