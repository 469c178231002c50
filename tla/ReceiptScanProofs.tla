-------------------------- MODULE ReceiptScanProofs --------------------------
(***************************************************************************)
(* The safety properties of the receipt scan, for every number of clients  *)
(* and every page size.                                                    *)
(***************************************************************************)
EXTENDS ReceiptScan, TLAPS

\* Every address that a search has passed was taken at some moment of it.
SearchedTaken ==
    \A c \in Clients :
        /\ call[c].op = "search" => open \subseteq taken[c]
        /\ call[c].op = "search" =>
               \A i \in Nonces : i < call[c].page * NONCE_PAGE => i \in taken[c]
        /\ call[c].op \in {"submit", "rejected"} =>
               \A i \in Nonces : i < call[c].nonce => i \in taken[c]
        /\ call[c].op = "exhausted" =>
               \A i \in Nonces : Derivable(i \div NONCE_PAGE, NONCE_PAGE) => i \in taken[c]

\* A nonce that was free when it was chosen is taken by a rival only.
TakenByRivals ==
    \A c \in Clients :
        call[c].op = "rejected" \/ (call[c].op = "submit" /\ call[c].nonce \in open)
            => rivals[c]

\* A scan has found the steady receipts of the pages behind it, and the page at
\* which it ended had none.
ScannedSoFar ==
    \A c \in Clients :
        /\ call[c].op \in {"scan", "scanned"} =>
               \A n \in steady[c] : n < call[c].page * SCAN_PAGE => n \in call[c].found
        /\ call[c].op = "scanned" => steady[c] \cap Page(call[c].page, SCAN_PAGE) = {}

ScanInvariant == TypeOK /\ SearchedTaken /\ TakenByRivals /\ ScannedSoFar

-----------------------------------------------------------------------------
\* Pages are consecutive: behind page p + 1 lie page p and what is behind it.
LEMMA NextPage ==
    ASSUME NEW p \in Nat, NEW size \in Nat \ {0}, NEW i \in Nonces, i < (p + 1) * size
    PROVE  i < p * size \/ i \in Page(p, size)
BY PageAssumption, SMT DEF Page, Nonces

\* All the nonces lie before a page past the last one.
LEMMA PastMaxPage ==
    ASSUME NEW p \in Nat, NEW size \in Nat \ {0}, p > MaxPage(size)
    PROVE  \A i \in Nonces : i < p * size
<1> DEFINE q == MaxPage(size)
<1>1. q \in Nat /\ MAX_INDEX <= q * size
  <2> DEFINE a == MAX_INDEX + size - 1
  <2>1. a \in Nat /\ q = a \div size
    BY PageAssumption, SMT DEF MaxPage
  <2>2. ASSUME NEW b \in Nat PROVE b \div size \in Nat /\ b < (b \div size) * size + size
    BY SMT
  <2>3. q \in Nat /\ a < q * size + size
    BY <2>1, <2>2
  <2> QED BY <2>3, PageAssumption, SMT
<1>2. q * size + size <= p * size
  <2> HIDE DEF q
  <2>1. q + 1 <= p
    BY <1>1, SMT DEF q
  <2>2. (q + 1) * size <= p * size
    BY <1>1, <2>1, SMT
  <2> QED BY <1>1, <2>2, SMT
<1>3. ASSUME NEW i \in Nonces PROVE i < p * size
  <2> HIDE DEF q
  <2>1. i <= MAX_INDEX /\ i \in Nat
    BY PageAssumption, SMT DEF Nonces
  <2>2. p * size \in Nat /\ q * size \in Nat
    BY <1>1, SMT
  <2> QED BY <1>1, <1>2, <2>1, <2>2, PageAssumption, SMT
<1> QED BY <1>3

\* When the loop of the search gives up, the pages that can be looked at are
\* behind it.
LEMMA PagesBehind ==
    ASSUME NEW p \in Nat, NEW size \in Nat \ {0}, NEW i \in Nonces,
           p > MaxPage(size) \/ ~ Derivable(p, size), Derivable(i \div size, size)
    PROVE  i < p * size
<1>1. CASE p > MaxPage(size)
  BY <1>1, PastMaxPage
<1>2. CASE ~ Derivable(p, size)
  <2> DEFINE q == i \div size
  <2>1. i \in Nat
    BY PageAssumption, SMT DEF Nonces
  <2>2. q \in Nat /\ i < q * size + size
    BY <2>1, SMT
  <2>3. (q + 1) * size - 1 <= MAX_INDEX
    BY DEF Derivable
  <2> HIDE DEF q
  <2>4. ~ ((p + 1) * size - 1 <= MAX_INDEX)
    BY <1>2 DEF Derivable
  <2>5. (q + 1) * size < (p + 1) * size
    BY <2>2, <2>3, <2>4, PageAssumption, SMT
  <2>6. q + 1 <= p
    <3>1. p <= q => (p + 1) * size <= (q + 1) * size
      BY <2>2, SMT
    <3>2. (q + 1) * size \in Int /\ (p + 1) * size \in Int
      BY <2>2, SMT
    <3> QED BY <2>2, <2>5, <3>1, <3>2, SMT
  <2>7. (q + 1) * size <= p * size
    BY <2>2, <2>6, SMT
  <2> QED BY <2>1, <2>2, <2>7, SMT
<1> QED BY <1>1, <1>2

-----------------------------------------------------------------------------
LEMMA IdleTyped == Idle \in CallType
BY PageAssumption, SMT DEF Idle, CallType, Nonces

LEMMA ScanInit == Init => ScanInvariant
<1> SUFFICES ASSUME Init PROVE ScanInvariant
  OBVIOUS
<1>1. TypeOK
  BY IdleTyped DEF Init, TypeOK
<1>2. \A c \in Clients : call[c].op = "idle"
  BY DEF Init, Idle
<1>3. SearchedTaken /\ TakenByRivals /\ ScannedSoFar
  BY <1>2 DEF Init, SearchedTaken, TakenByRivals, ScannedSoFar
<1> QED BY <1>1, <1>3 DEF ScanInvariant

LEMMA StartScanKeeps ==
    ASSUME ScanInvariant, NEW c \in Clients, StartScan(c) PROVE ScanInvariant'
<1> USE DEF StartScan, ScanInvariant
<1>1. TypeOK'
  BY SMT DEF TypeOK, CallType, Idle
<1>2. SearchedTaken' /\ TakenByRivals'
  BY SMT DEF TypeOK, CallType, SearchedTaken, TakenByRivals, Idle
<1>3. ScannedSoFar'
  <2>1. /\ call'[c].op = "scan" /\ call'[c].page = 0
        /\ 0 * SCAN_PAGE = 0
        /\ \A n \in steady'[c] : ~ (n < 0)
    BY PageAssumption, SMT DEF TypeOK, CallType, Idle, Nonces
  <2>2. \A d \in Clients : d # c => call'[d] = call[d] /\ steady'[d] = steady[d]
    BY DEF TypeOK
  <2> QED BY <2>1, <2>2 DEF ScannedSoFar, Page
<1> QED BY <1>1, <1>2, <1>3

LEMMA ScanPageKeeps ==
    ASSUME ScanInvariant, NEW c \in Clients, ScanPage(c) PROVE ScanInvariant'
<1> DEFINE page  == call[c].page
           valid == open \cap Page(page, SCAN_PAGE)
<1>0. page \in Nat /\ steady[c] \subseteq open /\ open \subseteq Nonces
  BY DEF ScanInvariant, TypeOK, CallType
<1>1. TypeOK'
  <2>1. valid \subseteq Nonces
    BY <1>0
  <2> QED BY <2>1, SMT DEF ScanInvariant, TypeOK, CallType, ScanPage
<1>3. ASSUME NEW d \in Clients, d # c
      PROVE  call'[d] = call[d] /\ steady'[d] = steady[d]
  BY <1>3, SMT DEF ScanInvariant, TypeOK, CallType, ScanPage
<1>2. SearchedTaken' /\ TakenByRivals'
  <2>1. UNCHANGED <<open, rivals, taken>> /\ call'[c].op \in {"scan", "scanned", "failed"}
    BY SMT DEF ScanInvariant, TypeOK, CallType, ScanPage
  <2> QED BY <1>3, <2>1 DEF ScanInvariant, SearchedTaken, TakenByRivals, Derivable
<1>4. \A n \in steady[c] : n < page * SCAN_PAGE => n \in call[c].found
  BY DEF ScanInvariant, ScannedSoFar, ScanPage
<1>5. CASE page > MaxPage(SCAN_PAGE)
  <2>1. steady[c] \cap Page(page, SCAN_PAGE) = {}
    <3>1. \A i \in Nonces : i < page * SCAN_PAGE
      BY <1>0, <1>5, PastMaxPage, PageAssumption
    <3>2. \A i \in Nonces : i \notin Page(page, SCAN_PAGE)
      BY <1>0, <3>1, PageAssumption, SMT DEF Page, Nonces
    <3> QED BY <1>0, <3>2
  <2>2. call'[c] = [call[c] EXCEPT !.op = "scanned"] /\ steady' = steady
    <3>1. MaxPage(SCAN_PAGE) \in Int
      BY PageAssumption, SMT DEF MaxPage
    <3>2. ~ (page <= MaxPage(SCAN_PAGE))
      BY <1>0, <1>5, <3>1, SMT
    <3>3. call' = [call EXCEPT ![c].op = "scanned"] /\ steady' = steady
      BY <3>2 DEF ScanPage
    <3> QED BY <3>3 DEF ScanInvariant, TypeOK
  <2>3. ScannedSoFar'
    <3> SUFFICES ASSUME NEW d \in Clients
                 PROVE  /\ call'[d].op \in {"scan", "scanned"} =>
                               \A n \in steady'[d] :
                                   n < call'[d].page * SCAN_PAGE => n \in call'[d].found
                        /\ call'[d].op = "scanned" =>
                               steady'[d] \cap Page(call'[d].page, SCAN_PAGE) = {}
      BY DEF ScannedSoFar, Page
    <3>1. CASE d = c
      <4>1. call'[c].page = page /\ call'[c].found = call[c].found /\ steady'[c] = steady[c]
        BY <2>2 DEF ScanInvariant, TypeOK, CallType
      <4> QED BY <3>1, <4>1, <1>4, <2>1
    <3>2. CASE d # c
      BY <3>2, <1>3 DEF ScanInvariant, ScannedSoFar
    <3> QED BY <3>1, <3>2
  <2> QED BY <1>1, <1>2, <2>3 DEF ScanInvariant
<1>6. CASE ~ (page > MaxPage(SCAN_PAGE)) /\ ~ Derivable(page, SCAN_PAGE)
  <2>1. call'[c] = [call[c] EXCEPT !.op = "failed"] /\ steady' = steady
    BY <1>6, <1>0 DEF ScanInvariant, TypeOK, CallType, ScanPage
  <2>2. ScannedSoFar'
    <3>1. call'[c].op = "failed"
      BY <2>1 DEF ScanInvariant, TypeOK, CallType
    <3> QED BY <3>1, <1>3 DEF ScanInvariant, ScannedSoFar, Page
  <2> QED BY <1>1, <1>2, <2>2 DEF ScanInvariant
<1>7. CASE ~ (page > MaxPage(SCAN_PAGE)) /\ Derivable(page, SCAN_PAGE)
  <2>1. /\ call'[c].found = call[c].found \cup valid
        /\ call'[c].op = IF valid = {} THEN "scanned" ELSE "scan"
        /\ call'[c].page = IF valid = {} THEN page ELSE page + 1
        /\ steady' = steady
    <3>1. call' = [call EXCEPT
                     ![c].found = @ \cup valid,
                     ![c].op    = IF EndsScan(valid) THEN "scanned" ELSE @,
                     ![c].page  = IF EndsScan(valid) THEN @ ELSE @ + 1]
          /\ call[c].op = "scan" /\ steady' = steady
      BY <1>7, Zenon DEF ScanPage
    <3>2. call \in [Clients -> CallType] /\ call[c] \in CallType
      BY DEF ScanInvariant, TypeOK
    <3>3. CASE valid = {}
      <4> HIDE DEF valid
      <4>1. call'[c] = [call[c] EXCEPT !.found = @ \cup valid, !.op = "scanned"]
        BY <3>1, <3>2, <3>3, SMT DEF EndsScan, CallType
      <4> QED BY <3>1, <3>2, <3>3, <4>1, SMT DEF CallType
    <3>4. CASE valid # {}
      <4> HIDE DEF valid
      <4>1. call'[c] = [call[c] EXCEPT !.found = @ \cup valid, !.op = @, !.page = @ + 1]
        BY <3>1, <3>2, <3>4 DEF EndsScan
      <4> QED BY <3>1, <3>2, <3>4, <4>1, SMT DEF CallType
    <3> QED BY <3>3, <3>4
  <2>2. ScannedSoFar'
    <3>1. ASSUME NEW n \in steady[c], n < call'[c].page * SCAN_PAGE
          PROVE  n \in call'[c].found
      <4>1. n < (page + 1) * SCAN_PAGE => n < page * SCAN_PAGE \/ n \in Page(page, SCAN_PAGE)
        BY <1>0, NextPage, PageAssumption
      <4>2. n < page * SCAN_PAGE \/ n \in Page(page, SCAN_PAGE)
        BY <2>1, <3>1, <4>1
      <4> QED BY <4>2, <1>0, <1>4, <2>1
    <3>2. valid = {} => steady[c] \cap Page(page, SCAN_PAGE) = {}
      BY <1>0
    <3>3. call'[c].op = "scanned" => valid = {} /\ call'[c].page = page
      BY <2>1
    <3>4. call'[c].op = "scanned" => steady'[c] \cap Page(call'[c].page, SCAN_PAGE) = {}
      BY <2>1, <3>2, <3>3
    <3>5. \A n \in steady'[c] : n < call'[c].page * SCAN_PAGE => n \in call'[c].found
      BY <2>1, <3>1
    <3> HIDE DEF valid, page
    <3> QED BY <3>4, <3>5, <1>3 DEF ScanInvariant, ScannedSoFar, Page
  <2> QED BY <1>1, <1>2, <2>2 DEF ScanInvariant
<1> QED BY <1>5, <1>6, <1>7

LEMMA StartSearchKeeps ==
    ASSUME ScanInvariant, NEW c \in Clients, StartSearch(c) PROVE ScanInvariant'
<1> USE DEF StartSearch, ScanInvariant
<1>1. TypeOK'
  BY SMT DEF TypeOK, CallType, Idle
<1>2. SearchedTaken'
  <2>1. /\ call'[c].page * NONCE_PAGE = 0 /\ call'[c].op = "search"
        /\ taken'[c] = open /\ open' = open
    BY PageAssumption, SMT DEF TypeOK, CallType, Idle
  <2>2. \A d \in Clients : d # c => call'[d] = call[d] /\ taken'[d] = taken[d]
    BY DEF TypeOK
  <2>3. \A i \in Nonces : ~ (i < 0)
    BY PageAssumption, SMT DEF Nonces
  <2> QED BY <2>1, <2>2, <2>3 DEF SearchedTaken, Derivable
<1>3. TakenByRivals' /\ ScannedSoFar'
  BY SMT DEF TypeOK, CallType, TakenByRivals, ScannedSoFar, Idle, Page
<1> QED BY <1>1, <1>2, <1>3

LEMMA SearchPageKeeps ==
    ASSUME ScanInvariant, NEW c \in Clients, SearchPage(c) PROVE ScanInvariant'
<1> DEFINE page == call[c].page
<1>0. page \in Nat /\ open \subseteq Nonces
  BY DEF ScanInvariant, TypeOK, CallType
<1>1. /\ call[c].op = "search"
      /\ UNCHANGED <<open, steady, rivals, taken>>
      /\ \/ /\ page > MaxPage(NONCE_PAGE) \/ ~ Derivable(page, NONCE_PAGE)
            /\ call' = [call EXCEPT ![c].op = "exhausted"]
         \/ Page(page, NONCE_PAGE) \subseteq open /\ call' = [call EXCEPT ![c].page = @ + 1]
         \/ \E n \in Nonces :
                /\ Chosen(n, page)
                /\ call' = [call EXCEPT ![c].op = "submit", ![c].nonce = n]
  <2>1. Derivable(page, NONCE_PAGE) => Page(page, NONCE_PAGE) \subseteq Nonces
    BY <1>0, PageAssumption, SMT DEF Derivable, Page, Nonces
  <2> QED BY <2>1, Zenon DEF SearchPage
<1>2. /\ open \subseteq taken[c]
      /\ \A i \in Nonces : i < page * NONCE_PAGE => i \in taken[c]
  BY <1>1 DEF ScanInvariant, SearchedTaken
<1>3. CASE /\ page > MaxPage(NONCE_PAGE) \/ ~ Derivable(page, NONCE_PAGE)
           /\ call' = [call EXCEPT ![c].op = "exhausted"]
  <2>1. \A i \in Nonces : Derivable(i \div NONCE_PAGE, NONCE_PAGE) => i \in taken[c]
    BY <1>0, <1>2, <1>3, PagesBehind, PageAssumption
  <2>2. call'[c].op = "exhausted" /\ \A d \in Clients : d # c => call'[d] = call[d]
    BY <1>3 DEF ScanInvariant, TypeOK, CallType
  <2>3. TypeOK'
    <3>1. [call[c] EXCEPT !.op = "exhausted"] \in CallType
      BY SMT DEF ScanInvariant, TypeOK, CallType
    <3>2. call' = [call EXCEPT ![c] = [call[c] EXCEPT !.op = "exhausted"]]
      BY <1>3, Zenon
    <3> QED BY <1>1, <3>1, <3>2, Zenon DEF ScanInvariant, TypeOK
  <2>4. SearchedTaken' /\ TakenByRivals' /\ ScannedSoFar'
    BY <1>1, <2>1, <2>2 DEF ScanInvariant, SearchedTaken, TakenByRivals, ScannedSoFar,
       Page, Derivable
  <2> QED BY <2>3, <2>4 DEF ScanInvariant
<1>4. CASE Page(page, NONCE_PAGE) \subseteq open /\ call' = [call EXCEPT ![c].page = @ + 1]
  <2>1. \A i \in Nonces : i < (page + 1) * NONCE_PAGE => i \in taken[c]
    BY <1>0, <1>2, <1>4, NextPage, PageAssumption
  <2>2. call'[c].page = page + 1 /\ call'[c].op = "search"
    BY <1>1, <1>4 DEF ScanInvariant, TypeOK, CallType
  <2>3. ASSUME NEW d \in Clients, d # c PROVE call'[d] = call[d]
    BY <1>4, <2>3 DEF ScanInvariant, TypeOK, CallType
  <2>4. TypeOK'
    <3>1. [call[c] EXCEPT !.page = @ + 1] \in CallType
      BY SMT DEF ScanInvariant, TypeOK, CallType
    <3>2. call' = [call EXCEPT ![c] = [call[c] EXCEPT !.page = @ + 1]]
      BY <1>4, Zenon
    <3> QED BY <1>1, <3>1, <3>2, Zenon DEF ScanInvariant, TypeOK
  <2>5. TakenByRivals' /\ ScannedSoFar'
    BY <1>1, <2>2, <2>3 DEF ScanInvariant, TakenByRivals, ScannedSoFar, Page
  <2>6. SearchedTaken'
    <3> HIDE DEF page
    <3> QED BY <1>1, <1>2, <2>1, <2>2, <2>3 DEF ScanInvariant, SearchedTaken, Derivable
  <2> QED BY <2>4, <2>5, <2>6 DEF ScanInvariant
<1>5. ASSUME NEW n \in Nonces, Chosen(n, page),
             call' = [call EXCEPT ![c].op = "submit", ![c].nonce = n]
      PROVE  ScanInvariant'
  <2>1. n \notin open /\ n \in Page(page, NONCE_PAGE)
    BY <1>5 DEF Chosen
  <2>2. ASSUME NEW i \in Nonces, i < n PROVE i \in taken[c]
    <3>1. i < (page + 1) * NONCE_PAGE
      BY <1>0, <2>1, <2>2, PageAssumption, SMT DEF Page, Nonces
    <3>2. CASE i < page * NONCE_PAGE
      BY <1>2, <3>2
    <3>3. CASE i \in Page(page, NONCE_PAGE)
      <4>1. i \notin open => n <= i
        BY <1>5, <3>3 DEF Chosen
      <4>2. i \in open
        BY <2>2, <4>1, PageAssumption, SMT DEF Nonces
      <4> QED BY <1>2, <4>2
    <3> QED BY <1>0, <3>1, <3>2, <3>3, NextPage, PageAssumption
  <2>3. /\ call'[c].op = "submit" /\ call'[c].nonce = n
        /\ \A d \in Clients : d # c => call'[d] = call[d]
    BY <1>5, SMT DEF ScanInvariant, TypeOK, CallType
  <2>4. TypeOK'
    <3> DEFINE chosen == [op |-> "submit", page |-> page, found |-> call[c].found, nonce |-> n]
    <3>1. chosen \in CallType
      BY DEF ScanInvariant, TypeOK, CallType
    <3>2. call'[c] = chosen
      BY <1>5 DEF ScanInvariant, TypeOK, CallType
    <3>3. \A d \in Clients : call'[d] \in CallType
      BY <2>3, <3>1, <3>2 DEF ScanInvariant, TypeOK
    <3>4. call' = [d \in Clients |-> call'[d]]
      BY <1>5 DEF ScanInvariant, TypeOK
    <3>5. call' \in [Clients -> CallType]
      BY <3>3, <3>4
    <3> QED BY <1>1, <3>5 DEF ScanInvariant, TypeOK
  <2>5. SearchedTaken'
    BY <1>1, <2>2, <2>3 DEF ScanInvariant, SearchedTaken, Derivable
  <2>6. TakenByRivals' /\ ScannedSoFar'
    BY <1>1, <2>1, <2>3 DEF ScanInvariant, TakenByRivals, ScannedSoFar, Page
  <2> QED BY <2>4, <2>5, <2>6 DEF ScanInvariant
<1> QED BY <1>1, <1>3, <1>4, <1>5

\* A deposit that is accepted, whoever makes it.
LEMMA TakeKeeps ==
    ASSUME ScanInvariant, NEW n \in Nonces, NEW submitters \in SUBSET Clients,
           Take(n, submitters), steady' = steady,
           call' = [c \in Clients |-> IF c \in submitters THEN Idle ELSE call[c]]
    PROVE  ScanInvariant'
<1>1. open' = open \cup {n}
  BY DEF Take
<1>2. ASSUME NEW c \in Clients, c \in submitters
      PROVE  call'[c] = Idle /\ call'[c].op = "idle"
  BY <1>2 DEF Idle
<1>3. ASSUME NEW c \in Clients, c \notin submitters
      PROVE  /\ call'[c] = call[c]
             /\ call[c].op = "search" => taken'[c] = taken[c] \cup {n}
             /\ call[c].op # "search" => taken'[c] = taken[c]
             /\ call[c].op \in {"search", "submit"} => rivals'[c]
             /\ rivals[c] => rivals'[c]
  <2>1. call'[c] = call[c]
    BY <1>3
  <2>2. taken'[c] = IF call[c].op = "search" THEN taken[c] \cup {n} ELSE taken[c]
    BY <1>3, Zenon DEF Take
  <2>3. rivals'[c] = (rivals[c] \/ call[c].op \in {"search", "submit"})
    BY <1>3, Zenon DEF Take
  <2> QED BY <2>1, <2>2, <2>3
<1>4. TypeOK'
  <2>1. open' \in SUBSET Nonces
    BY <1>1 DEF ScanInvariant, TypeOK
  <2>2. call' \in [Clients -> CallType]
    BY IdleTyped DEF ScanInvariant, TypeOK
  <2>3. steady' \in [Clients -> SUBSET open']
    BY <1>1, Zenon DEF ScanInvariant, TypeOK
  <2>4. rivals' \in [Clients -> BOOLEAN]
    BY Zenon DEF Take, ScanInvariant, TypeOK
  <2>5. taken' \in [Clients -> SUBSET Nonces]
    BY SMT DEF Take, ScanInvariant, TypeOK
  <2> QED BY <2>1, <2>2, <2>3, <2>4, <2>5 DEF TypeOK
<1>5. SearchedTaken'
  <2> SUFFICES ASSUME NEW c \in Clients
               PROVE  /\ call'[c].op = "search" => open' \subseteq taken'[c]
                      /\ call'[c].op = "search" =>
                             \A i \in Nonces :
                                 i < call'[c].page * NONCE_PAGE => i \in taken'[c]
                      /\ call'[c].op \in {"submit", "rejected"} =>
                             \A i \in Nonces : i < call'[c].nonce => i \in taken'[c]
                      /\ call'[c].op = "exhausted" =>
                             \A i \in Nonces :
                                 Derivable(i \div NONCE_PAGE, NONCE_PAGE) => i \in taken'[c]
    BY DEF SearchedTaken, Derivable
  <2>1. CASE c \in submitters
    BY <1>2, <2>1
  <2>2. CASE c \notin submitters
    BY <1>1, <1>3, <2>2 DEF ScanInvariant, SearchedTaken
  <2> QED BY <2>1, <2>2
<1>6. TakenByRivals'
  BY <1>2, <1>3 DEF ScanInvariant, TakenByRivals
<1>7. ScannedSoFar'
  BY <1>2, <1>3 DEF ScanInvariant, ScannedSoFar, Page
<1> QED BY <1>4, <1>5, <1>6, <1>7 DEF ScanInvariant

LEMMA SubmitKeeps ==
    ASSUME ScanInvariant, NEW c \in Clients, Submit(c) PROVE ScanInvariant'
<1> DEFINE n == call[c].nonce
<1>0. n \in Nonces /\ call[c].op = "submit" /\ steady' = steady
  BY DEF ScanInvariant, TypeOK, CallType, Submit
<1>1. CASE Take(n, {c}) /\ call' = [call EXCEPT ![c] = Idle]
  <2>1. call' = [d \in Clients |-> IF d \in {c} THEN Idle ELSE call[d]]
    BY <1>1 DEF ScanInvariant, TypeOK
  <2> QED BY <1>0, <1>1, <2>1, TakeKeeps
<1>2. CASE /\ n \in open
           /\ call' = [call EXCEPT ![c].op = "rejected"]
           /\ UNCHANGED <<open, rivals, taken>>
  <2>1. rivals[c]
    BY <1>0, <1>2 DEF ScanInvariant, TakenByRivals
  <2>2. /\ call'[c].op = "rejected" /\ call'[c].nonce = n
        /\ \A d \in Clients : d # c => call'[d] = call[d]
    BY <1>2 DEF ScanInvariant, TypeOK, CallType
  <2>3. TypeOK'
    BY <1>0, <1>2, SMT DEF ScanInvariant, TypeOK, CallType
  <2>4. SearchedTaken'
    BY <1>0, <1>2, <2>2 DEF ScanInvariant, SearchedTaken, Derivable
  <2>5. TakenByRivals' /\ ScannedSoFar'
    BY <1>0, <1>2, <2>1, <2>2 DEF ScanInvariant, TakenByRivals, ScannedSoFar, Page
  <2> QED BY <2>3, <2>4, <2>5 DEF ScanInvariant
<1> QED BY <1>1, <1>2 DEF Submit

LEMMA DepositKeeps ==
    ASSUME ScanInvariant, NEW n \in Nonces, Deposit(n) PROVE ScanInvariant'
<1>1. call' = [c \in Clients |-> IF c \in {} THEN Idle ELSE call[c]]
  BY DEF Deposit, ScanInvariant, TypeOK
<1> QED BY <1>1, TakeKeeps DEF Deposit

LEMMA WithdrawKeeps ==
    ASSUME ScanInvariant, NEW n \in Nonces, Withdraw(n) PROVE ScanInvariant'
<1> USE DEF Withdraw, ScanInvariant
<1>1. TypeOK'
  BY SMT DEF TypeOK, CallType
<1>2. SearchedTaken'
  BY DEF SearchedTaken, Derivable
<1>3. TakenByRivals'
  BY DEF TakenByRivals
<1>4. ScannedSoFar'
  <2>1. \A c \in Clients : steady'[c] \subseteq steady[c] /\ call' = call
    BY DEF TypeOK, CallType
  <2> QED BY <2>1 DEF ScannedSoFar, Page
<1> QED BY <1>1, <1>2, <1>3, <1>4

LEMMA ReturnKeeps ==
    ASSUME ScanInvariant, NEW c \in Clients, Return(c) PROVE ScanInvariant'
<1>1. TypeOK'
  BY PageAssumption, SMT DEF Return, ScanInvariant, TypeOK, CallType, Idle, Nonces
<1>2. /\ call'[c].op = "idle" /\ UNCHANGED open
      /\ \A d \in Clients : d # c => /\ call'[d] = call[d] /\ steady'[d] = steady[d]
                                     /\ rivals'[d] = rivals[d] /\ taken'[d] = taken[d]
  BY DEF Return, ScanInvariant, TypeOK, Idle
<1>3. SearchedTaken' /\ TakenByRivals' /\ ScannedSoFar'
  BY <1>2 DEF ScanInvariant, SearchedTaken, TakenByRivals, ScannedSoFar, Page, Derivable
<1> QED BY <1>1, <1>3 DEF ScanInvariant

\* The inductive invariant of the SDK's receipt calls.
THEOREM ScanIsInvariant == Spec => []ScanInvariant
<1>1. ScanInvariant /\ [Next]_vars => ScanInvariant'
  <2> SUFFICES ASSUME ScanInvariant, [Next]_vars PROVE ScanInvariant'
    OBVIOUS
  <2>1. CASE UNCHANGED vars
    BY <2>1 DEF vars, ScanInvariant, TypeOK, CallType, SearchedTaken, TakenByRivals,
       ScannedSoFar, Page, Derivable
  <2>2. CASE Next
    BY <2>2, StartScanKeeps, ScanPageKeeps, StartSearchKeeps, SearchPageKeeps, SubmitKeeps,
       DepositKeeps, WithdrawKeeps, ReturnKeeps DEF Next
  <2> QED BY <2>1, <2>2
<1> QED BY <1>1, ScanInit, PTL DEF Spec

-----------------------------------------------------------------------------
\* No scan or search, however far it gets, leaves the nonces a u32 can hold
\* (utils.ts:115-137).
THEOREM NoncesStayDerivable == Spec => []TypeOK
<1>1. ScanInvariant => TypeOK
  BY DEF ScanInvariant
<1> QED BY <1>1, ScanIsInvariant, PTL

\* A search passes over an address, or gives up, only because of receipts that
\* were there at some moment of it (utils.ts:117-141).
THEOREM SearchesSkipTakenOnly == Spec => []SearchSkipsTakenOnly
<1>1. ScanInvariant => SearchSkipsTakenOnly
  <2> SUFFICES ASSUME ScanInvariant, NEW c \in Clients
               PROVE  /\ call[c].op \in {"submit", "rejected"} =>
                             0..(call[c].nonce - 1) \subseteq taken[c]
                      /\ call[c].op = "exhausted" =>
                             \A n \in Nonces :
                                 Derivable(n \div NONCE_PAGE, NONCE_PAGE) => n \in taken[c]
    BY DEF SearchSkipsTakenOnly
  <2>1. call[c].nonce \in Nonces
    BY DEF ScanInvariant, TypeOK, CallType
  <2>2. \A i \in 0..(call[c].nonce - 1) : i \in Nonces /\ i < call[c].nonce
    BY <2>1, PageAssumption, SMT DEF Nonces
  <2> QED BY <2>2 DEF ScanInvariant, SearchedTaken
<1> QED BY <1>1, ScanIsInvariant, PTL

\* A deposit with a searched nonce loses only to another deposit
\* (utils.ts:134-137, deposit.rs:47-58).
THEOREM RejectionsHaveRivals == Spec => []RejectedOnlyByRivals
<1>1. ScanInvariant => RejectedOnlyByRivals
  BY DEF ScanInvariant, TakenByRivals, RejectedOnlyByRivals
<1> QED BY <1>1, ScanIsInvariant, PTL

\* A scan misses a steady receipt only behind a page that lost all of its own
\* (utils.ts:50-103).
THEOREM ScansFindCovered == Spec => []ScanFindsCovered
<1>1. ScanInvariant => ScanFindsCovered
  <2> SUFFICES ASSUME ScanInvariant, NEW c \in Clients, call[c].op = "scanned",
                      NEW n \in steady[c],
                      \A p \in 0..(n \div SCAN_PAGE) : steady[c] \cap Page(p, SCAN_PAGE) # {}
               PROVE  n \in call[c].found
    BY DEF ScanFindsCovered
  <2> DEFINE page == call[c].page
             own  == n \div SCAN_PAGE
  <2>1. page \in Nat /\ n \in Nat
    BY PageAssumption, SMT DEF ScanInvariant, TypeOK, CallType, Nonces
  <2>2. own \in Nat /\ n < own * SCAN_PAGE + SCAN_PAGE
    BY <2>1, PageAssumption, SMT
  <2>3. page \notin 0..own
    BY DEF ScanInvariant, ScannedSoFar
  <2> HIDE DEF own, page
  <2>4. own + 1 <= page
    BY <2>1, <2>2, <2>3, SMT
  <2>5. (own + 1) * SCAN_PAGE <= page * SCAN_PAGE
    BY <2>1, <2>2, <2>4, PageAssumption, SMT
  <2>6. n < page * SCAN_PAGE
    BY <2>1, <2>2, <2>5, PageAssumption, SMT
  <2> QED BY <2>6 DEF page, ScanInvariant, ScannedSoFar
<1> QED BY <1>1, ScanIsInvariant, PTL

=============================================================================
