------------------------- MODULE TxManagerProofs ----------------------------
(***************************************************************************)
(* Proofs about TxManager, for every number of candidates, of places in    *)
(* the queue, of confirmations and of faults, every width of a nonce that  *)
(* holds the candidates, and every fee market.                             *)
(***************************************************************************)
EXTENDS TxManager, SequenceTheorems, FunctionTheorems, FiniteSetTheorems, TLAPS

-----------------------------------------------------------------------------
(* The inductive invariant. *)

Modulus == 2 ^ NonceBits
Sending == {"publish", "loop"}            \* sends that have a transaction
Crafted == {s \in Sends : pc[s] \notin {"new", "craft"}}

Waiter == [tx : Tx, at : Nat]

Types ==
  /\ nonce = << >> \/ nonce \in {<<n>> : n \in 0..Modulus - 1}
  /\ next \in 1..N + 1 /\ inGo \in BOOLEAN /\ groupErr \in BOOLEAN /\ killed \in BOOLEAN
  /\ inGo => next \in Sends
  /\ pc \in [Sends -> InGroup \cup {"new", "done"}]
  /\ tx \in [Sends -> Tx \cup {NoTx}] /\ receipt \in [Sends -> Tx \cup {NoTx}]
  /\ ss \in [Sends -> [minedTxs : SUBSET Tx, nonceTooLowCount : Nat, published : BOOLEAN]]
  /\ waiters \in [Sends -> SUBSET Waiter]
  /\ result \in [Sends -> {"none", "receipt", "error"}]
  /\ pool \in SUBSET Tx /\ chain \in Seq(Tx \cup {NoTx}) /\ unseen \in SUBSET Tx
  /\ faults \in 0..MaxFaults

(* A send has a transaction, goroutines and a receipt channel while it publishes, all of them   *)
(* its own, and a result when it has ended.                                                     *)
Owned ==
  /\ \A s \in Sends : s >= next => pc[s] = "new"
  /\ \A s \in Sends : IF pc[s] \in Sending THEN tx[s] \in Tx /\ tx[s].send = s
                      ELSE tx[s] = NoTx /\ receipt[s] = NoTx /\ waiters[s] = {}
  /\ \A s \in Sends : receipt[s] # NoTx => receipt[s].send = s
  /\ \A s \in Sends : \A w \in waiters[s] : w.tx.send = s
  /\ \A s \in Sends : result[s] = "none" <=> pc[s] \in Sending \cup {"new", "craft"}

(* Every version of a transaction there is. *)
Versions ==
  pool \cup Txs \cup unseen \cup ({tx[s] : s \in Sends} \ {NoTx}) \cup ({receipt[s] : s \in Sends} \ {NoTx})
    \cup {w.tx : w \in UNION {waiters[s] : s \in Sends}}

(* A send is given one nonce. *)
OneNonce ==
  /\ \A t, u \in Versions : t.send = u.send => t.nonce = u.nonce
  /\ \A t \in Versions : t.send \in Crafted

(* The chain holds one transaction for each nonce up to the account's, in order. *)
ChainInOrder ==
  /\ IsFiniteSet(Txs)
  /\ \A i, j \in DOMAIN chain : i < j /\ chain[i] # NoTx /\ chain[j] # NoTx
                                  => chain[i].nonce < chain[j].nonce
  /\ \A t \in Txs : t.nonce < AccountNonce
  /\ \A n \in 0..AccountNonce - 1 : \E t \in Txs : t.nonce = n

(* No more nonces are given than there are sends. *)
Counted == nonce # << >> => NextNonce <= Cardinality(Crafted)

(* A block with enough blocks on top. *)
Deep(h) == h \in DOMAIN chain /\ Confirmed(h, Len(chain))

(* What a goroutine of waitForTx has seen on the chain is there, or left it unnoticed; what it  *)
(* reported, and what Send returned, is too deep to leave it.                                   *)
Lasting ==
  /\ \A s \in Sends : \A w \in waiters[s] :
       w.at > 0 => w.at \in DOMAIN chain /\ (chain[w.at] = w.tx \/ w.tx \in unseen)
  /\ \A s \in Sends : receipt[s] # NoTx =>
       receipt[s] \in unseen \/ \E h \in 1..Len(chain) : Deep(h) /\ chain[h] = receipt[s]
  /\ \A s \in Sends : result[s] = "receipt" =>
       \/ \E t \in unseen : t.send = s
       \/ \E h \in 1..Len(chain) : Deep(h) /\ chain[h] # NoTx /\ chain[h].send = s

(* A nonce that somebody takes care of. *)
Filled(n) ==
  \/ \E s \in Sends : pc[s] \in Sending /\ tx[s].nonce = n
  \/ \E t \in unseen : t.nonce = n

Gapless == nonce # << >> => \A n \in AccountNonce..NextNonce - 1 : Filled(n)

(* In a healthy group the nonces are given in order. *)
InTurn ==
  Healthy =>
    /\ \A s \in Sends : pc[s] \in Sending => nonce # << >> /\ tx[s].nonce < NextNonce
    /\ \A s, t \in Sends : s # t /\ pc[s] \in Sending /\ pc[t] \in Sending => tx[s].nonce # tx[t].nonce

Inv == Types /\ Owned /\ OneNonce /\ ChainInOrder /\ Counted /\ Lasting /\ Gapless /\ InTurn

-----------------------------------------------------------------------------
(* Numbers. *)

(* Nonces wrap around. *)
LEMMA Wrap ==
  ASSUME NEW n \in 0..Modulus - 1
  PROVE  /\ Modulus \in Nat /\ Modulus > N
         /\ (n + 1) % Modulus = IF n + 1 = Modulus THEN 0 ELSE n + 1
         /\ (n - 1) % Modulus = IF n = 0 THEN Modulus - 1 ELSE n - 1
<1> DEFINE M == Modulus
<1>1. M \in Nat /\ M > N /\ N \in Nat \ {0} /\ n \in 0..M - 1
  BY TxManagerAssumption DEF Modulus
<1> HIDE DEF M
<1>2. M \in Nat \ {0} /\ \A k \in 0..M - 1 : k % M = k
  BY <1>1
<1>3. M % M = 0 /\ (-1) % M = M - 1
  BY <1>2
<1>4. (n + 1) % M = IF n + 1 = M THEN 0 ELSE n + 1
  <2>1. CASE n + 1 = M
    BY <1>3, <2>1
  <2>2. CASE n + 1 # M
    <3>1. n + 1 \in 0..M - 1
      BY <1>1, <2>2
    <3> QED BY <1>2, <2>2, <3>1
  <2> QED BY <2>1, <2>2
<1>5. (n - 1) % M = IF n = 0 THEN M - 1 ELSE n - 1
  <2>1. CASE n = 0
    <3>1. n - 1 = -1
      BY <2>1
    <3> QED BY <1>3, <2>1, <3>1
  <2>2. CASE n # 0
    <3>1. n - 1 \in 0..M - 1
      BY <1>1, <2>2
    <3> QED BY <1>2, <2>2, <3>1
  <2> QED BY <2>1, <2>2
<1> QED BY <1>1, <1>4, <1>5 DEF M

LEMMA Constants ==
  /\ N \in Nat \ {0} /\ Sends \subseteq Nat /\ Sends = 1..N /\ Modulus \in Nat /\ Modulus > N
  /\ NoTx \notin Tx /\ NoTx.send = 0 /\ MaxFaults \in Nat /\ NumConfirmations \in Nat \ {0}
  /\ \A t \in Tx : t.send \in Sends /\ t.nonce \in 0..N /\ t.nonce \in Nat /\ t.tip \in Nat /\ t.cap \in Nat
<1>1. /\ N \in Nat \ {0} /\ Modulus \in Nat /\ Modulus > N /\ MaxFaults \in Nat
      /\ NumConfirmations \in Nat \ {0}
  BY TxManagerAssumption DEF Modulus
<1>2. Sends \subseteq Nat /\ Sends = 1..N
  BY <1>1 DEF Sends
<1>3. NoTx.send = 0
  BY DEF NoTx
<1>4. \A t \in Tx : t.send \in Sends /\ t.nonce \in 0..N /\ t.tip \in Nat /\ t.cap \in Nat
  BY DEF Tx
<1>5. 0 \notin Sends
  BY <1>2
<1>6. \A t \in Tx : t.nonce \in Nat
  BY <1>1, <1>4
<1> QED BY <1>1, <1>2, <1>3, <1>4, <1>5, <1>6

(* The manager's next nonce. *)
LEMMA NextNonceType ==
  ASSUME Types, nonce # << >>
  PROVE  /\ nonce[1] \in 0..Modulus - 1 /\ NextNonce \in 0..Modulus - 1
         /\ NextNonce = IF nonce[1] + 1 = Modulus THEN 0 ELSE nonce[1] + 1
<1>1. PICK n \in 0..Modulus - 1 : nonce = <<n>>
  BY DEF Types
<1>2. nonce[1] = n
  BY <1>1
<1>3. NextNonce = (n + 1) % Modulus
  BY <1>1, <1>2 DEF NextNonce, Modulus
<1>4. NextNonce = IF n + 1 = Modulus THEN 0 ELSE n + 1
  BY <1>3, Wrap
<1>5. Modulus \in Nat /\ Modulus > N /\ N \in Nat
  BY Constants
<1>6. NextNonce \in 0..Modulus - 1
  BY <1>4, <1>5
<1> QED BY <1>2, <1>4, <1>6

(* The sends that were given a nonce are finitely many. *)
LEMMA CraftedFinite ==
  /\ IsFiniteSet(Sends) /\ Cardinality(Sends) = N
  /\ IsFiniteSet(Crafted) /\ Cardinality(Crafted) \in 0..N
<1>1. IsFiniteSet(Sends) /\ Cardinality(Sends) = N
  BY Constants, FS_Interval
<1>2. Crafted \in SUBSET Sends
  BY DEF Crafted
<1>3. IsFiniteSet(Crafted) /\ Cardinality(Crafted) <= Cardinality(Sends)
  BY <1>1, <1>2, FS_Subset
<1>4. Cardinality(Crafted) \in Nat
  BY <1>3, FS_CardinalityType
<1> QED BY <1>1, <1>3, <1>4, Constants

(* There is a nonce left for a send that was given none. *)
LEMMA CraftedRoom ==
  ASSUME NEW s \in Sends, pc[s] = "craft"
  PROVE  Cardinality(Crafted) < N
<1>1. Crafted \in SUBSET (Sends \ {s})
  BY DEF Crafted
<1>2. IsFiniteSet(Sends \ {s}) /\ Cardinality(Sends \ {s}) = N - 1
  BY CraftedFinite, FS_RemoveElement
<1>3. Cardinality(Crafted) <= N - 1
  BY <1>1, <1>2, FS_Subset
<1> QED BY <1>3, CraftedFinite, Constants

(* The account has as many transactions on the chain as sends have put there. *)
LEMMA AccountBound ==
  ASSUME Types, OneNonce, ChainInOrder
  PROVE  AccountNonce \in 0..Cardinality(Crafted)
<1>1. IsFiniteSet(Txs) /\ Txs \subseteq Versions
  BY DEF ChainInOrder, Versions
<1>2. \A t, u \in Txs : t.nonce = u.nonce => t = u
  <2> SUFFICES ASSUME NEW t \in Txs, NEW u \in Txs, t.nonce = u.nonce PROVE t = u
    OBVIOUS
  <2>1. PICK i \in DOMAIN chain, j \in DOMAIN chain : t = chain[i] /\ u = chain[j] /\ t # NoTx /\ u # NoTx
    BY DEF Txs
  <2>2. DOMAIN chain = 1..Len(chain) /\ Len(chain) \in Nat
    BY DEF Types
  <2>3. i \in Nat /\ j \in Nat
    BY <2>2
  <2>4. t \in Tx /\ u \in Tx
    BY <2>1, <2>2, ElementOfSeq DEF Types
  <2>5. t.nonce \in Nat /\ u.nonce \in Nat
    BY <2>4, Constants
  <2>6. ~(i < j) /\ ~(j < i)
    BY <2>1, <2>5 DEF ChainInOrder
  <2>7. i = j
    BY <2>3, <2>6
  <2> QED BY <2>1, <2>7
<1>3. \A t, u \in Txs : t.send = u.send => t = u
  BY <1>1, <1>2 DEF OneNonce
<1> DEFINE f == [t \in Txs |-> t.send]
<1>4. f \in Injection(Txs, Crafted)
  <2>1. f \in [Txs -> Crafted]
    BY <1>1 DEF OneNonce
  <2>2. \A t, u \in Txs : f[t] = f[u] => t = u
    BY <1>3
  <2> QED BY <2>1, <2>2, Fun_IsInj
<1>5. Cardinality(Txs) <= Cardinality(Crafted)
  BY <1>4, CraftedFinite, FS_Injection
<1>6. Cardinality(Txs) \in Nat
  BY <1>1, FS_CardinalityType
<1> QED BY <1>5, <1>6, CraftedFinite DEF AccountNonce

LEMMA NextNonceBound ==
  ASSUME Types, OneNonce, ChainInOrder, Counted
  PROVE  NextNonce \in 0..Cardinality(Crafted)
<1>1. CASE nonce = << >>
  BY <1>1, AccountBound DEF NextNonce
<1>2. CASE nonce # << >>
  BY <1>2, NextNonceType, CraftedFinite, Constants DEF Counted
<1> QED BY <1>1, <1>2

-----------------------------------------------------------------------------
(* What the actions have in common. *)

LEMMA InitInv == Init => Inv
<1> SUFFICES ASSUME Init PROVE Inv
  OBVIOUS
<1>1. /\ nonce = << >> /\ next = 1 /\ chain = << >> /\ pool = {} /\ unseen = {} /\ faults = 0
      /\ inGo = FALSE /\ groupErr = FALSE /\ killed = FALSE
      /\ \A s \in Sends : /\ pc[s] = "new" /\ tx[s] = NoTx /\ waiters[s] = {} /\ receipt[s] = NoTx
                          /\ result[s] = "none" /\ ss[s] = NewSendState
  BY DEF Init
<1>2. Types
  <2>1. NewSendState \in [minedTxs : SUBSET Tx, nonceTooLowCount : Nat, published : BOOLEAN]
    BY DEF NewSendState
  <2>2. 1 \in 1..N + 1 /\ 0 \in 0..MaxFaults /\ << >> \in Seq(Tx \cup {NoTx})
    BY Constants
  <2> QED BY <2>1, <2>2 DEF Init, Types, InGroup
<1>3. Owned
  BY <1>1 DEF Owned, Sending
<1>4. Txs = {} /\ Versions = {} /\ AccountNonce = 0
  <2>1. Txs = {}
    BY <1>1 DEF Txs
  <2>2. Versions = {}
    BY <1>1, <2>1 DEF Versions
  <2> QED BY <2>1, <2>2, FS_EmptySet DEF AccountNonce
<1>5. OneNonce
  BY <1>4 DEF OneNonce
<1>6. ChainInOrder
  BY <1>1, <1>4, FS_EmptySet DEF ChainInOrder
<1>7. Counted /\ Gapless
  BY <1>1 DEF Counted, Gapless
<1>8. Lasting
  BY <1>1 DEF Lasting
<1>9. InTurn
  BY <1>1 DEF InTurn, Sending
<1> QED BY <1>2, <1>3, <1>5, <1>6, <1>7, <1>8, <1>9 DEF Inv

(* A step that makes no version of a send with another nonce. *)
LEMMA OneNonceKept ==
  ASSUME OneNonce, Crafted \subseteq Crafted',
         \A t \in Versions' : \E u \in Versions : u.send = t.send /\ u.nonce = t.nonce
  PROVE  OneNonce'
<1>1. ASSUME NEW t \in Versions', NEW u \in Versions', t.send = u.send PROVE t.nonce = u.nonce
  <2>1. PICK v \in Versions : v.send = t.send /\ v.nonce = t.nonce
    OBVIOUS
  <2>2. PICK w \in Versions : w.send = u.send /\ w.nonce = u.nonce
    OBVIOUS
  <2> QED BY <1>1, <2>1, <2>2 DEF OneNonce
<1>2. ASSUME NEW t \in Versions' PROVE t.send \in Crafted'
  BY DEF OneNonce
<1> QED BY <1>1, <1>2 DEF OneNonce

(* The versions, one kind at a time. *)
LEMMA VersionCases ==
  \A t : t \in Versions <=>
    \/ t \in pool \/ t \in Txs \/ t \in unseen
    \/ t # NoTx /\ \E s \in Sends : t = tx[s] \/ t = receipt[s]
    \/ \E s \in Sends : \E w \in waiters[s] : t = w.tx
BY DEF Versions

LEMMA ChainUnchanged ==
  ASSUME chain' = chain
  PROVE  /\ Txs' = Txs /\ AccountNonce' = AccountNonce
         /\ ChainInOrder => ChainInOrder'
         /\ \A h : Deep(h)' <=> Deep(h)
<1>1. Txs' = Txs /\ AccountNonce' = AccountNonce
  BY DEF Txs, AccountNonce
<1> QED BY <1>1 DEF ChainInOrder, Deep, Confirmed

(* The number of sends that were given a nonce does not decrease. *)
LEMMA CraftedGrows ==
  ASSUME Crafted \subseteq Crafted'
  PROVE  Cardinality(Crafted) <= Cardinality(Crafted') /\ IsFiniteSet(Crafted')
<1>1. Crafted' \in SUBSET Sends
  BY DEF Crafted
<1>2. IsFiniteSet(Crafted')
  BY <1>1, CraftedFinite, FS_Subset
<1> QED BY <1>2, FS_Subset

LEMMA CountedKept ==
  ASSUME Types, Counted, nonce' = nonce, Crafted \subseteq Crafted'
  PROVE  Counted' /\ (nonce # << >> => NextNonce' = NextNonce)
<1>1. nonce # << >> => NextNonce' = NextNonce
  BY DEF NextNonce
<1>2. Cardinality(Crafted) <= Cardinality(Crafted')
  BY CraftedGrows
<1>3. Cardinality(Crafted) \in Nat /\ Cardinality(Crafted)' \in Nat
  BY CraftedFinite, CraftedGrows, FS_CardinalityType
<1>4. nonce # << >> => NextNonce \in Nat
  <2>1. Modulus \in Nat
    BY Constants
  <2> QED BY <2>1, NextNonceType
<1> QED BY <1>1, <1>2, <1>3, <1>4 DEF Counted

(* A step that leaves the nonces and who has them alone. *)
LEMMA NoncesKept ==
  ASSUME Inv, nonce' = nonce, chain' = chain, unseen' = unseen, Crafted \subseteq Crafted',
         \A s \in Sends : pc'[s] \in Sending <=> pc[s] \in Sending,
         \A s \in Sends : pc[s] \in Sending => tx'[s].nonce = tx[s].nonce,
         Healthy' => Healthy \/ \A s \in Sends : pc[s] \notin Sending
  PROVE  ChainInOrder' /\ Counted' /\ Gapless' /\ InTurn'
<1>1. ChainInOrder' /\ AccountNonce' = AccountNonce
  BY ChainUnchanged DEF Inv
<1>2. Counted' /\ (nonce # << >> => NextNonce' = NextNonce)
  BY CountedKept DEF Inv
<1>3. Gapless'
  <2>1. \A n : Filled(n) => Filled(n)'
    BY DEF Filled
  <2> QED BY <1>1, <1>2, <2>1 DEF Inv, Gapless
<1>4. InTurn'
  BY <1>2 DEF Inv, InTurn
<1> QED BY <1>1, <1>2, <1>3, <1>4

(* A remote call fails. *)
LEMMA FaultType ==
  ASSUME Types
  PROVE  /\ CallFails => faults' \in 0..MaxFaults
         /\ Fault => faults' \in 0..MaxFaults
         /\ NoFault => faults' \in 0..MaxFaults
BY Constants DEF Types, CallFails, Fault, NoFault

(* CraftFails, TickAbort and CtxDone. *)
LEMMA FailKeepsInv ==
  ASSUME Inv, NEW s \in Sends, pc[s] \in {"craft", "loop"}, Fail(s), faults' \in 0..MaxFaults
  PROVE  Inv'
<1>1. /\ nonce' = << >> /\ pc' = [pc EXCEPT ![s] = "report"] /\ result' = [result EXCEPT ![s] = "error"]
      /\ tx' = [tx EXCEPT ![s] = NoTx] /\ ss' = [ss EXCEPT ![s] = NewSendState]
      /\ waiters' = [waiters EXCEPT ![s] = {}] /\ receipt' = [receipt EXCEPT ![s] = NoTx]
      /\ UNCHANGED <<next, inGo, groupErr, killed, pool, chain, unseen>>
  BY DEF Fail, Clear, queueVars, l1Vars
<1>2. Types'
  <2>1. NewSendState \in [minedTxs : SUBSET Tx, nonceTooLowCount : Nat, published : BOOLEAN]
    BY DEF NewSendState
  <2> QED BY <1>1, <2>1 DEF Inv, Types, InGroup
<1>3. Owned'
  <2>1. pc[s] # "new"
    OBVIOUS
  <2> QED BY <1>1, <2>1 DEF Inv, Types, Owned, Sending
<1>4. OneNonce'
  <2>1. Crafted \subseteq Crafted'
    BY <1>1 DEF Crafted, Inv, Types
  <2>2. Txs' = Txs
    BY <1>1, ChainUnchanged
  <2>3. \A t \in Versions' : t \in Versions
    BY <1>1, <2>2 DEF Versions, Inv, Types
  <2> QED BY <2>1, <2>3, OneNonceKept DEF Inv
<1>5. ChainInOrder' /\ \A h : Deep(h)' <=> Deep(h)
  BY <1>1, ChainUnchanged DEF Inv
<1>6. Counted' /\ Gapless'
  BY <1>1 DEF Counted, Gapless
<1>7. Lasting'
  BY <1>1, <1>5 DEF Inv, Types, Lasting
<1>8. InTurn'
  BY <1>1 DEF Inv, Types, InTurn, Healthy, Failing
<1> QED BY <1>2, <1>3, <1>4, <1>5, <1>6, <1>7, <1>8 DEF Inv

(* SkipPublish, Published, Refused, Underpriced, SendTransactionFails and TickPublish: a send   *)
(* that publishes goes on, perhaps with another version and another goroutine.                  *)
LEMMA SendingKeepsInv ==
  ASSUME Inv, NEW s \in Sends, pc[s] \in Sending, NEW p \in Sending, pc' = [pc EXCEPT ![s] = p],
         NEW v \in Tx, v.send = s, v.nonce = tx[s].nonce, tx' = [tx EXCEPT ![s] = v],
         pool' \in {pool, InPool(tx[s])},
         waiters' \in {waiters, [waiters EXCEPT ![s] = @ \cup {[tx |-> tx[s], at |-> 0]}]},
         ss' \in [Sends -> [minedTxs : SUBSET Tx, nonceTooLowCount : Nat, published : BOOLEAN]],
         faults' \in 0..MaxFaults,
         UNCHANGED <<nonce, next, inGo, groupErr, killed, receipt, result, chain, unseen>>
  PROVE  Inv'
<1>1. tx[s] \in Tx /\ tx[s].send = s /\ tx[s] # NoTx
  BY Constants DEF Inv, Owned
<1> DEFINE W == waiters'[s]
<1>2. /\ waiters' = [waiters EXCEPT ![s] = W]
      /\ W \subseteq Waiter
      /\ \A w \in W : w \in waiters[s] \/ (w.tx = tx[s] /\ w.at = 0)
  BY <1>1 DEF Inv, Types, Waiter
<1> HIDE DEF W
<1>3. pool' \in SUBSET Tx /\ \A t \in pool' : t \in pool \/ t = tx[s]
  BY <1>1 DEF Inv, Types, InPool
<1>4. Types'
  BY <1>2, <1>3 DEF Inv, Types, Sending, InGroup
<1>5. Owned'
  <2>1. \A r \in Sends : r >= next' => pc'[r] = "new"
    BY DEF Inv, Types, Owned, Sending
  <2>2. \A r \in Sends : IF pc'[r] \in Sending THEN tx'[r] \in Tx /\ tx'[r].send = r
                         ELSE tx'[r] = NoTx /\ receipt'[r] = NoTx /\ waiters'[r] = {}
    BY <1>2 DEF Inv, Types, Owned
  <2>3. \A r \in Sends : \A w \in waiters'[r] : w.tx.send = r
    BY <1>1, <1>2 DEF Inv, Types, Owned
  <2>4. \A r \in Sends : result'[r] = "none" <=> pc'[r] \in Sending \cup {"new", "craft"}
    BY DEF Inv, Types, Owned, Sending
  <2> QED BY <2>1, <2>2, <2>3, <2>4 DEF Inv, Owned
<1>6. Crafted' = Crafted
  BY DEF Crafted, Inv, Types, Sending
<1>7. OneNonce'
  <2>1. Txs' = Txs
    BY ChainUnchanged
  <2>2. tx[s] \in Versions
    BY <1>1, VersionCases
  <2>3. ASSUME NEW t \in Versions' PROVE t \in Versions \/ t = tx[s] \/ t = v
    <3>1. \/ t \in pool' \/ t \in Txs' \/ t \in unseen'
          \/ t # NoTx /\ \E r \in Sends : t = tx'[r] \/ t = receipt'[r]
          \/ \E r \in Sends : \E w \in waiters'[r] : t = w.tx
      BY <2>3 DEF Versions
    <3>2. CASE t \in pool' \/ t \in Txs' \/ t \in unseen'
      BY <1>3, <2>1, <3>2, VersionCases
    <3>3. CASE t # NoTx /\ \E r \in Sends : t = tx'[r] \/ t = receipt'[r]
      <4>1. PICK r \in Sends : t # NoTx /\ (t = tx'[r] \/ t = receipt'[r])
        BY <3>3
      <4>2. tx'[r] = (IF r = s THEN v ELSE tx[r]) /\ receipt'[r] = receipt[r]
        BY DEF Inv, Types
      <4> QED BY <4>1, <4>2, VersionCases
    <3>4. CASE \E r \in Sends : \E w \in waiters'[r] : t = w.tx
      <4>1. PICK r \in Sends : \E w \in waiters'[r] : t = w.tx
        BY <3>4
      <4>2. PICK w \in waiters'[r] : t = w.tx
        BY <4>1
      <4>3. w \in waiters[r] \/ w.tx = tx[s]
        BY <1>2, <4>2 DEF Inv, Types
      <4> QED BY <4>2, <4>3, VersionCases
    <3> QED BY <3>1, <3>2, <3>3, <3>4
  <2>4. \A t \in Versions' : \E u \in Versions : u.send = t.send /\ u.nonce = t.nonce
    BY <1>1, <2>2, <2>3
  <2> QED BY <1>6, <2>4, OneNonceKept DEF Inv
<1>8. ChainInOrder' /\ Counted' /\ Gapless' /\ InTurn'
  <2>1. \A r \in Sends : pc'[r] \in Sending <=> pc[r] \in Sending
    BY DEF Inv, Types
  <2>2. \A r \in Sends : pc[r] \in Sending => tx'[r].nonce = tx[r].nonce
    BY DEF Inv, Types
  <2>3. Healthy' => Healthy
    BY DEF Healthy, Cancelled, Failing, Inv, Types, Sending
  <2> QED BY <1>6, <2>1, <2>2, <2>3, NoncesKept
<1>9. Lasting'
  <2>1. \A h : Deep(h)' <=> Deep(h)
    BY ChainUnchanged
  <2>2. \A r \in Sends : \A w \in waiters'[r] : w.at > 0 => w \in waiters[r]
    BY <1>2 DEF Inv, Types
  <2> QED BY <2>1, <2>2 DEF Inv, Lasting
<1> QED BY <1>4, <1>5, <1>7, <1>8, <1>9 DEF Inv

-----------------------------------------------------------------------------
(* publishTx and the select loop of sendTx. *)

(* updateFees gives fees. *)
LEMMA FeesType ==
  ASSUME NEW t \in Tx, NEW market \in Markets
  PROVE  UpdateFees(t, market).tip \in Nat /\ UpdateFees(t, market).cap \in Nat
<1>1. market[1] \in Nat /\ market[2] \in Nat
  BY TxManagerAssumption
<1>2. t.tip \in Nat /\ t.cap \in Nat
  BY Constants
<1>3. \A x \in Nat : (110 * x) \div 100 \in Nat
  OBVIOUS
<1> QED BY <1>1, <1>2, <1>3 DEF UpdateFees, CalcGasFeeCap, CalcThresholdValue

(* increaseGasPrice: the version that goes on is the old one or one with other fees. *)
LEMMA IncreaseGasPriceFacts ==
  ASSUME Inv, NEW s \in Sends, pc[s] \in Sending, IncreaseGasPrice(s)
  PROVE  \E p \in Sending, v \in Tx :
           /\ v.send = s /\ v.nonce = tx[s].nonce /\ tx' = [tx EXCEPT ![s] = v]
           /\ pc' = [pc EXCEPT ![s] = p] /\ faults' \in 0..MaxFaults
<1>1. PICK market \in Markets :
        LET fees == UpdateFees(tx[s], market)
        IN \/ /\ NoFault /\ tx' = [tx EXCEPT ![s].tip = fees.tip, ![s].cap = fees.cap]
              /\ pc' = [pc EXCEPT ![s] = "publish"]
           \/ CallFails /\ UNCHANGED tx /\ pc' = [pc EXCEPT ![s] = "publish"]
           \/ (NoFault \/ CallFails) /\ UNCHANGED tx /\ pc' = [pc EXCEPT ![s] = "loop"]
  BY DEF IncreaseGasPrice
<1>2. faults' \in 0..MaxFaults
  BY <1>1, FaultType DEF Inv
<1>3. tx[s] \in Tx /\ tx[s].send = s /\ tx \in [Sends -> Tx \cup {NoTx}]
  BY DEF Inv, Types, Owned
<1> DEFINE tip == UpdateFees(tx[s], market).tip
           cap == UpdateFees(tx[s], market).cap
           v == [tx[s] EXCEPT !.tip = tip, !.cap = cap]
<1>4. tip \in Nat /\ cap \in Nat
  BY <1>3, FeesType
<1>5. v \in Tx /\ v.send = s /\ v.nonce = tx[s].nonce
  <2> HIDE DEF tip, cap
  <2> QED BY <1>3, <1>4 DEF Tx
<1>6. "publish" \in Sending /\ "loop" \in Sending
  BY DEF Sending
<1>7. CASE UNCHANGED tx
  <2>1. tx' = [tx EXCEPT ![s] = tx[s]]
    BY <1>3, <1>7
  <2>2. \/ pc' = [pc EXCEPT ![s] = "publish"] \/ pc' = [pc EXCEPT ![s] = "loop"]
    BY <1>1
  <2> QED BY <1>2, <1>3, <1>6, <2>1, <2>2
<1>8. CASE tx' = [tx EXCEPT ![s].tip = tip, ![s].cap = cap] /\ pc' = [pc EXCEPT ![s] = "publish"]
  <2>1. tx' = [tx EXCEPT ![s] = v]
    <3> HIDE DEF tip, cap
    <3> QED BY <1>3, <1>8
  <2> HIDE DEF v
  <2> QED BY <1>2, <1>5, <1>6, <1>8, <2>1
<1> QED BY <1>1, <1>7, <1>8

LEMMA ResubmitKeepsInv ==
  ASSUME Inv, NEW s \in Sends, Underpriced(s) \/ TickPublish(s)
  PROVE  Inv'
<1>1. /\ pc[s] \in Sending /\ IncreaseGasPrice(s)
      /\ UNCHANGED <<nonce, next, inGo, groupErr, killed, ss, waiters, receipt, result, pool, chain, unseen>>
  BY DEF Underpriced, TickPublish, ToSend, Sending, queueVars, l1Vars
<1>2. PICK p \in Sending, v \in Tx :
        /\ v.send = s /\ v.nonce = tx[s].nonce /\ tx' = [tx EXCEPT ![s] = v]
        /\ pc' = [pc EXCEPT ![s] = p] /\ faults' \in 0..MaxFaults
  BY <1>1, IncreaseGasPriceFacts
<1>3. ss' \in [Sends -> [minedTxs : SUBSET Tx, nonceTooLowCount : Nat, published : BOOLEAN]]
  BY <1>1 DEF Inv, Types
<1> QED BY <1>1, <1>2, <1>3, SendingKeepsInv

LEMMA PublishKeepsInv ==
  ASSUME Inv, NEW s \in Sends,
         SkipPublish(s) \/ Published(s) \/ Refused(s) \/ SendTransactionFails(s)
  PROVE  Inv'
<1>1. /\ pc[s] = "publish" /\ pc' = [pc EXCEPT ![s] = "loop"] /\ tx' = tx
      /\ pool' \in {pool, InPool(tx[s])}
      /\ waiters' \in {waiters, [waiters EXCEPT ![s] = @ \cup {[tx |-> tx[s], at |-> 0]}]}
      /\ \/ ss' = ss
         \/ ss' = [ss EXCEPT ![s].published = TRUE]
         \/ ss' = [ss EXCEPT ![s].nonceTooLowCount = @ + 1]
      /\ UNCHANGED <<nonce, next, inGo, groupErr, killed, receipt, result, chain, unseen>>
  BY DEF SkipPublish, Published, Refused, SendTransactionFails, ToSend, queueVars, l1Vars
<1>2. faults' \in 0..MaxFaults
  <2>1. faults' = faults \/ CallFails
    BY DEF SkipPublish, Published, Refused, SendTransactionFails
  <2> QED BY <2>1, FaultType DEF Inv, Types
<1>3. pc[s] \in Sending /\ "loop" \in Sending
  BY <1>1 DEF Sending
<1>4. tx[s] \in Tx /\ tx[s].send = s /\ tx' = [tx EXCEPT ![s] = tx[s]]
  BY <1>1, <1>3 DEF Inv, Types, Owned
<1>5. ss' \in [Sends -> [minedTxs : SUBSET Tx, nonceTooLowCount : Nat, published : BOOLEAN]]
  <2>1. ss \in [Sends -> [minedTxs : SUBSET Tx, nonceTooLowCount : Nat, published : BOOLEAN]]
    BY DEF Inv, Types
  <2>2. ss[s].nonceTooLowCount + 1 \in Nat
    BY <2>1
  <2>3. CASE ss' = ss
    BY <2>1, <2>3
  <2>4. CASE ss' = [ss EXCEPT ![s].published = TRUE]
    BY <2>1, <2>4
  <2>5. CASE ss' = [ss EXCEPT ![s].nonceTooLowCount = @ + 1]
    <3>1. PICK c \in Nat : ss' = [ss EXCEPT ![s].nonceTooLowCount = c]
      BY <2>2, <2>5
    <3> QED BY <2>1, <3>1
  <2> QED BY <1>1, <2>3, <2>4, <2>5
<1> QED BY <1>1, <1>2, <1>3, <1>4, <1>5, SendingKeepsInv

LEMMA FailuresKeepInv ==
  ASSUME Inv, NEW s \in Sends, CraftFails(s) \/ TickAbort(s) \/ CtxDone(s)
  PROVE  Inv'
<1>1. pc[s] \in {"craft", "loop"} /\ Fail(s) /\ (CallFails \/ NoFault)
  BY DEF CraftFails, TickAbort, CtxDone
<1>2. faults' \in 0..MaxFaults
  BY <1>1, FaultType DEF Inv
<1> QED BY <1>1, <1>2, FailKeepsInv

LEMMA TakeReceiptKeepsInv ==
  ASSUME Inv, NEW s \in Sends, TakeReceipt(s)
  PROVE  Inv'
<1>1. /\ pc[s] = "loop" /\ receipt[s] # NoTx
      /\ pc' = [pc EXCEPT ![s] = "report"] /\ result' = [result EXCEPT ![s] = "receipt"]
      /\ tx' = [tx EXCEPT ![s] = NoTx] /\ ss' = [ss EXCEPT ![s] = NewSendState]
      /\ waiters' = [waiters EXCEPT ![s] = {}] /\ receipt' = [receipt EXCEPT ![s] = NoTx]
      /\ UNCHANGED <<nonce, next, inGo, groupErr, killed, pool, chain, unseen, faults>>
  BY DEF TakeReceipt, Clear, queueVars, l1Vars
<1>2. Types'
  <2>1. NewSendState \in [minedTxs : SUBSET Tx, nonceTooLowCount : Nat, published : BOOLEAN]
    BY DEF NewSendState
  <2> QED BY <1>1, <2>1 DEF Inv, Types, InGroup
<1>3. Owned'
  <2>1. pc[s] # "new"
    BY <1>1
  <2> QED BY <1>1, <2>1 DEF Inv, Types, Owned, Sending
<1>4. Crafted \subseteq Crafted' /\ Txs' = Txs /\ AccountNonce' = AccountNonce
  BY <1>1, ChainUnchanged DEF Crafted, Inv, Types
<1>5. OneNonce'
  <2>1. \A t \in Versions' : t \in Versions
    BY <1>1, <1>4 DEF Versions, Inv, Types
  <2> QED BY <1>4, <2>1, OneNonceKept DEF Inv
<1>6. ChainInOrder' /\ \A h : Deep(h)' <=> Deep(h)
  BY <1>1, ChainUnchanged DEF Inv
<1>7. Counted' /\ (nonce # << >> => NextNonce' = NextNonce)
  BY <1>1, <1>4, CountedKept DEF Inv
<1>8. /\ receipt[s] \in Tx /\ receipt[s].send = s /\ tx[s] \in Tx /\ tx[s].send = s
      /\ receipt[s].nonce = tx[s].nonce
  <2>1. /\ receipt[s] \in Tx /\ receipt[s].send = s /\ tx[s] \in Tx /\ tx[s].send = s
    BY <1>1 DEF Inv, Types, Owned, Sending
  <2>2. receipt[s] \in Versions /\ tx[s] \in Versions
    BY <1>1, <2>1, Constants, VersionCases
  <2> QED BY <2>1, <2>2 DEF Inv, OneNonce
<1>9. Lasting'
  <2>1. \/ \E t \in unseen : t.send = s
        \/ \E h \in 1..Len(chain) : Deep(h) /\ chain[h] # NoTx /\ chain[h].send = s
    BY <1>1, <1>8 DEF Inv, Lasting
  <2>2. \A r \in Sends : result'[r] = "receipt" => r = s \/ result[r] = "receipt"
    BY <1>1 DEF Inv, Types
  <2>3. \A r \in Sends : receipt'[r] # NoTx => receipt'[r] = receipt[r]
    BY <1>1 DEF Inv, Types
  <2>4. \A r \in Sends : waiters'[r] \subseteq waiters[r]
    BY <1>1 DEF Inv, Types
  <2> QED BY <1>1, <1>6, <2>1, <2>2, <2>3, <2>4 DEF Inv, Lasting
<1>10. Gapless'
  <2>1. receipt[s] \in unseen \/ receipt[s].nonce < AccountNonce
    <3>1. CASE \E h \in 1..Len(chain) : Deep(h) /\ chain[h] = receipt[s]
      <4>1. receipt[s] \in Txs
        BY <1>1, <3>1 DEF Txs, Deep
      <4> QED BY <4>1 DEF Inv, ChainInOrder
    <3> QED BY <1>1, <3>1 DEF Inv, Lasting
  <2>2. ASSUME NEW n \in AccountNonce..NextNonce - 1, Filled(n) PROVE Filled(n)'
    <3>1. CASE \E t \in unseen : t.nonce = n
      BY <1>1, <3>1 DEF Filled
    <3>2. ASSUME NEW r \in Sends, pc[r] \in Sending, tx[r].nonce = n PROVE Filled(n)'
      <4>1. CASE r # s
        <5>1. pc'[r] = pc[r] /\ tx'[r] = tx[r]
          BY <1>1, <4>1 DEF Inv, Types
        <5> QED BY <3>2, <5>1 DEF Filled
      <4>2. CASE r = s
        <5>1. receipt[s].nonce = n /\ n \in Int /\ AccountNonce \in Int /\ AccountNonce <= n
          <6>1. AccountNonce \in Nat
            BY AccountBound, CraftedFinite DEF Inv
          <6> QED BY <1>8, <3>2, <4>2, <6>1
        <5>2. receipt[s] \in unseen
          BY <2>1, <5>1
        <5> QED BY <1>1, <5>1, <5>2 DEF Filled
      <4> QED BY <4>1, <4>2
    <3> QED BY <2>2, <3>1, <3>2 DEF Filled
  <2> QED BY <1>1, <1>4, <1>7, <2>2 DEF Inv, Gapless
<1>11. InTurn'
  <2>1. Healthy' => Healthy
    BY <1>1 DEF Healthy, Cancelled, Failing, Inv, Types
  <2>2. \A r \in Sends : pc'[r] \in Sending => pc[r] \in Sending /\ tx'[r] = tx[r]
    BY <1>1 DEF Inv, Types, Sending
  <2> QED BY <1>1, <1>7, <2>1, <2>2 DEF Inv, InTurn
<1> QED BY <1>2, <1>3, <1>5, <1>6, <1>7, <1>9, <1>10, <1>11 DEF Inv

-----------------------------------------------------------------------------
(* craftTx and signWithNextNonce. *)

LEMMA CraftTxKeepsInv ==
  ASSUME Inv, NEW s \in Sends, CraftTx(s)
  PROVE  Inv'
<1>1. /\ pc[s] = "craft" /\ nonce' = <<NextNonce>> /\ pc' = [pc EXCEPT ![s] = "publish"]
      /\ UNCHANGED <<next, inGo, groupErr, killed, ss, waiters, receipt, result, pool, chain, unseen, faults>>
  BY DEF CraftTx, queueVars, l1Vars
<1>2. PICK market \in Markets :
        tx' = [tx EXCEPT ![s] = [send |-> s, nonce |-> NextNonce, tip |-> market[1],
                                 cap |-> CalcGasFeeCap(market[2], market[1])]]
  BY DEF CraftTx
<1> DEFINE c == Cardinality(Crafted)
           v == [send |-> s, nonce |-> NextNonce, tip |-> market[1],
                 cap |-> CalcGasFeeCap(market[2], market[1])]
<1>3. NextNonce \in 0..c /\ c \in Nat /\ c < N /\ N \in Nat /\ Modulus \in Nat /\ N < Modulus
  BY <1>1, NextNonceBound, CraftedRoom, CraftedFinite, Constants DEF Inv
<1> HIDE DEF c
<1>4. NextNonce \in Nat /\ NextNonce \in 0..N /\ NextNonce + 1 < Modulus /\ NextNonce \in 0..Modulus - 1
  BY <1>3
<1>5. v \in Tx /\ v.send = s /\ v.nonce = NextNonce /\ v # NoTx
  <2>1. market[1] \in Nat /\ market[2] \in Nat
    BY TxManagerAssumption
  <2>2. CalcGasFeeCap(market[2], market[1]) \in Nat
    BY <2>1 DEF CalcGasFeeCap
  <2>3. v \in Tx
    BY <1>4, <2>1, <2>2 DEF Tx
  <2> QED BY <2>3, Constants
<1>6. tx' = [tx EXCEPT ![s] = v]
  BY <1>2
<1> HIDE DEF v
<1>7. Types'
  <2>1. nonce' \in {<<n>> : n \in 0..Modulus - 1}
    BY <1>1, <1>4
  <2> QED BY <1>1, <1>5, <1>6, <2>1 DEF Inv, Types, InGroup
<1>8. NextNonce' = NextNonce + 1
  <2>1. nonce' # << >> /\ nonce'[1] = NextNonce
    BY <1>1
  <2>2. NextNonce' = (NextNonce + 1) % Modulus
    BY <2>1 DEF NextNonce, Modulus
  <2> QED BY <1>4, <2>2, Wrap
<1>9. Owned'
  <2>1. \A r \in Sends : r >= next' => pc'[r] = "new"
    BY <1>1 DEF Inv, Types, Owned
  <2>2. \A r \in Sends : IF pc'[r] \in Sending THEN tx'[r] \in Tx /\ tx'[r].send = r
                         ELSE tx'[r] = NoTx /\ receipt'[r] = NoTx /\ waiters'[r] = {}
    BY <1>1, <1>5, <1>6 DEF Inv, Types, Owned, Sending
  <2>3. \A r \in Sends : result'[r] = "none" <=> pc'[r] \in Sending \cup {"new", "craft"}
    BY <1>1 DEF Inv, Types, Owned, Sending
  <2> QED BY <1>1, <2>1, <2>2, <2>3 DEF Inv, Owned
<1>10. Crafted' = Crafted \cup {s} /\ s \notin Crafted
  BY <1>1 DEF Crafted, Inv, Types
<1>11. Txs' = Txs /\ AccountNonce' = AccountNonce /\ ChainInOrder' /\ \A h : Deep(h)' <=> Deep(h)
  BY <1>1, ChainUnchanged DEF Inv
<1>12. OneNonce'
  <2>1. ASSUME NEW t \in Versions' PROVE t \in Versions \/ t = v
    <3>1. \A r \in Sends : tx'[r] = IF r = s THEN v ELSE tx[r]
      BY <1>6 DEF Inv, Types
    <3>2. \/ t \in pool \/ t \in Txs \/ t \in unseen
          \/ t # NoTx /\ \E r \in Sends : t = tx'[r] \/ t = receipt[r]
          \/ \E r \in Sends : \E w \in waiters[r] : t = w.tx
      BY <1>1, <1>11, <2>1 DEF Versions
    <3> QED BY <3>1, <3>2, VersionCases
  <2>2. \A t \in Versions : t.send # s
    BY <1>10 DEF Inv, OneNonce
  <2>3. \A t \in Versions' : t.send \in Crafted'
    BY <1>5, <1>10, <2>1 DEF Inv, OneNonce
  <2>4. ASSUME NEW t \in Versions', NEW u \in Versions', t.send = u.send PROVE t.nonce = u.nonce
    <3>1. t \in Versions \/ t = v
      BY <2>1
    <3>2. u \in Versions \/ u = v
      BY <2>1
    <3> QED BY <1>5, <2>2, <2>4, <3>1, <3>2 DEF Inv, OneNonce
  <2> QED BY <2>3, <2>4 DEF OneNonce
<1>13. Counted'
  <2>1. Cardinality(Crafted') = c + 1
    BY <1>10, CraftedFinite, FS_AddElement DEF c
  <2> QED BY <1>3, <1>4, <1>8, <2>1 DEF Counted
<1>14. Lasting'
  BY <1>1, <1>11 DEF Inv, Lasting
<1>15. \A r \in Sends : r # s => pc'[r] = pc[r] /\ tx'[r] = tx[r]
  BY <1>1, <1>6 DEF Inv, Types
<1>16. pc'[s] \in Sending /\ tx'[s] = v
  BY <1>1, <1>6 DEF Inv, Types, Sending
<1>17. Gapless'
  <2> SUFFICES ASSUME NEW n \in AccountNonce..NextNonce PROVE Filled(n)'
    BY <1>4, <1>8, <1>11 DEF Gapless
  <2>1. CASE n = NextNonce
    BY <1>5, <1>16, <2>1 DEF Filled
  <2>2. CASE n # NextNonce
    <3>1. AccountNonce \in Nat
      BY AccountBound, CraftedFinite DEF Inv
    <3>2. n \in AccountNonce..NextNonce - 1 /\ AccountNonce # NextNonce
      BY <1>4, <2>2, <3>1
    <3>3. nonce # << >>
      BY <3>2 DEF NextNonce
    <3>4. Filled(n)
      BY <3>2, <3>3 DEF Inv, Gapless
    <3>5. pc[s] \notin Sending
      BY <1>1 DEF Sending
    <3> QED BY <1>1, <1>15, <3>4, <3>5 DEF Filled
  <2> QED BY <2>1, <2>2
<1>18. InTurn'
  <2> SUFFICES ASSUME Healthy'
               PROVE  /\ \A r \in Sends : pc'[r] \in Sending => tx'[r].nonce < NextNonce + 1
                      /\ \A r, t \in Sends : r # t /\ pc'[r] \in Sending /\ pc'[t] \in Sending
                                               => tx'[r].nonce # tx'[t].nonce
    BY <1>1, <1>8 DEF InTurn
  <2>1. Healthy
    BY <1>1 DEF Healthy, Cancelled, Failing, Inv, Types
  <2>2. \A r \in Sends : pc[r] \in Sending => tx[r].nonce < NextNonce /\ tx[r].nonce \in Nat
    BY <2>1, Constants DEF Inv, InTurn, Owned
  <2>3. \A r \in Sends : r # s /\ pc'[r] \in Sending => tx'[r].nonce < NextNonce /\ tx'[r].nonce \in Nat
    BY <1>15, <2>2
  <2>4. \A r \in Sends : pc'[r] \in Sending => tx'[r].nonce < NextNonce + 1
    BY <1>4, <1>5, <1>16, <2>3
  <2>5. \A r, t \in Sends : r # t /\ pc'[r] \in Sending /\ pc'[t] \in Sending => tx'[r].nonce # tx'[t].nonce
    <3> SUFFICES ASSUME NEW r \in Sends, NEW t \in Sends, r # t, pc'[r] \in Sending, pc'[t] \in Sending
                 PROVE  tx'[r].nonce # tx'[t].nonce
      OBVIOUS
    <3>1. CASE r # s /\ t # s
      BY <1>15, <2>1, <3>1 DEF Inv, InTurn
    <3>2. CASE r = s
      BY <1>4, <1>5, <1>16, <2>3, <3>2
    <3>3. CASE t = s
      BY <1>4, <1>5, <1>16, <2>3, <3>3
    <3> QED BY <3>1, <3>2, <3>3
  <2> QED BY <2>4, <2>5
<1> QED BY <1>7, <1>9, <1>11, <1>12, <1>13, <1>14, <1>17, <1>18 DEF Inv

LEMMA SignFailsKeepsInv ==
  ASSUME Inv, NEW s \in Sends, SignFails(s)
  PROVE  Inv'
<1>1. /\ nonce' = <<(NextNonce - 1) % Modulus>> /\ CallFails
      /\ UNCHANGED <<next, inGo, groupErr, killed, pc, tx, ss, waiters, receipt, result, pool, chain, unseen>>
  BY DEF SignFails, queueVars, sendVars, l1Vars, Modulus
<1>2. NextNonce \in Nat /\ NextNonce <= Cardinality(Crafted) /\ NextNonce \in 0..Modulus - 1
  <2>1. NextNonce \in 0..Cardinality(Crafted) /\ Cardinality(Crafted) \in 0..N
    BY NextNonceBound, CraftedFinite DEF Inv
  <2> QED BY <2>1, Constants
<1>3. /\ nonce'[1] \in 0..Modulus - 1 /\ nonce' # << >> /\ nonce' = <<nonce'[1]>>
      /\ nonce'[1] = IF NextNonce = 0 THEN Modulus - 1 ELSE NextNonce - 1
  BY <1>1, <1>2, Wrap, Constants
<1>4. NextNonce' = NextNonce
  <2>1. NextNonce' = (nonce'[1] + 1) % Modulus
    BY <1>3 DEF NextNonce, Modulus
  <2>2. NextNonce' = IF nonce'[1] + 1 = Modulus THEN 0 ELSE nonce'[1] + 1
    BY <1>3, <2>1, Wrap
  <2> QED BY <1>2, <1>3, <2>2, Constants
<1>5. Types'
  <2>1. nonce' \in {<<n>> : n \in 0..Modulus - 1}
    BY <1>3
  <2>2. faults' \in 0..MaxFaults
    BY <1>1, FaultType DEF Inv
  <2> QED BY <1>1, <2>1, <2>2 DEF Inv, Types
<1>6. Owned'
  BY <1>1 DEF Inv, Owned
<1>7. Txs' = Txs /\ AccountNonce' = AccountNonce /\ ChainInOrder' /\ \A h : Deep(h)' <=> Deep(h)
  BY <1>1, ChainUnchanged DEF Inv
<1>8. Crafted' = Crafted
  BY <1>1 DEF Crafted
<1>9. OneNonce'
  <2>1. Versions' = Versions
    BY <1>1, <1>7 DEF Versions
  <2> QED BY <1>8, <2>1, OneNonceKept DEF Inv
<1>10. Counted'
  BY <1>2, <1>4, <1>8 DEF Counted
<1>11. Lasting'
  BY <1>1, <1>7 DEF Inv, Lasting
<1>12. Gapless'
  <2>1. \A n : Filled(n)' <=> Filled(n)
    BY <1>1 DEF Filled
  <2>2. CASE nonce = << >>
    <3>1. \A n \in AccountNonce..NextNonce - 1 : FALSE
      BY <1>2, <2>2 DEF NextNonce
    <3> QED BY <1>4, <1>7, <3>1 DEF Gapless
  <2>3. CASE nonce # << >>
    BY <1>4, <1>7, <2>1, <2>3 DEF Inv, Gapless
  <2> QED BY <2>2, <2>3
<1>13. InTurn'
  <2>1. Healthy' <=> Healthy
    BY <1>1 DEF Healthy, Cancelled, Failing
  <2> QED BY <1>1, <1>3, <1>4, <2>1 DEF Inv, InTurn
<1> QED BY <1>5, <1>6, <1>7, <1>9, <1>10, <1>11, <1>12, <1>13 DEF Inv

-----------------------------------------------------------------------------
(* waitForTx. *)

(* A goroutine of a send looks again: what it has seen is on the chain or left it unnoticed. *)
LEMMA WaitersKeepInv ==
  ASSUME Inv, NEW s \in Sends, waiters[s] # {}, NEW W \in SUBSET Waiter,
         waiters' = [waiters EXCEPT ![s] = W],
         \A w \in W : \E u \in waiters[s] : u.tx = w.tx,
         \A w \in W : w.at > 0 => w.at \in DOMAIN chain /\ (chain[w.at] = w.tx \/ w.tx \in unseen),
         NEW R \in Tx \cup {NoTx}, receipt' = [receipt EXCEPT ![s] = R],
         R # receipt[s] => /\ \E u \in waiters[s] : u.tx = R
                           /\ R \in unseen \/ \E h \in 1..Len(chain) : Deep(h) /\ chain[h] = R,
         ss' \in [Sends -> [minedTxs : SUBSET Tx, nonceTooLowCount : Nat, published : BOOLEAN]],
         faults' \in 0..MaxFaults,
         UNCHANGED <<nonce, next, inGo, groupErr, killed, pc, tx, result, pool, chain, unseen>>
  PROVE  Inv'
<1>1. Types'
  BY DEF Inv, Types
<1>2. pc[s] \in Sending
  BY DEF Inv, Owned
<1>3. \A r \in Sends : /\ waiters'[r] = IF r = s THEN W ELSE waiters[r]
                       /\ receipt'[r] = IF r = s THEN R ELSE receipt[r]
  BY DEF Inv, Types
<1>4. Owned'
  <2>1. \A r \in Sends : \A w \in waiters'[r] : w.tx.send = r
    BY <1>3 DEF Inv, Owned
  <2>2. R # NoTx => R.send = s
    BY DEF Inv, Owned
  <2>3. \A r \in Sends : receipt'[r] # NoTx => receipt'[r].send = r
    BY <1>3, <2>2 DEF Inv, Owned
  <2>4. \A r \in Sends : IF pc'[r] \in Sending THEN tx'[r] \in Tx /\ tx'[r].send = r
                         ELSE tx'[r] = NoTx /\ receipt'[r] = NoTx /\ waiters'[r] = {}
    BY <1>2, <1>3 DEF Inv, Owned
  <2> QED BY <2>1, <2>3, <2>4 DEF Inv, Owned
<1>5. Txs' = Txs /\ Crafted' = Crafted /\ \A h : Deep(h)' <=> Deep(h)
  BY ChainUnchanged DEF Crafted
<1>6. OneNonce'
  <2>1. ASSUME NEW t \in Versions' PROVE t \in Versions
    <3>1. \/ t \in pool \/ t \in Txs \/ t \in unseen
          \/ t # NoTx /\ \E r \in Sends : t = tx[r] \/ t = receipt'[r]
          \/ \E r \in Sends : \E w \in waiters'[r] : t = w.tx
      BY <1>5, <2>1 DEF Versions
    <3>2. CASE \E r \in Sends : \E w \in waiters'[r] : t = w.tx
      <4>1. PICK r \in Sends : \E w \in waiters'[r] : t = w.tx
        BY <3>2
      <4>2. \E u \in waiters[r] : t = u.tx
        BY <1>3, <4>1
      <4> QED BY <4>2, VersionCases
    <3>3. CASE t # NoTx /\ \E r \in Sends : t = tx[r] \/ t = receipt'[r]
      <4>1. PICK r \in Sends : t # NoTx /\ (t = tx[r] \/ t = receipt'[r])
        BY <3>3
      <4>2. t = tx[r] \/ t = receipt[r] \/ \E u \in waiters[s] : t = u.tx
        BY <1>3, <4>1
      <4> QED BY <4>1, <4>2, VersionCases
    <3> QED BY <3>1, <3>2, <3>3, VersionCases
  <2> QED BY <1>5, <2>1, OneNonceKept DEF Inv
<1>7. ChainInOrder' /\ Counted' /\ Gapless' /\ InTurn'
  <2>1. Healthy' => Healthy
    BY DEF Healthy, Cancelled, Failing
  <2> QED BY <1>5, <2>1, NoncesKept
<1>8. Lasting'
  <2>1. \A r \in Sends : \A w \in waiters'[r] :
          w.at > 0 => w.at \in DOMAIN chain /\ (chain[w.at] = w.tx \/ w.tx \in unseen)
    BY <1>3 DEF Inv, Lasting
  <2>2. \A r \in Sends : receipt'[r] # NoTx =>
          receipt'[r] \in unseen \/ \E h \in 1..Len(chain) : Deep(h) /\ chain[h] = receipt'[r]
    BY <1>3 DEF Inv, Lasting
  <2> QED BY <1>5, <2>1, <2>2 DEF Inv, Lasting
<1> QED BY <1>1, <1>4, <1>6, <1>7, <1>8 DEF Inv

LEMMA QueryReceiptKeepsInv ==
  ASSUME Inv, NEW s \in Sends, NEW w \in waiters[s], QueryReceipt(s, w)
  PROVE  Inv'
<1>1. /\ UNCHANGED <<nonce, next, inGo, groupErr, killed, pc, tx, receipt, result, pool, chain, unseen, faults>>
      /\ \/ ss' = [ss EXCEPT ![s] = TxNotMined(@, w.tx)] /\ waiters' = waiters
         \/ /\ ss' = [ss EXCEPT ![s].minedTxs = @ \cup {w.tx}]
            /\ \E h \in Heights(w.tx) :
                 waiters' = [waiters EXCEPT ![s] = (@ \ {w}) \cup {[w EXCEPT !.at = h]}]
  BY DEF QueryReceipt, queueVars, l1Vars
<1>2. w \in Waiter /\ w.tx \in Tx /\ waiters[s] \in SUBSET Waiter
  BY DEF Inv, Types, Waiter
<1>3. ss' \in [Sends -> [minedTxs : SUBSET Tx, nonceTooLowCount : Nat, published : BOOLEAN]]
  <2>1. ss \in [Sends -> [minedTxs : SUBSET Tx, nonceTooLowCount : Nat, published : BOOLEAN]]
    BY DEF Inv, Types
  <2>2. TxNotMined(ss[s], w.tx) \in [minedTxs : SUBSET Tx, nonceTooLowCount : Nat, published : BOOLEAN]
    BY <2>1 DEF TxNotMined
  <2> QED BY <1>1, <1>2, <2>1, <2>2
<1>4. /\ receipt' = [receipt EXCEPT ![s] = receipt[s]] /\ receipt[s] \in Tx \cup {NoTx}
      /\ faults' \in 0..MaxFaults
  BY <1>1 DEF Inv, Types
<1>5. CASE waiters' = waiters
  <2>1. waiters' = [waiters EXCEPT ![s] = waiters[s]]
    BY <1>5 DEF Inv, Types
  <2>2. \A u \in waiters[s] : u.at > 0 => u.at \in DOMAIN chain /\ (chain[u.at] = u.tx \/ u.tx \in unseen)
    BY DEF Inv, Lasting
  <2> QED BY <1>1, <1>2, <1>3, <1>4, <2>1, <2>2, WaitersKeepInv
<1>6. ASSUME NEW h \in Heights(w.tx),
             waiters' = [waiters EXCEPT ![s] = (@ \ {w}) \cup {[w EXCEPT !.at = h]}]
      PROVE  Inv'
  <2> DEFINE W == (waiters[s] \ {w}) \cup {[w EXCEPT !.at = h]}
  <2>1. h \in DOMAIN chain /\ h \in Nat /\ chain[h] = w.tx
    BY DEF Heights, Inv, Types
  <2>2. [w EXCEPT !.at = h] \in Waiter /\ [w EXCEPT !.at = h].tx = w.tx /\ [w EXCEPT !.at = h].at = h
    BY <1>2, <2>1 DEF Waiter
  <2>3. W \in SUBSET Waiter /\ waiters' = [waiters EXCEPT ![s] = W]
    BY <1>2, <1>6, <2>2
  <2>4. \A u \in W : \E x \in waiters[s] : x.tx = u.tx
    BY <2>2
  <2>5. \A u \in W : u.at > 0 => u.at \in DOMAIN chain /\ (chain[u.at] = u.tx \/ u.tx \in unseen)
    BY <2>1, <2>2 DEF Inv, Lasting
  <2> HIDE DEF W
  <2> QED BY <1>1, <1>3, <1>4, <2>3, <2>4, <2>5, WaitersKeepInv
<1> QED BY <1>1, <1>5, <1>6

LEMMA QueryTipKeepsInv ==
  ASSUME Inv, NEW s \in Sends, NEW w \in waiters[s], QueryTip(s, w)
  PROVE  Inv'
<1>1. /\ w.at > 0
      /\ UNCHANGED <<nonce, next, inGo, groupErr, killed, pc, tx, ss, result, pool, chain, unseen>>
      /\ \/ /\ Confirmed(w.at, Len(chain)) /\ NoFault
            /\ receipt' = [receipt EXCEPT ![s] = IF @ = NoTx THEN w.tx ELSE @]
            /\ waiters' = [waiters EXCEPT ![s] = @ \ {w}]
         \/ /\ NoFault \/ CallFails
            /\ waiters' = [waiters EXCEPT ![s] = (@ \ {w}) \cup {[w EXCEPT !.at = 0]}]
            /\ UNCHANGED receipt
  BY DEF QueryTip, queueVars, l1Vars
<1>2. /\ w \in Waiter /\ w.tx \in Tx /\ waiters[s] \in SUBSET Waiter /\ receipt[s] \in Tx \cup {NoTx}
      /\ ss' \in [Sends -> [minedTxs : SUBSET Tx, nonceTooLowCount : Nat, published : BOOLEAN]]
  BY <1>1 DEF Inv, Types, Waiter
<1>3. faults' \in 0..MaxFaults
  BY <1>1, FaultType DEF Inv
<1>4. \A u \in waiters[s] : u.at > 0 => u.at \in DOMAIN chain /\ (chain[u.at] = u.tx \/ u.tx \in unseen)
  BY DEF Inv, Lasting
<1>5. CASE /\ Confirmed(w.at, Len(chain))
           /\ receipt' = [receipt EXCEPT ![s] = IF @ = NoTx THEN w.tx ELSE @]
           /\ waiters' = [waiters EXCEPT ![s] = @ \ {w}]
  <2> DEFINE W == waiters[s] \ {w}
             R == IF receipt[s] = NoTx THEN w.tx ELSE receipt[s]
  <2>1. waiters' = [waiters EXCEPT ![s] = W] /\ receipt' = [receipt EXCEPT ![s] = R]
    BY <1>5 DEF Inv, Types
  <2>2. W \in SUBSET Waiter /\ R \in Tx \cup {NoTx}
    BY <1>2
  <2>3. /\ \A u \in W : \E x \in waiters[s] : x.tx = u.tx
        /\ \A u \in W : u.at > 0 => u.at \in DOMAIN chain /\ (chain[u.at] = u.tx \/ u.tx \in unseen)
    BY <1>4
  <2>4. w.tx \in unseen \/ \E h \in 1..Len(chain) : Deep(h) /\ chain[h] = w.tx
    <3>1. w.at \in DOMAIN chain /\ (chain[w.at] = w.tx \/ w.tx \in unseen)
      BY <1>1, <1>4
    <3>2. DOMAIN chain = 1..Len(chain)
      BY DEF Inv, Types
    <3>3. Deep(w.at)
      BY <1>5, <3>1 DEF Deep
    <3> QED BY <3>1, <3>2, <3>3
  <2>5. R # receipt[s] => /\ \E u \in waiters[s] : u.tx = R
                          /\ R \in unseen \/ \E h \in 1..Len(chain) : Deep(h) /\ chain[h] = R
    BY <2>4
  <2> HIDE DEF W, R
  <2> QED BY <1>1, <1>2, <1>3, <2>1, <2>2, <2>3, <2>5, WaitersKeepInv
<1>6. CASE waiters' = [waiters EXCEPT ![s] = (@ \ {w}) \cup {[w EXCEPT !.at = 0]}] /\ UNCHANGED receipt
  <2> DEFINE W == (waiters[s] \ {w}) \cup {[w EXCEPT !.at = 0]}
  <2>1. [w EXCEPT !.at = 0] \in Waiter /\ [w EXCEPT !.at = 0].tx = w.tx /\ [w EXCEPT !.at = 0].at = 0
    BY <1>2 DEF Waiter
  <2>2. W \in SUBSET Waiter /\ waiters' = [waiters EXCEPT ![s] = W]
    BY <1>2, <1>6, <2>1
  <2>3. receipt' = [receipt EXCEPT ![s] = receipt[s]]
    BY <1>6 DEF Inv, Types
  <2>4. \A u \in W : \E x \in waiters[s] : x.tx = u.tx
    BY <2>1
  <2>5. \A u \in W : u.at > 0 => u.at \in DOMAIN chain /\ (chain[u.at] = u.tx \/ u.tx \in unseen)
    <3> SUFFICES ASSUME NEW u \in W, u.at > 0
                 PROVE  u.at \in DOMAIN chain /\ (chain[u.at] = u.tx \/ u.tx \in unseen)
      OBVIOUS
    <3> DEFINE z == [w EXCEPT !.at = 0]
    <3>1. z.at = 0
      BY <2>1
    <3> HIDE DEF z
    <3>2. u # z
      BY <3>1
    <3>3. u \in waiters[s]
      BY <3>2 DEF z
    <3> QED BY <1>4, <3>3
  <2> HIDE DEF W
  <2> QED BY <1>1, <1>2, <1>3, <2>2, <2>3, <2>4, <2>5, WaitersKeepInv
<1> QED BY <1>1, <1>5, <1>6

-----------------------------------------------------------------------------
(* The queue. *)

(* Send, Report and Kill: the group changes, and perhaps a send that has ended is reported. *)
LEMMA QueueKeepsInv ==
  ASSUME Inv, Send \/ Kill \/ \E s \in Sends : Report(s)
  PROVE  Inv'
<1>1. UNCHANGED <<nonce, next, tx, ss, waiters, receipt, result, pool, chain, unseen>>
  BY DEF Send, Kill, Report, sendVars, l1Vars
<1>2. /\ \A s \in Sends : pc'[s] = pc[s] \/ (pc[s] = "report" /\ pc'[s] = "done")
      /\ pc' \in [Sends -> InGroup \cup {"new", "done"}]
  BY DEF Send, Kill, Report, sendVars, Inv, Types, InGroup
<1>3. Types'
  <2>1. inGo' \in BOOLEAN /\ groupErr' \in BOOLEAN /\ killed' \in BOOLEAN
    <3>1. inGo' \in {inGo, TRUE} /\ killed' \in {killed, TRUE}
      BY DEF Send, Kill, Report
    <3>2. groupErr' \in {groupErr, FALSE} \/ \E s \in Sends : groupErr' = (groupErr \/ result[s] = "error")
      BY DEF Send, Kill, Report, GroupContext
    <3> QED BY <3>1, <3>2 DEF Inv, Types
  <2>2. inGo' => next' \in Sends
    BY DEF Send, Kill, Report, Inv, Types
  <2>3. faults' \in 0..MaxFaults
    <3>1. faults' = faults \/ Fault
      BY DEF Send, Kill, Report
    <3> QED BY <3>1, FaultType DEF Inv, Types
  <2> QED BY <1>1, <1>2, <2>1, <2>2, <2>3 DEF Inv, Types
<1>4. Owned'
  BY <1>1, <1>2 DEF Inv, Owned, Sending
<1>5. Crafted \subseteq Crafted' /\ Txs' = Txs /\ \A h : Deep(h)' <=> Deep(h)
  BY <1>1, <1>2, ChainUnchanged DEF Crafted
<1>6. OneNonce'
  <2>1. Versions' = Versions
    BY <1>1, <1>5 DEF Versions
  <2> QED BY <1>5, <2>1, OneNonceKept DEF Inv
<1>7. Lasting'
  BY <1>1, <1>5 DEF Inv, Lasting
<1>8. ChainInOrder' /\ Counted' /\ Gapless' /\ InTurn'
  <2>1. \A s \in Sends : pc'[s] \in Sending <=> pc[s] \in Sending
    BY <1>2 DEF Sending
  <2>2. Healthy' => Healthy \/ \A s \in Sends : pc[s] \notin Sending
    <3>1. CASE Send
      <4>1. CASE Cancelled
        BY <3>1, <4>1 DEF Send, GroupContext, Sending, InGroup
      <4>2. CASE ~Cancelled
        <5>1. UNCHANGED <<groupErr, killed, pc, result>>
          BY <3>1, <4>2 DEF Send, GroupContext, sendVars
        <5> QED BY <5>1 DEF Healthy, Cancelled, Failing
      <4> QED BY <4>1, <4>2
    <3>2. CASE Kill
      BY <3>2 DEF Kill, Healthy, Cancelled
    <3>3. ASSUME NEW s \in Sends, Report(s) PROVE Healthy' => Healthy
      <4> SUFFICES ASSUME Healthy' PROVE Healthy
        OBVIOUS
      <4>1. /\ groupErr' = (groupErr \/ result[s] = "error") /\ killed' = killed /\ result' = result
            /\ pc' = [pc EXCEPT ![s] = "done"] /\ pc \in [Sends -> InGroup \cup {"new", "done"}]
        BY <3>3 DEF Report, Inv, Types
      <4>2. ~groupErr /\ result[s] # "error" /\ ~killed
        BY <4>1 DEF Healthy, Cancelled
      <4>3. \A r \in Sends : r # s => pc'[r] = pc[r]
        BY <4>1
      <4>4. \A r \in Sends : ~Failing(r)
        BY <4>1, <4>2, <4>3 DEF Healthy, Failing
      <4> QED BY <4>2, <4>4 DEF Healthy, Cancelled
    <3> QED BY <3>1, <3>2, <3>3
  <2> QED BY <1>1, <1>5, <2>1, <2>2, NoncesKept
<1> QED BY <1>3, <1>4, <1>6, <1>7, <1>8 DEF Inv

LEMMA GroupGoKeepsInv ==
  ASSUME Inv, GroupGo
  PROVE  Inv'
<1>1. /\ inGo /\ pc' = [pc EXCEPT ![next] = "craft"] /\ next' = next + 1 /\ inGo' = FALSE
      /\ UNCHANGED <<nonce, groupErr, killed, tx, ss, waiters, receipt, result, pool, chain, unseen, faults>>
  BY DEF GroupGo, l1Vars
<1>2. next \in Sends /\ next \in 1..N /\ next \in Nat /\ N \in Nat
  BY <1>1, Constants DEF Inv, Types
<1>3. pc[next] = "new"
  BY <1>2 DEF Inv, Owned
<1>4. \A s \in Sends : pc'[s] = IF s = next THEN "craft" ELSE pc[s]
  BY <1>1 DEF Inv, Types
<1>5. Types'
  <2>1. next' \in 1..N + 1
    BY <1>1, <1>2
  <2> QED BY <1>1, <2>1 DEF Inv, Types, InGroup
<1>6. Owned'
  <2>1. \A s \in Sends : s >= next' => pc'[s] = "new"
    <3>1. \A s \in Sends : s >= next + 1 => s >= next /\ s # next
      BY <1>2, Constants
    <3> QED BY <1>1, <1>4, <3>1 DEF Inv, Owned
  <2> QED BY <1>1, <1>3, <1>4, <2>1 DEF Inv, Owned, Sending
<1>7. Crafted' = Crafted /\ Txs' = Txs /\ \A h : Deep(h)' <=> Deep(h)
  BY <1>1, <1>3, <1>4, ChainUnchanged DEF Crafted
<1>8. OneNonce'
  <2>1. Versions' = Versions
    BY <1>1, <1>7 DEF Versions
  <2> QED BY <1>7, <2>1, OneNonceKept DEF Inv
<1>9. Lasting'
  BY <1>1, <1>7 DEF Inv, Lasting
<1>10. ChainInOrder' /\ Counted' /\ Gapless' /\ InTurn'
  <2>1. \A s \in Sends : pc'[s] \in Sending <=> pc[s] \in Sending
    BY <1>3, <1>4 DEF Sending
  <2>2. Healthy' => Healthy
    BY <1>1, <1>3, <1>4 DEF Healthy, Cancelled, Failing
  <2> QED BY <1>1, <1>7, <2>1, <2>2, NoncesKept
<1> QED BY <1>5, <1>6, <1>8, <1>9, <1>10 DEF Inv

-----------------------------------------------------------------------------
(* The L1. *)

LEMMA EvictKeepsInv ==
  ASSUME Inv, Evict
  PROVE  Inv'
<1>1. /\ pool' \subseteq pool /\ faults' \in 0..MaxFaults
      /\ UNCHANGED <<nonce, next, inGo, groupErr, killed, pc, tx, ss, waiters, receipt, result, chain, unseen>>
  BY FaultType DEF Evict, queueVars, sendVars, Inv
<1>2. Types'
  BY <1>1 DEF Inv, Types
<1>3. Owned'
  BY <1>1 DEF Inv, Owned
<1>4. Crafted' = Crafted /\ Txs' = Txs /\ \A h : Deep(h)' <=> Deep(h)
  BY <1>1, ChainUnchanged DEF Crafted
<1>5. OneNonce'
  <2>1. Versions' \subseteq Versions
    BY <1>1, <1>4 DEF Versions
  <2> QED BY <1>4, <2>1, OneNonceKept DEF Inv
<1>6. Lasting'
  BY <1>1, <1>4 DEF Inv, Lasting
<1>7. ChainInOrder' /\ Counted' /\ Gapless' /\ InTurn'
  <2>1. Healthy' => Healthy
    BY <1>1 DEF Healthy, Cancelled, Failing
  <2> QED BY <1>1, <1>4, <2>1, NoncesKept
<1> QED BY <1>2, <1>3, <1>5, <1>6, <1>7 DEF Inv

(* Transactions and their places on the chain. *)
LEMMA ChainFacts ==
  ASSUME Types
  PROVE  /\ Len(chain) \in Nat /\ DOMAIN chain = 1..Len(chain)
         /\ \A i \in 1..Len(chain) : chain[i] \in Tx \cup {NoTx} /\ (chain[i] # NoTx => chain[i] \in Txs)
         /\ \A t \in Txs : t \in Tx /\ \E i \in 1..Len(chain) : chain[i] = t
BY DEF Types, Txs

LEMMA MineBlockKeepsInv ==
  ASSUME Inv, MineBlock
  PROVE  Inv'
<1>1. PICK e \in Tx \cup {NoTx} :
        /\ chain' = Append(chain, e) /\ pool' \subseteq pool
        /\ e # NoTx => e \in pool /\ e.nonce = AccountNonce
  <2>1. CASE \E t \in pool : t.nonce = AccountNonce /\ chain' = Append(chain, t) /\ pool' = pool \ {t}
    BY <2>1 DEF Inv, Types
  <2>2. CASE chain' = Append(chain, NoTx) /\ UNCHANGED pool
    BY <2>2
  <2> QED BY <2>1, <2>2 DEF MineBlock
<1>2. UNCHANGED <<nonce, next, inGo, groupErr, killed, pc, tx, ss, waiters, receipt, result, unseen, faults>>
  BY DEF MineBlock, queueVars, sendVars
<1> DEFINE L == Len(chain)
<1>3. /\ L \in Nat /\ DOMAIN chain = 1..L /\ chain \in Seq(Tx \cup {NoTx})
      /\ \A i \in 1..L : chain[i] \in Tx \cup {NoTx} /\ (chain[i] # NoTx => chain[i] \in Txs)
      /\ \A t \in Txs : t \in Tx /\ \E i \in 1..L : chain[i] = t
  BY ChainFacts DEF Inv, Types
<1>4. /\ chain' \in Seq(Tx \cup {NoTx}) /\ Len(chain') = L + 1 /\ DOMAIN chain' = 1..L + 1
      /\ \A i \in 1..L : chain'[i] = chain[i]
      /\ chain'[L + 1] = e
  BY <1>1, <1>3
<1> HIDE DEF L
<1>5. Types'
  BY <1>1, <1>2, <1>4 DEF Inv, Types
<1>6. Owned'
  BY <1>2 DEF Inv, Owned
<1>7. Txs' = Txs \cup ({e} \ {NoTx})
  <2>1. \A i \in 1..L + 1 : i \in 1..L \/ i = L + 1
    BY <1>3
  <2>2. L + 1 \in 1..L + 1 /\ \A i \in 1..L : i \in 1..L + 1
    BY <1>3
  <2> QED BY <1>3, <1>4, <2>1, <2>2 DEF Txs
<1>8. Crafted' = Crafted
  BY <1>2 DEF Crafted
<1>9. OneNonce'
  <2>1. Versions' \subseteq Versions
    BY <1>1, <1>2, <1>7 DEF Versions
  <2> QED BY <1>8, <2>1, OneNonceKept DEF Inv
<1>10. /\ IsFiniteSet(Txs') /\ AccountNonce \in Nat
       /\ AccountNonce' = IF e = NoTx THEN AccountNonce ELSE AccountNonce + 1
  <2>1. IsFiniteSet(Txs) /\ AccountNonce \in Nat
    BY FS_CardinalityType DEF Inv, ChainInOrder, AccountNonce
  <2>2. CASE e = NoTx
    <3>1. Txs' = Txs
      BY <1>7, <2>2
    <3> QED BY <2>1, <2>2, <3>1 DEF AccountNonce
  <2>3. CASE e # NoTx
    <3>1. e \notin Txs
      <4>1. \A t \in Txs : t.nonce < AccountNonce
        BY DEF Inv, ChainInOrder
      <4> QED BY <1>1, <2>1, <2>3, <4>1
    <3>2. Txs' = Txs \cup {e}
      BY <1>7, <2>3
    <3>3. IsFiniteSet(Txs \cup {e}) /\ Cardinality(Txs \cup {e}) = Cardinality(Txs) + 1
      BY <2>1, <3>1, FS_AddElement
    <3> QED BY <2>1, <2>3, <3>2, <3>3 DEF AccountNonce
  <2> QED BY <2>2, <2>3
<1>11. ChainInOrder'
  <2>1. ASSUME NEW i \in DOMAIN chain', NEW j \in DOMAIN chain', i < j, chain'[i] # NoTx, chain'[j] # NoTx
        PROVE  chain'[i].nonce < chain'[j].nonce
    <3>1. i \in 1..L /\ chain'[i] = chain[i]
      BY <1>3, <1>4, <2>1
    <3>2. CASE j \in 1..L
      BY <1>3, <1>4, <2>1, <3>1, <3>2 DEF Inv, ChainInOrder
    <3>3. CASE j = L + 1
      <4>1. chain[i] \in Txs
        BY <1>3, <2>1, <3>1
      <4>2. chain[i].nonce < AccountNonce
        BY <4>1 DEF Inv, ChainInOrder
      <4>3. chain'[j].nonce = AccountNonce
        BY <1>1, <1>4, <2>1, <3>3
      <4> QED BY <3>1, <4>2, <4>3
    <3> QED BY <1>3, <1>4, <3>2, <3>3
  <2>2. \A t \in Txs' : t.nonce < AccountNonce'
    <3>1. \A t \in Txs : t.nonce < AccountNonce /\ t.nonce \in Nat
      BY <1>3, Constants DEF Inv, ChainInOrder
    <3> QED BY <1>1, <1>7, <1>10, <3>1
  <2>3. ASSUME NEW n \in 0..AccountNonce' - 1 PROVE \E t \in Txs' : t.nonce = n
    <3>1. n \in 0..AccountNonce - 1 \/ (n = AccountNonce /\ e # NoTx)
      BY <1>10, <2>3
    <3>2. CASE n \in 0..AccountNonce - 1
      BY <1>7, <3>2 DEF Inv, ChainInOrder
    <3>3. CASE n = AccountNonce /\ e # NoTx
      BY <1>1, <1>7, <3>3
    <3> QED BY <3>1, <3>2, <3>3
  <2> QED BY <1>10, <2>1, <2>2, <2>3 DEF ChainInOrder
<1>12. Counted' /\ (nonce # << >> => NextNonce' = NextNonce)
  BY <1>2, <1>8, CountedKept DEF Inv
<1>13. \A h : Deep(h) => Deep(h)' /\ h \in 1..L /\ chain'[h] = chain[h]
  <2> SUFFICES ASSUME NEW h, Deep(h) PROVE Deep(h)' /\ h \in 1..L /\ chain'[h] = chain[h]
    OBVIOUS
  <2>1. h \in 1..L /\ h + NumConfirmations <= L + 1
    BY <1>3 DEF Deep, Confirmed, L
  <2>2. h \in 1..L + 1 /\ h + NumConfirmations <= (L + 1) + 1
    BY <1>3, <2>1, Constants
  <2> QED BY <1>4, <2>1, <2>2 DEF Deep, Confirmed
<1>14. Lasting'
  <2>1. \A h \in 1..L : h \in DOMAIN chain' /\ h \in 1..Len(chain') /\ chain'[h] = chain[h]
    BY <1>3, <1>4
  <2>2. \A s \in Sends : \A w \in waiters'[s] :
          w.at > 0 => w.at \in DOMAIN chain' /\ (chain'[w.at] = w.tx \/ w.tx \in unseen')
    BY <1>2, <1>3, <2>1 DEF Inv, Lasting
  <2>3. \A s \in Sends : receipt'[s] # NoTx =>
          receipt'[s] \in unseen' \/ \E h \in 1..Len(chain') : Deep(h)' /\ chain'[h] = receipt'[s]
    BY <1>2, <1>13, <2>1 DEF Inv, Lasting
  <2>4. \A s \in Sends : result'[s] = "receipt" =>
          \/ \E t \in unseen' : t.send = s
          \/ \E h \in 1..Len(chain') : Deep(h)' /\ chain'[h] # NoTx /\ chain'[h].send = s
    BY <1>2, <1>13, <2>1 DEF Inv, Lasting
  <2> QED BY <2>2, <2>3, <2>4 DEF Lasting
<1>15. Gapless'
  <2>1. \A n : Filled(n) => Filled(n)'
    BY <1>2 DEF Filled
  <2> SUFFICES ASSUME nonce # << >>, NEW n \in AccountNonce'..NextNonce - 1 PROVE Filled(n)
    BY <1>2, <1>12, <2>1 DEF Gapless
  <2>2. n \in AccountNonce..NextNonce - 1
    <3>1. NextNonce \in Int
      BY NextNonceType, Constants DEF Inv
    <3> QED BY <1>10, <3>1
  <2> QED BY <2>2 DEF Inv, Gapless
<1>16. InTurn'
  <2>1. Healthy' <=> Healthy
    BY <1>2 DEF Healthy, Cancelled, Failing
  <2> QED BY <1>2, <1>12, <2>1 DEF Inv, InTurn
<1> QED BY <1>5, <1>6, <1>9, <1>11, <1>12, <1>14, <1>15, <1>16 DEF Inv

(* The last transaction has the highest nonce. *)
LEMMA LastNonce ==
  ASSUME Types, ChainInOrder, chain # << >>, chain[Len(chain)] # NoTx
  PROVE  /\ AccountNonce \in Nat \ {0} /\ chain[Len(chain)].nonce = AccountNonce - 1
         /\ \A i \in 1..Len(chain) - 1 : chain[i] # chain[Len(chain)]
         /\ \A i \in 1..Len(chain) - 1 : chain[i] # NoTx => chain[i].nonce < AccountNonce - 1
<1> DEFINE L == Len(chain)
           t == chain[L]
<1>1. /\ L \in Nat /\ DOMAIN chain = 1..L
      /\ \A i \in 1..L : chain[i] \in Tx \cup {NoTx} /\ (chain[i] # NoTx => chain[i] \in Txs)
      /\ \A u \in Txs : u \in Tx /\ \E i \in 1..L : chain[i] = u
  BY ChainFacts
<1>2. L \in 1..L /\ L >= 1
  BY <1>1 DEF Types
<1>3. t \in Txs /\ t \in Tx /\ t.nonce \in Nat /\ t # NoTx
  BY <1>1, <1>2, Constants
<1>4. AccountNonce \in Nat /\ t.nonce < AccountNonce
  BY <1>3, FS_CardinalityType DEF ChainInOrder, AccountNonce
<1> HIDE DEF L
<1>5. \A i \in 1..L - 1 : i \in 1..L /\ i < L
  BY <1>1
<1>6. \A i \in 1..L - 1 : chain[i] # NoTx => chain[i].nonce < t.nonce
  BY <1>1, <1>2, <1>3, <1>5 DEF ChainInOrder
<1>7. AccountNonce - 1 \in 0..AccountNonce - 1
  BY <1>3, <1>4
<1>8. PICK u \in Txs : u.nonce = AccountNonce - 1
  BY <1>7 DEF ChainInOrder
<1>9. PICK i \in 1..L : chain[i] = u
  BY <1>1
<1>10. i = L
  <2> SUFFICES ASSUME i # L PROVE FALSE
    OBVIOUS
  <2>1. i \in 1..L - 1
    BY <1>1
  <2>2. u # NoTx
    BY DEF Txs
  <2>3. u.nonce < t.nonce
    BY <1>6, <1>9, <2>1, <2>2
  <2> QED BY <1>3, <1>4, <1>8, <2>3
<1>11. t.nonce = AccountNonce - 1
  BY <1>8, <1>9, <1>10
<1>12. \A k \in 1..L - 1 : chain[k] # t
  BY <1>3, <1>6
<1> QED BY <1>3, <1>4, <1>6, <1>11, <1>12 DEF L

LEMMA ReorgKeepsInv ==
  ASSUME Inv, Reorg
  PROVE  Inv'
<1> DEFINE L == Len(chain)
           t == chain[L]
<1>1. /\ NumConfirmations > 1 /\ chain # << >> /\ t # NoTx /\ faults' \in 0..MaxFaults
      /\ pool' \in {InPool(t), pool}
      /\ unseen' = IF Unnoticed(t) THEN unseen \cup {t} ELSE unseen
      /\ UNCHANGED <<nonce, next, inGo, groupErr, killed, pc, tx, ss, waiters, receipt, result>>
  BY FaultType DEF Reorg, queueVars, sendVars, Inv
<1>2. PICK k \in 1..2 : chain' = SubSeq(chain, 1, L - 1) \o [i \in 1..k |-> NoTx]
  BY DEF Reorg
<1>3. /\ L \in Nat /\ DOMAIN chain = 1..L /\ chain \in Seq(Tx \cup {NoTx})
      /\ \A i \in 1..L : chain[i] \in Tx \cup {NoTx} /\ (chain[i] # NoTx => chain[i] \in Txs)
      /\ \A u \in Txs : u \in Tx /\ \E i \in 1..L : chain[i] = u
  BY ChainFacts DEF Inv, Types
<1>4. L \in 1..L /\ L >= 1
  BY <1>1, <1>3
<1>5. t \in Txs /\ t \in Tx /\ t.nonce \in Nat /\ t.send \in Sends
  BY <1>1, <1>3, <1>4, Constants
<1>6. /\ AccountNonce \in Nat \ {0} /\ t.nonce = AccountNonce - 1
      /\ \A i \in 1..L - 1 : chain[i] # t
      /\ \A i \in 1..L - 1 : chain[i] # NoTx => chain[i].nonce < AccountNonce - 1
  BY <1>1, LastNonce DEF Inv
<1>7. /\ chain' \in Seq(Tx \cup {NoTx}) /\ Len(chain') = L - 1 + k /\ DOMAIN chain' = 1..L - 1 + k
      /\ \A i \in 1..L - 1 : chain'[i] = chain[i]
      /\ \A i \in L..L - 1 + k : chain'[i] = NoTx
  <2> DEFINE a == SubSeq(chain, 1, L - 1)
             b == [i \in 1..k |-> NoTx]
  <2>1. \A i \in 1..L - 1 : chain[i] \in Tx \cup {NoTx}
    BY <1>3
  <2>2. L - 1 \in Nat /\ k \in Nat
    BY <1>3, <1>4
  <2>3. /\ a \in Seq(Tx \cup {NoTx}) /\ Len(a) = L - 1
        /\ \A i \in 1..L - 1 : a[i] = chain[i]
    <3> HIDE DEF L
    <3>1. /\ SubSeq(chain, 1, L - 1) \in Seq(Tx \cup {NoTx})
          /\ Len(SubSeq(chain, 1, L - 1)) = IF 1 <= L - 1 THEN (L - 1) - 1 + 1 ELSE 0
          /\ \A i \in 1..(L - 1) - 1 + 1 : SubSeq(chain, 1, L - 1)[i] = chain[1 + i - 1]
      BY <2>1, <2>2, SubSeqProperties
    <3>2. \A i \in 1..L - 1 : i \in 1..(L - 1) - 1 + 1 /\ 1 + i - 1 = i
      BY <2>2
    <3>3. Len(SubSeq(chain, 1, L - 1)) = L - 1
      BY <2>2, <3>1
    <3>4. \A i \in 1..L - 1 : SubSeq(chain, 1, L - 1)[i] = chain[i]
      BY <3>1, <3>2
    <3> QED BY <3>1, <3>3, <3>4
  <2>4. b \in Seq(Tx \cup {NoTx}) /\ Len(b) = k /\ \A i \in 1..k : b[i] = NoTx
    BY <2>2
  <2>5. chain' = a \o b
    BY <1>2
  <2> HIDE DEF a, b, L
  <2>6. /\ chain' \in Seq(Tx \cup {NoTx}) /\ Len(chain') = Len(a) + Len(b)
        /\ \A i \in 1..Len(a) + Len(b) : chain'[i] = IF i <= Len(a) THEN a[i] ELSE b[i - Len(a)]
    BY <2>3, <2>4, <2>5, ConcatProperties
  <2>7. Len(chain') = L - 1 + k /\ DOMAIN chain' = 1..L - 1 + k
    BY <2>2, <2>3, <2>4, <2>6
  <2>8. \A i \in 1..L - 1 : i \in 1..Len(a) + Len(b) /\ i <= Len(a)
    BY <2>2, <2>3, <2>4
  <2>9. \A i \in L..L - 1 + k : i \in 1..Len(a) + Len(b) /\ ~(i <= Len(a)) /\ i - Len(a) \in 1..k
    BY <1>4, <2>2, <2>3, <2>4
  <2> QED BY <2>3, <2>4, <2>6, <2>7, <2>8, <2>9
<1> HIDE DEF L
<1>8. \A i \in 1..L - 1 + k : i \in 1..L - 1 \/ i \in L..L - 1 + k
  BY <1>3, <1>4
<1>9. \A i \in 1..L - 1 : i \in 1..L - 1 + k /\ i \in 1..L
  BY <1>3, <1>4
<1>10. Txs' = Txs \ {t}
  <2>1. ASSUME NEW u \in Txs' PROVE u \in Txs \ {t}
    <3>1. PICK i \in 1..L - 1 + k : u = chain'[i] /\ u # NoTx
      BY <1>7, <2>1 DEF Txs
    <3>2. i \in 1..L - 1 /\ u = chain[i]
      BY <1>7, <1>8, <3>1
    <3> QED BY <1>3, <1>6, <1>9, <3>1, <3>2
  <2>2. ASSUME NEW u \in Txs \ {t} PROVE u \in Txs'
    <3>1. PICK i \in 1..L : chain[i] = u
      BY <1>3
    <3>2. i # L /\ u # NoTx
      BY <3>1 DEF Txs
    <3>3. i \in 1..L - 1
      BY <1>3, <3>2
    <3>4. chain'[i] = u /\ i \in DOMAIN chain'
      BY <1>7, <1>9, <3>1, <3>3
    <3> QED BY <3>2, <3>4 DEF Txs
  <2> QED BY <2>1, <2>2
<1>11. pool' \in SUBSET Tx /\ unseen' \in SUBSET Tx /\ pool' \subseteq pool \cup {t}
       /\ unseen \subseteq unseen' /\ unseen' \subseteq unseen \cup {t}
  BY <1>1, <1>5 DEF InPool, Inv, Types
<1>12. Types'
  BY <1>1, <1>7, <1>11 DEF Inv, Types
<1>13. Owned'
  BY <1>1 DEF Inv, Owned
<1>14. Crafted' = Crafted
  BY <1>1 DEF Crafted
<1>15. OneNonce'
  <2>1. Versions' \subseteq Versions
    BY <1>1, <1>5, <1>10, <1>11 DEF Versions
  <2> QED BY <1>14, <2>1, OneNonceKept DEF Inv
<1>16. IsFiniteSet(Txs') /\ AccountNonce' = AccountNonce - 1
  <2>1. IsFiniteSet(Txs)
    BY DEF Inv, ChainInOrder
  <2> QED BY <1>5, <1>10, <2>1, FS_RemoveElement DEF AccountNonce
<1>17. ChainInOrder'
  <2>1. \A i, j \in DOMAIN chain' : i < j /\ chain'[i] # NoTx /\ chain'[j] # NoTx
                                      => chain'[i].nonce < chain'[j].nonce
    <3> SUFFICES ASSUME NEW i \in DOMAIN chain', NEW j \in DOMAIN chain', i < j,
                        chain'[i] # NoTx, chain'[j] # NoTx
                 PROVE  chain'[i].nonce < chain'[j].nonce
      OBVIOUS
    <3>1. i \in 1..L - 1 /\ j \in 1..L - 1
      BY <1>7, <1>8
    <3> QED BY <1>3, <1>7, <1>9, <3>1 DEF Inv, ChainInOrder
  <2>2. \A u \in Txs' : u.nonce < AccountNonce'
    <3> SUFFICES ASSUME NEW u \in Txs' PROVE u.nonce < AccountNonce - 1
      BY <1>16
    <3>1. PICK i \in 1..L - 1 + k : u = chain'[i] /\ u # NoTx
      BY <1>7 DEF Txs
    <3>2. i \in 1..L - 1 /\ u = chain[i]
      BY <1>7, <1>8, <3>1
    <3> QED BY <1>6, <3>1, <3>2
  <2>3. \A n \in 0..AccountNonce' - 1 : \E u \in Txs' : u.nonce = n
    <3> SUFFICES ASSUME NEW n \in 0..AccountNonce - 1 - 1 PROVE \E u \in Txs' : u.nonce = n
      BY <1>16
    <3>1. n \in 0..AccountNonce - 1 /\ n # t.nonce
      BY <1>6
    <3>2. PICK u \in Txs : u.nonce = n
      BY <3>1 DEF Inv, ChainInOrder
    <3> QED BY <1>10, <3>1, <3>2
  <2> QED BY <1>16, <2>1, <2>2, <2>3 DEF ChainInOrder
<1>18. Counted' /\ (nonce # << >> => NextNonce' = NextNonce)
  BY <1>1, <1>14, CountedKept DEF Inv
<1>19. \A h : Deep(h) => Deep(h)' /\ h \in 1..L - 1 /\ h \in 1..Len(chain') /\ chain'[h] = chain[h]
  <2> SUFFICES ASSUME NEW h, Deep(h)
               PROVE  Deep(h)' /\ h \in 1..L - 1 /\ h \in 1..Len(chain') /\ chain'[h] = chain[h]
    OBVIOUS
  <2>1. h \in 1..L /\ h + NumConfirmations <= L + 1
    BY <1>3 DEF Deep, Confirmed, L
  <2>2. h \in 1..L - 1 /\ h \in 1..L - 1 + k /\ h + NumConfirmations <= (L - 1 + k) + 1
    BY <1>1, <1>3, <2>1, Constants
  <2> QED BY <1>7, <2>2 DEF Deep, Confirmed
<1>20. Lasting'
  <2>1. ASSUME NEW s \in Sends, NEW w \in waiters[s], w.at > 0
        PROVE  w.at \in DOMAIN chain' /\ (chain'[w.at] = w.tx \/ w.tx \in unseen')
    <3>1. w.at \in 1..L /\ (chain[w.at] = w.tx \/ w.tx \in unseen)
      BY <1>3, <2>1 DEF Inv, Lasting
    <3>2. w.at \in DOMAIN chain'
      BY <1>3, <1>7, <3>1
    <3>3. CASE w.tx \in unseen
      BY <1>11, <3>2, <3>3
    <3>4. CASE w.at # L /\ chain[w.at] = w.tx
      <4>1. w.at \in 1..L - 1
        BY <1>3, <3>1, <3>4
      <4> QED BY <1>7, <3>2, <3>4, <4>1
    <3>5. CASE w.at = L /\ chain[w.at] = w.tx
      <4>1. w.tx = t /\ w.tx.send = s /\ pc[s] \in Sending
        BY <3>5 DEF Inv, Owned
      <4>2. result[s] = "none"
        BY <4>1 DEF Inv, Owned
      <4>3. Unnoticed(t)
        BY <2>1, <4>1, <4>2 DEF Unnoticed
      <4> QED BY <1>1, <3>2, <4>1, <4>3
    <3> QED BY <3>1, <3>3, <3>4, <3>5
  <2>2. \A s \in Sends : receipt'[s] # NoTx =>
          receipt'[s] \in unseen' \/ \E h \in 1..Len(chain') : Deep(h)' /\ chain'[h] = receipt'[s]
    BY <1>1, <1>11, <1>19 DEF Inv, Lasting
  <2>3. \A s \in Sends : result'[s] = "receipt" =>
          \/ \E u \in unseen' : u.send = s
          \/ \E h \in 1..Len(chain') : Deep(h)' /\ chain'[h] # NoTx /\ chain'[h].send = s
    BY <1>1, <1>11, <1>19 DEF Inv, Lasting
  <2> QED BY <1>1, <2>1, <2>2, <2>3 DEF Lasting
<1>21. Gapless'
  <2>0. PICK m : m = t.nonce
    OBVIOUS
  <2>1. \A n : Filled(n) => Filled(n)'
    BY <1>1, <1>11 DEF Filled
  <2>2. Filled(m)'
    <3>1. CASE Unnoticed(t)
      BY <1>1, <2>0, <3>1 DEF Filled
    <3>2. CASE pc[t.send] \in Sending
      <4>1. tx[t.send] \in Tx /\ tx[t.send].send = t.send
        BY <1>5, <3>2 DEF Inv, Owned
      <4>2. tx[t.send] \in Versions /\ t \in Versions
        BY <1>5, <4>1, Constants, VersionCases
      <4>3. tx[t.send].nonce = t.nonce
        BY <4>1, <4>2 DEF Inv, OneNonce
      <4>4. Filled(m)
        BY <1>5, <2>0, <3>2, <4>3 DEF Filled
      <4> QED BY <2>1, <4>4
    <3>3. CASE result[t.send] = "receipt"
      <4>1. CASE \E u \in unseen : u.send = t.send
        <5>1. PICK u \in unseen : u.send = t.send
          BY <4>1
        <5>2. u \in Versions /\ t \in Versions
          BY <1>5, VersionCases
        <5>3. u.nonce = t.nonce
          BY <5>1, <5>2 DEF Inv, OneNonce
        <5> QED BY <1>11, <2>0, <5>3 DEF Filled
      <4>2. ASSUME NEW h \in 1..Len(chain), Deep(h), chain[h] # NoTx, chain[h].send = t.send PROVE FALSE
        <5>1. h \in 1..L - 1
          BY <1>19, <4>2
        <5>2. chain[h] \in Txs
          BY <1>3, <1>9, <4>2, <5>1
        <5>3. chain[h] \in Versions /\ t \in Versions
          BY <1>5, <5>2, VersionCases
        <5>4. chain[h].nonce = t.nonce
          BY <4>2, <5>3 DEF Inv, OneNonce
        <5> QED BY <1>6, <4>2, <5>1, <5>4
      <4> QED BY <1>5, <3>3, <4>1, <4>2 DEF Inv, Lasting
    <3>4. Unnoticed(t) \/ pc[t.send] \in Sending \/ result[t.send] = "receipt"
      BY DEF Unnoticed, Sending
    <3> HIDE DEF t
    <3> QED BY <3>1, <3>2, <3>3, <3>4
  <2> SUFFICES ASSUME nonce # << >>, NEW n \in AccountNonce - 1..NextNonce - 1 PROVE Filled(n)'
    BY <1>1, <1>16, <1>18 DEF Gapless
  <2>3. n = t.nonce \/ n \in AccountNonce..NextNonce - 1
    <3>1. NextNonce \in Int
      BY NextNonceType, Constants DEF Inv
    <3> QED BY <1>6, <3>1
  <2> QED BY <2>0, <2>1, <2>2, <2>3 DEF Inv, Gapless
<1>22. InTurn'
  <2>1. Healthy' <=> Healthy
    BY <1>1 DEF Healthy, Cancelled, Failing
  <2> QED BY <1>1, <1>18, <2>1 DEF Inv, InTurn
<1> QED BY <1>12, <1>13, <1>15, <1>17, <1>18, <1>20, <1>21, <1>22 DEF Inv

-----------------------------------------------------------------------------
(* The theorems. *)

LEMMA NextKeepsInv == Inv /\ [Next]_vars => Inv'
<1> SUFFICES ASSUME Inv, [Next]_vars PROVE Inv'
  OBVIOUS
<1>1. CASE Send \/ Kill
  BY <1>1, QueueKeepsInv
<1>2. CASE GroupGo
  BY <1>2, GroupGoKeepsInv
<1>3. CASE MineBlock
  BY <1>3, MineBlockKeepsInv
<1>4. CASE Reorg
  BY <1>4, ReorgKeepsInv
<1>5. CASE Evict
  BY <1>5, EvictKeepsInv
<1>6. ASSUME NEW s \in Sends, SendStep(s) PROVE Inv'
  <2>1. CASE CraftTx(s)
    BY <2>1, CraftTxKeepsInv
  <2>2. CASE CraftFails(s) \/ TickAbort(s) \/ CtxDone(s)
    BY <2>2, FailuresKeepInv
  <2>3. CASE SignFails(s)
    BY <2>3, SignFailsKeepsInv
  <2>4. CASE SkipPublish(s) \/ Published(s) \/ Refused(s) \/ SendTransactionFails(s)
    BY <2>4, PublishKeepsInv
  <2>5. CASE Underpriced(s) \/ TickPublish(s)
    BY <2>5, ResubmitKeepsInv
  <2>6. CASE TakeReceipt(s)
    BY <2>6, TakeReceiptKeepsInv
  <2>7. ASSUME NEW w \in waiters[s], QueryReceipt(s, w) \/ QueryTip(s, w) PROVE Inv'
    BY <2>7, QueryReceiptKeepsInv, QueryTipKeepsInv
  <2>8. CASE Report(s)
    BY <2>8, QueueKeepsInv
  <2> QED BY <1>6, <2>1, <2>2, <2>3, <2>4, <2>5, <2>6, <2>7, <2>8 DEF SendStep
<1>7. CASE UNCHANGED vars
  <2>1. UNCHANGED <<nonce, next, inGo, groupErr, killed, pc, tx, ss, waiters, receipt, result, pool, chain,
                    unseen, faults>>
    BY <1>7 DEF vars
  <2>2. Types' /\ Owned'
    BY <2>1 DEF Inv, Types, Owned
  <2>3. Crafted' = Crafted /\ Txs' = Txs /\ \A h : Deep(h)' <=> Deep(h)
    BY <2>1, ChainUnchanged DEF Crafted
  <2>4. OneNonce'
    <3>1. Versions' = Versions
      BY <2>1, <2>3 DEF Versions
    <3> QED BY <2>3, <3>1, OneNonceKept DEF Inv
  <2>5. Lasting'
    BY <2>1, <2>3 DEF Inv, Lasting
  <2>6. Healthy' => Healthy
    BY <2>1 DEF Healthy, Cancelled, Failing
  <2>7. ChainInOrder' /\ Counted' /\ Gapless' /\ InTurn'
    BY <2>1, <2>3, <2>6, NoncesKept
  <2> QED BY <2>2, <2>4, <2>5, <2>7 DEF Inv
<1> QED BY <1>1, <1>2, <1>3, <1>4, <1>5, <1>6, <1>7 DEF Next

(* The transaction manager keeps its types, gives each send one nonce, in order while the group *)
(* is healthy, without a gap, and never loses a receipt.                                        *)
THEOREM Invariance == Spec => []Inv
BY InitInv, NextKeepsInv, PTL DEF Spec

(* The typing, for every value of the constants: among others, the nonce is a machine integer   *)
(* whatever decrements below zero, and none is given beyond the number of candidates.           *)
THEOREM TypeCorrectness == Spec => []TypeOK
<1>1. Inv => TypeOK
  <2> SUFFICES ASSUME Inv PROVE TypeOK
    OBVIOUS
  <2>1. \A s \in Sends : \A w \in waiters[s] : w.tx \in Tx /\ w.at \in 0..Len(chain)
    <3> SUFFICES ASSUME NEW s \in Sends, NEW w \in waiters[s]
                 PROVE  w.tx \in Tx /\ w.at \in 0..Len(chain)
      OBVIOUS
    <3>1. w.tx \in Tx /\ w.at \in Nat /\ Len(chain) \in Nat /\ DOMAIN chain = 1..Len(chain)
      BY ChainFacts DEF Inv, Types, Waiter
    <3>2. w.at > 0 => w.at \in 1..Len(chain)
      BY <3>1 DEF Inv, Lasting
    <3> QED BY <3>1, <3>2
  <2> QED BY <2>1 DEF Inv, Types, TypeOK, Modulus
<1> QED BY <1>1, Invariance, PTL

(* A send that returned a receipt has its transaction on the chain for good, unless the block   *)
(* was replaced between the two calls of queryReceipt (waitMined, TxMgr.Send).                  *)
THEOREM ReceiptsLast == Spec => []ConfirmedStays
<1>1. Inv => ConfirmedStays
  <2> SUFFICES ASSUME Inv, NEW s \in Sends, result[s] = "receipt"
               PROVE  \E t \in Txs \cup unseen : t.send = s
    BY DEF ConfirmedStays
  <2>1. CASE \E h \in 1..Len(chain) : Deep(h) /\ chain[h] # NoTx /\ chain[h].send = s
    BY <2>1 DEF Txs, Deep
  <2> QED BY <2>1 DEF Inv, Lasting
<1> QED BY <1>1, Invariance, PTL

(* Two sends use the same nonce at the same time only in a group that is failing                *)
(* (signWithNextNonce, resetNonce, Queue.groupContext).                                         *)
THEOREM NoncesDistinct == Spec => []SharedNonceOnlyWhenFailing
<1>1. Inv => SharedNonceOnlyWhenFailing
  BY DEF Inv, InTurn, SharedNonceOnlyWhenFailing, Sending
<1> QED BY <1>1, Invariance, PTL

(* Every nonce up to the manager's own is on the chain, held by a send that still publishes it, *)
(* or of a transaction that left the chain unnoticed (signWithNextNonce, resetNonce).           *)
THEOREM NoncesGapless == Spec => []NoNonceGap
<1>1. Inv => NoNonceGap
  <2> SUFFICES ASSUME Inv, nonce # << >>,
                      NEW n \in AccountNonce..(IF nonce[1] < N THEN nonce[1] ELSE -1)
               PROVE  Filled(n)
    BY DEF NoNonceGap, Filled, Sending
  <2>1. /\ nonce[1] \in 0..Modulus - 1 /\ Modulus \in Nat /\ Modulus > N /\ N \in Nat
        /\ NextNonce = IF nonce[1] + 1 = Modulus THEN 0 ELSE nonce[1] + 1
    BY NextNonceType, Constants DEF Inv
  <2>2. AccountNonce \in Nat
    BY AccountBound, CraftedFinite DEF Inv
  <2>3. n \in AccountNonce..NextNonce - 1
    BY <2>1, <2>2
  <2> QED BY <2>3 DEF Inv, Gapless
<1> QED BY <1>1, Invariance, PTL

-----------------------------------------------------------------------------
(* Fees. *)

(* Fees that a tenth of is not rounded away. *)
Substantial == \A s \in Sends : tx[s] # NoTx => tx[s].tip >= 10 /\ tx[s].cap >= 10

(* updateFees replaces substantial fees by higher ones. *)
LEMMA BumpFacts ==
  ASSUME NEW t \in Tx, t.tip >= 10, t.cap >= 10, NEW market \in Markets
  PROVE  LET fees == UpdateFees(t, market) IN
         Replaces(fees, t) /\ fees.tip \in Nat /\ fees.cap \in Nat /\ fees.tip >= 10 /\ fees.cap >= 10
<1> DEFINE fees == UpdateFees(t, market)
<1>1. market[1] \in Nat /\ market[2] \in Nat /\ t.tip \in Nat /\ t.cap \in Nat
  BY TxManagerAssumption, Constants
<1>2. \A x \in Nat : x >= 10 => (110 * x) \div 100 > x /\ (110 * x) \div 100 \in Nat
  OBVIOUS
<1>3. /\ fees.tip = IF market[1] >= (110 * t.tip) \div 100 THEN market[1] ELSE (110 * t.tip) \div 100
      /\ fees.cap = IF market[1] + 2 * market[2] < (110 * t.cap) \div 100 THEN (110 * t.cap) \div 100
                    ELSE fees.tip + 2 * market[2]
  BY DEF UpdateFees, CalcGasFeeCap, CalcThresholdValue
<1> DEFINE a == (110 * t.tip) \div 100
           c == (110 * t.cap) \div 100
<1>4. a \in Nat /\ a > t.tip /\ c \in Nat /\ c > t.cap
  BY <1>1, <1>2
<1> HIDE DEF fees, a, c
<1>5. fees.tip = IF market[1] >= a THEN market[1] ELSE a
  BY <1>3 DEF a
<1>6. fees.cap = IF market[1] + 2 * market[2] < c THEN c ELSE fees.tip + 2 * market[2]
  BY <1>3 DEF c
<1>7. fees.tip \in Nat /\ fees.tip >= a /\ fees.tip >= market[1]
  BY <1>1, <1>4, <1>5
<1>8. fees.cap \in Nat /\ fees.cap >= c
  BY <1>1, <1>4, <1>6, <1>7
<1>9. fees.tip > t.tip /\ fees.cap > t.cap /\ fees.tip >= 10 /\ fees.cap >= 10
  BY <1>1, <1>4, <1>7, <1>8
<1>10. Replaces(fees, t)
  BY <1>7, <1>8, <1>9 DEF Replaces, a, c
<1> QED BY <1>7, <1>8, <1>9, <1>10 DEF fees

LEMMA SubstantialKept ==
  ASSUME Inv, Substantial, [Next]_vars, \A market \in Markets : market[1] >= 10
  PROVE  Substantial'
<1>1. tx \in [Sends -> Tx \cup {NoTx}] /\ NoTx \notin Tx
  BY Constants DEF Inv, Types
<1>2. CASE tx' = tx
  BY <1>2 DEF Substantial
<1>3. ASSUME NEW s \in Sends, tx' = [tx EXCEPT ![s] = NoTx] PROVE Substantial'
  BY <1>1, <1>3 DEF Substantial
<1>4. ASSUME NEW s \in Sends, IncreaseGasPrice(s), pc[s] \in Sending PROVE Substantial'
  <2>1. tx[s] \in Tx /\ tx[s] # NoTx /\ tx[s].tip >= 10 /\ tx[s].cap >= 10
    BY <1>1, <1>4 DEF Inv, Owned, Substantial
  <2>2. PICK market \in Markets :
          \/ tx' = tx
          \/ tx' = [tx EXCEPT ![s].tip = UpdateFees(tx[s], market).tip,
                              ![s].cap = UpdateFees(tx[s], market).cap]
    BY <1>4 DEF IncreaseGasPrice
  <2> DEFINE tip == UpdateFees(tx[s], market).tip
             cap == UpdateFees(tx[s], market).cap
  <2>3. tip \in Nat /\ cap \in Nat /\ tip >= 10 /\ cap >= 10
    BY <2>1, BumpFacts
  <2>4. CASE tx' = [tx EXCEPT ![s].tip = tip, ![s].cap = cap]
    <3> HIDE DEF tip, cap
    <3>1. tx'[s].tip = tip /\ tx'[s].cap = cap
      BY <1>1, <2>1, <2>4 DEF Tx
    <3>2. \A r \in Sends : r # s => tx'[r] = tx[r]
      BY <1>1, <2>4
    <3> QED BY <2>3, <3>1, <3>2 DEF Substantial
  <2> QED BY <1>2, <2>2, <2>4
<1>5. ASSUME NEW s \in Sends, CraftTx(s) PROVE Substantial'
  <2>1. PICK market \in Markets :
          tx' = [tx EXCEPT ![s] = [send |-> s, nonce |-> NextNonce, tip |-> market[1],
                                   cap |-> CalcGasFeeCap(market[2], market[1])]]
    BY <1>5 DEF CraftTx
  <2>2. market[1] \in Nat /\ market[2] \in Nat /\ market[1] >= 10
    BY TxManagerAssumption
  <2>3. tx'[s].tip = market[1] /\ tx'[s].cap = market[1] + 2 * market[2]
    BY <1>1, <2>1 DEF CalcGasFeeCap
  <2>4. tx'[s].tip >= 10 /\ tx'[s].cap >= 10
    BY <2>2, <2>3
  <2>5. \A r \in Sends : r # s => tx'[r] = tx[r]
    BY <1>1, <2>1
  <2> QED BY <2>4, <2>5 DEF Substantial
<1>6. CASE Send \/ GroupGo \/ Kill \/ MineBlock \/ Reorg \/ Evict \/ UNCHANGED vars
  BY <1>2, <1>6 DEF Send, GroupGo, Kill, MineBlock, Reorg, Evict, sendVars, vars
<1>7. ASSUME NEW s \in Sends, SendStep(s) PROVE Substantial'
  <2>1. CASE CraftTx(s)
    BY <1>5, <2>1
  <2>2. CASE CraftFails(s) \/ TickAbort(s) \/ CtxDone(s) \/ TakeReceipt(s)
    BY <1>3, <2>2 DEF CraftFails, TickAbort, CtxDone, TakeReceipt, Fail, Clear
  <2>3. CASE Underpriced(s) \/ TickPublish(s)
    BY <1>4, <2>3 DEF Underpriced, TickPublish, ToSend, Sending
  <2>4. CASE \/ SignFails(s) \/ SkipPublish(s) \/ Published(s) \/ Refused(s) \/ SendTransactionFails(s)
             \/ (\E w \in waiters[s] : QueryReceipt(s, w) \/ QueryTip(s, w)) \/ Report(s)
    BY <1>2, <2>4 DEF SignFails, SkipPublish, Published, Refused, SendTransactionFails, QueryReceipt,
                      QueryTip, Report, sendVars
  <2> QED BY <1>7, <2>1, <2>2, <2>3, <2>4 DEF SendStep
<1> QED BY <1>6, <1>7 DEF Next

(* As long as the L1 suggests tips of at least 10 wei, every resubmission of a transaction      *)
(* satisfies the pool's replacement rule, whatever the market does (updateFees,                 *)
(* increaseGasPrice, calcThresholdValue).                                                       *)
THEOREM ResubmissionsReplace ==
  ASSUME \A market \in Markets : market[1] >= 10
  PROVE  Spec => []BumpReplaces
<1>1. Init => Substantial
  BY DEF Init, Substantial
<1>2. Inv /\ Substantial /\ [Next]_vars => Substantial'
  BY SubstantialKept
<1>3. Inv /\ Substantial => BumpReplaces
  <2> SUFFICES ASSUME Inv, Substantial, NEW s \in Sends, tx[s] # NoTx, NEW market \in Markets
               PROVE  Replaces(UpdateFees(tx[s], market), tx[s])
    BY DEF BumpReplaces
  <2>1. tx[s] \in Tx /\ tx[s].tip >= 10 /\ tx[s].cap >= 10
    BY DEF Inv, Types, Substantial
  <2> QED BY <2>1, BumpFacts
<1> QED BY <1>1, <1>2, <1>3, Invariance, PTL DEF Spec
=============================================================================
