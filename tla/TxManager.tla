----------------------------- MODULE TxManager ------------------------------
(***************************************************************************)
(* The transaction manager (op-service/txmgr): Queue, SimpleTxManager and  *)
(* SendState, with the L1 they talk to.                                    *)
(*                                                                         *)
(* A caller gives the queue the candidates 1 to N, in order.  Each becomes *)
(* a goroutine of the current error group: it takes a nonce, publishes its *)
(* transaction, publishes it again with higher fees whenever the ticker    *)
(* fires, and polls for a receipt of every version it published.  The      *)
(* first error cancels the whole group; the queue starts no other group    *)
(* before the old one has ended.                                           *)
(*                                                                         *)
(* The L1 (external): a pool with at most one transaction per nonce and    *)
(* blocks with at most one of ours.  A block may be reorganised out, but   *)
(* never one with NumConfirmations.  Remote calls may fail, and if Lossy,  *)
(* SendTransaction may fail after the pool took the transaction.           *)
(***************************************************************************)
EXTENDS Integers, Sequences, FiniteSets

CONSTANTS
  N,                    \* candidates
  MaxPending,           \* maxPending of the queue
  SafeAbortNonceTooLowCount,
  NumConfirmations,
  FeeLimitMultiplier,
  Markets,              \* fee suggestions <<tip, basefee>> of the L1
  NonceBits,            \* width of a nonce: 64
  Lossy,                \* may the L1 lose accepted transactions, and answers?
  MaxFaults             \* bound: failed calls, dropped transactions, reorgs

ASSUME TxManagerAssumption ==
  /\ N \in Nat \ {0} /\ MaxPending \in Nat \ {0} /\ MaxFaults \in Nat
  /\ SafeAbortNonceTooLowCount \in Nat \ {0}  \* NewSendStateWithNow panics on 0
  /\ NumConfirmations \in Nat \ {0} /\ FeeLimitMultiplier \in Nat \ {0}
  /\ Markets \subseteq Nat \X Nat
  /\ NonceBits \in Nat /\ 2 ^ NonceBits \in Nat /\ 2 ^ NonceBits > N
  /\ Lossy \in BOOLEAN

Sends == 1..N
NoTx == [send |-> 0, nonce |-> 0, tip |-> 0, cap |-> 0]

VARIABLES
  nonce,     \* SimpleTxManager.nonce: <<>> for nil, or <<n>>
  next,      \* the caller: next candidate to send
  inGo,      \* ... has its group and waits in group.Go for a free place
  groupErr,  \* the group's context is cancelled by an error of a member
  killed,    \* the queue's own context is cancelled
  pc,        \* where the goroutine of each send is
  tx,        \* latest version of its transaction
  ss,        \* its SendState
  waiters,   \* its waitForTx goroutines: [tx, at], at is the height of a receipt in hand, or 0
  receipt,   \* its receiptChan, of capacity 1: NoTx or the confirmed transaction
  result,    \* what Send returned: "none", "receipt", "error"
  pool,      \* L1: transactions waiting
  chain,     \* L1: per block our transaction, or NoTx
  unseen,    \* history: transactions that left the chain and their send will not notice
  faults

vars == <<nonce, next, inGo, groupErr, killed, pc, tx, ss, waiters, receipt,
          result, pool, chain, unseen, faults>>
queueVars == <<next, inGo, groupErr, killed>>
sendVars == <<pc, tx, ss, waiters, receipt, result>>
l1Vars == <<pool, chain>>

InGroup == {"craft", "publish", "loop", "report"}    \* goroutines of the group
NewSendState == [minedTxs |-> {}, nonceTooLowCount |-> 0, published |-> FALSE]

Init ==
  /\ nonce = << >> /\ next = 1 /\ inGo = FALSE /\ groupErr = FALSE /\ killed = FALSE
  /\ pc = [s \in Sends |-> "new"]
  /\ tx = [s \in Sends |-> NoTx]
  /\ ss = [s \in Sends |-> NewSendState]
  /\ waiters = [s \in Sends |-> {}]
  /\ receipt = [s \in Sends |-> NoTx]
  /\ result = [s \in Sends |-> "none"]
  /\ pool = {} /\ chain = << >> /\ unseen = {} /\ faults = 0

Cancelled == groupErr \/ killed      \* the context of every send of the group
Fault == faults < MaxFaults /\ faults' = faults + 1
NoFault == faults' = faults
(* A remote call fails: by a fault of the L1, or because its context is cancelled *)
(* with the group, or by TxSendTimeout, which counts as a fault.                   *)
CallFails == (Cancelled /\ NoFault) \/ Fault

-----------------------------------------------------------------------------
(* Fees. *)

CalcGasFeeCap(baseFee, gasTipCap) == gasTipCap + 2 * baseFee

(* A faulty variant: only a 5% increase. *)
CalcThresholdTooLow(x) == (105 * x) \div 100
CalcThresholdValue(x) == (110 * x) \div 100

UpdateFees(old, market) ==
  LET newTip == market[1]
      newFeeCap == CalcGasFeeCap(market[2], newTip)
      thresholdTip == CalcThresholdValue(old.tip)
      thresholdFeeCap == CalcThresholdValue(old.cap)
      tip == IF newTip >= thresholdTip THEN newTip ELSE thresholdTip
  IN [tip |-> tip,
      cap |-> IF newFeeCap < thresholdFeeCap THEN thresholdFeeCap
              ELSE CalcGasFeeCap(market[2], tip)]

OverFeeLimit(fees, market) ==
  LET maxTip == FeeLimitMultiplier * market[1]
  IN fees.tip > maxTip \/ fees.cap > CalcGasFeeCap(FeeLimitMultiplier * market[2], maxTip)

(* The pool's rule: both fees higher, and by at least a tenth. *)
Replaces(new, old) ==
  /\ new.tip > old.tip /\ new.cap > old.cap
  /\ new.tip >= (110 * old.tip) \div 100 /\ new.cap >= (110 * old.cap) \div 100

-----------------------------------------------------------------------------
(* The L1. *)

Txs == {chain[i] : i \in DOMAIN chain} \ {NoTx}
AccountNonce == Cardinality(Txs)
Heights(t) == {i \in DOMAIN chain : chain[i] = t}

SendResult(t) ==
  IF t.nonce < AccountNonce THEN "nonceTooLow"
  ELSE IF t \in pool THEN "alreadyKnown"
  ELSE IF \E p \in pool : p.nonce = t.nonce /\ ~Replaces(t, p) THEN "underpriced"
  ELSE "ok"

InPool(t) == {p \in pool : p.nonce # t.nonce} \cup {t}

(* A block with a waiting transaction, or one more on top of a transaction. *)
MineBlock ==
  /\ \/ \E t \in pool : t.nonce = AccountNonce /\ chain' = Append(chain, t) /\ pool' = pool \ {t}
     \/ chain # << >> /\ chain[Len(chain)] # NoTx /\ chain' = Append(chain, NoTx) /\ UNCHANGED pool
  /\ UNCHANGED <<nonce, queueVars, sendVars, unseen, faults>>

(* The send has failed, or is between the two calls of queryReceipt. *)
Unnoticed(t) ==
  /\ result[t.send] # "receipt"
  /\ pc[t.send] \in {"publish", "loop"} => \E w \in waiters[t.send] : w.tx = t /\ w.at > 0

(* The last block is replaced by one or two without it; its transaction is *)
(* back in the pool, or lost.                                              *)
Reorg ==
  /\ NumConfirmations > 1 /\ chain # << >> /\ chain[Len(chain)] # NoTx
  /\ Fault
  /\ LET t == chain[Len(chain)]
         rest == SubSeq(chain, 1, Len(chain) - 1)
     IN /\ \E k \in 1..2 : chain' = rest \o [i \in 1..k |-> NoTx]
        /\ pool' \in {InPool(t)} \cup (IF Lossy THEN {pool} ELSE {})
        /\ unseen' = IF Unnoticed(t) THEN unseen \cup {t} ELSE unseen
  /\ UNCHANGED <<nonce, queueVars, sendVars>>

(* The pool drops a transaction. *)
Evict ==
  /\ Lossy /\ Fault
  /\ \E t \in pool : pool' = pool \ {t}
  /\ UNCHANGED <<nonce, queueVars, sendVars, chain, unseen>>

-----------------------------------------------------------------------------
(* Queue. *)

(* A faulty variant: a new group without waiting for the old one. *)
GroupContextNoWait == IF Cancelled THEN groupErr' = FALSE ELSE UNCHANGED groupErr

(* groupContext: keeps the group, or waits for its goroutines and makes a new one. *)
GroupContext ==
  IF Cancelled THEN (\A s \in Sends : pc[s] \notin InGroup) /\ groupErr' = FALSE
  ELSE UNCHANGED groupErr

Send ==
  /\ next \in Sends /\ ~inGo
  /\ GroupContext
  /\ inGo' = TRUE
  /\ UNCHANGED <<nonce, next, killed, sendVars, l1Vars, unseen, faults>>

GroupGo ==
  /\ inGo /\ Cardinality({s \in Sends : pc[s] \in InGroup}) < MaxPending
  /\ pc' = [pc EXCEPT ![next] = "craft"]
  /\ next' = next + 1 /\ inGo' = FALSE
  /\ UNCHANGED <<nonce, groupErr, killed, tx, ss, waiters, receipt, result, l1Vars, unseen, faults>>

(* A faulty variant: an error does not cancel the group. *)
ReportUncancelled(s) ==
  /\ pc[s] = "report"
  /\ pc' = [pc EXCEPT ![s] = "done"]
  /\ UNCHANGED <<nonce, queueVars, tx, ss, waiters, receipt, result, l1Vars, unseen, faults>>

(* The caller reads the receipt channel, which is unbuffered; sendTx returns to the group. *)
Report(s) ==
  /\ pc[s] = "report"
  /\ pc' = [pc EXCEPT ![s] = "done"]
  /\ groupErr' = (groupErr \/ result[s] = "error")
  /\ UNCHANGED <<nonce, next, inGo, killed, tx, ss, waiters, receipt, result, l1Vars, unseen, faults>>

(* The owner of the queue cancels its context. *)
Kill ==
  /\ ~killed /\ Fault /\ killed' = TRUE
  /\ UNCHANGED <<nonce, next, inGo, groupErr, sendVars, l1Vars, unseen>>

-----------------------------------------------------------------------------
(* SimpleTxManager: Send, craftTx, signWithNextNonce. *)

(* A faulty variant: a wider integer, which does not wrap. *)
NextNonceUnwrapped == IF nonce = << >> THEN AccountNonce ELSE nonce[1] + 1
(* signWithNextNonce before signing: fetched from the latest block, or incremented. *)
NextNonce == IF nonce = << >> THEN AccountNonce ELSE (nonce[1] + 1) % 2 ^ NonceBits

(* A faulty variant: the nonce of a failed signature is skipped. *)
SignFailsSkipping(s) ==
  /\ pc[s] = "craft" /\ CallFails
  /\ nonce' = <<NextNonce>>
  /\ UNCHANGED <<queueVars, sendVars, l1Vars, unseen>>

(* Signing fails: the nonce is decremented, below 0 when it was just fetched as 0. *)
SignFails(s) ==
  /\ pc[s] = "craft" /\ CallFails
  /\ nonce' = <<(NextNonce - 1) % 2 ^ NonceBits>>
  /\ UNCHANGED <<queueVars, sendVars, l1Vars, unseen>>

(***************************************************************************)
(* Send returns an error, after resetNonce.  The locals of sendTx go, and  *)
(* the goroutines of waitForTx end with its context.                       *)
(***************************************************************************)
Clear(s) ==
  /\ tx' = [tx EXCEPT ![s] = NoTx]
  /\ ss' = [ss EXCEPT ![s] = NewSendState]
  /\ waiters' = [waiters EXCEPT ![s] = {}]
  /\ receipt' = [receipt EXCEPT ![s] = NoTx]

Fail(s) ==
  /\ Clear(s)
  /\ nonce' = << >>
  /\ pc' = [pc EXCEPT ![s] = "report"]
  /\ result' = [result EXCEPT ![s] = "error"]
  /\ UNCHANGED <<queueVars, l1Vars, unseen>>

(* The retries of craftTx end: another call fails for good, or the context is cancelled. *)
CraftFails(s) == pc[s] = "craft" /\ CallFails /\ Fail(s)

CraftTx(s) ==
  /\ pc[s] = "craft"
  /\ nonce' = <<NextNonce>>
  /\ \E market \in Markets :
       tx' = [tx EXCEPT ![s] = [send |-> s, nonce |-> NextNonce, tip |-> market[1],
                                cap |-> CalcGasFeeCap(market[2], market[1])]]
  /\ pc' = [pc EXCEPT ![s] = "publish"]
  /\ UNCHANGED <<queueVars, ss, waiters, receipt, result, l1Vars, unseen, faults>>

-----------------------------------------------------------------------------
(* publishTx and the select loop of sendTx. *)

(***************************************************************************)
(* increaseGasPrice: a new version to publish; a failing signature gives   *)
(* the old one back; a failing call or the fee limit ends publishTx.  The  *)
(* gas estimate is asked for with tip and fee cap exchanged, which a node  *)
(* that compares them refuses: that is no fault, and may happen each time. *)
(***************************************************************************)
IncreaseGasPrice(s) ==
  \E market \in Markets :
    LET fees == UpdateFees(tx[s], market)
        over == OverFeeLimit(fees, market)
    IN \/ /\ ~over /\ NoFault
          /\ tx' = [tx EXCEPT ![s].tip = fees.tip, ![s].cap = fees.cap]
          /\ pc' = [pc EXCEPT ![s] = "publish"]
       \/ /\ ~over /\ CallFails
          /\ UNCHANGED tx /\ pc' = [pc EXCEPT ![s] = "publish"]
       \/ /\ NoFault \/ CallFails
          /\ UNCHANGED tx /\ pc' = [pc EXCEPT ![s] = "loop"]

(* A version of it has been mined in the meantime: no other is published. *)
SkipPublish(s) ==
  /\ pc[s] = "publish" /\ ss[s].minedTxs # {}
  /\ pc' = [pc EXCEPT ![s] = "loop"]
  /\ UNCHANGED <<nonce, queueVars, tx, ss, waiters, receipt, result, l1Vars, unseen, faults>>

ToSend(s) == pc[s] = "publish" /\ ss[s].minedTxs = {}

(* SendTransaction succeeds: a goroutine waits for this version. *)
Published(s) ==
  /\ ToSend(s) /\ SendResult(tx[s]) = "ok"
  /\ pool' = InPool(tx[s])
  /\ ss' = [ss EXCEPT ![s].published = TRUE]
  /\ waiters' = [waiters EXCEPT ![s] = @ \cup {[tx |-> tx[s], at |-> 0]}]
  /\ pc' = [pc EXCEPT ![s] = "loop"]
  /\ UNCHANGED <<nonce, queueVars, tx, receipt, result, chain, unseen, faults>>

(* The pool refuses it; ProcessSendError counts the nonces that are too low. *)
Refused(s) ==
  /\ ToSend(s) /\ SendResult(tx[s]) \in {"nonceTooLow", "alreadyKnown"}
  /\ ss' = IF SendResult(tx[s]) = "nonceTooLow" THEN [ss EXCEPT ![s].nonceTooLowCount = @ + 1] ELSE ss
  /\ pc' = [pc EXCEPT ![s] = "loop"]
  /\ UNCHANGED <<nonce, queueVars, tx, waiters, receipt, result, l1Vars, unseen, faults>>

(* Underpriced: again with higher fees, at once. *)
Underpriced(s) ==
  /\ ToSend(s) /\ SendResult(tx[s]) = "underpriced"
  /\ IncreaseGasPrice(s)
  /\ UNCHANGED <<nonce, queueVars, ss, waiters, receipt, result, l1Vars, unseen>>

(* The call fails or times out; the pool may have the transaction all the same. *)
SendTransactionFails(s) ==
  /\ ToSend(s) /\ CallFails
  /\ pool' \in {pool} \cup (IF Lossy /\ SendResult(tx[s]) = "ok" THEN {InPool(tx[s])} ELSE {})
  /\ pc' = [pc EXCEPT ![s] = "loop"]
  /\ UNCHANGED <<nonce, queueVars, tx, ss, waiters, receipt, result, chain, unseen>>

(* Whether txInMempoolDeadline has passed is left open: it may at any time. *)
MayAbort(st) ==
  /\ st.minedTxs = {}
  /\ st.nonceTooLowCount >= SafeAbortNonceTooLowCount \/ ~st.published

MustAbort(st) == st.minedTxs = {} /\ st.nonceTooLowCount >= SafeAbortNonceTooLowCount

TickAbort(s) == pc[s] = "loop" /\ MayAbort(ss[s]) /\ NoFault /\ Fail(s)

TickPublish(s) ==
  /\ pc[s] = "loop" /\ ss[s].minedTxs = {} /\ ~MustAbort(ss[s])
  /\ IncreaseGasPrice(s)
  /\ UNCHANGED <<nonce, queueVars, ss, waiters, receipt, result, l1Vars, unseen>>

(* The context of the send is done: cancelled with its group, or timed out. *)
CtxDone(s) == pc[s] = "loop" /\ CallFails /\ Fail(s)

TakeReceipt(s) ==
  /\ pc[s] = "loop" /\ receipt[s] # NoTx
  /\ Clear(s)
  /\ pc' = [pc EXCEPT ![s] = "report"]
  /\ result' = [result EXCEPT ![s] = "receipt"]
  /\ UNCHANGED <<nonce, queueVars, l1Vars, unseen, faults>>

-----------------------------------------------------------------------------
(* waitForTx: queryReceipt makes two calls. *)

TxNotMined(st, t) ==
  LET left == st.minedTxs \ {t}
  IN [st EXCEPT !.minedTxs = left,
        !.nonceTooLowCount = IF left = {} /\ t \in st.minedTxs THEN 0 ELSE @]

QueryReceipt(s, w) ==
  /\ w \in waiters[s] /\ w.at = 0
  /\ IF Heights(w.tx) = {}
     THEN ss' = [ss EXCEPT ![s] = TxNotMined(@, w.tx)] /\ UNCHANGED waiters
     ELSE /\ ss' = [ss EXCEPT ![s].minedTxs = @ \cup {w.tx}]
          /\ \E h \in Heights(w.tx) :
               waiters' = [waiters EXCEPT ![s] = (@ \ {w}) \cup {[w EXCEPT !.at = h]}]
  /\ UNCHANGED <<nonce, queueVars, pc, tx, receipt, result, l1Vars, unseen, faults>>

(* A faulty variant: one confirmation too few. *)
ConfirmedEarly(txHeight, tipHeight) == txHeight + NumConfirmations <= tipHeight + 2
Confirmed(txHeight, tipHeight) == txHeight + NumConfirmations <= tipHeight + 1

(* The receipt goes to receiptChan unless it is full; a failing call means another poll. *)
QueryTip(s, w) ==
  /\ w \in waiters[s] /\ w.at > 0
  /\ \/ /\ Confirmed(w.at, Len(chain)) /\ NoFault
        /\ receipt' = [receipt EXCEPT ![s] = IF @ = NoTx THEN w.tx ELSE @]
        /\ waiters' = [waiters EXCEPT ![s] = @ \ {w}]
     \/ /\ (~Confirmed(w.at, Len(chain)) /\ NoFault) \/ CallFails
        /\ waiters' = [waiters EXCEPT ![s] = (@ \ {w}) \cup {[w EXCEPT !.at = 0]}]
        /\ UNCHANGED receipt
  /\ UNCHANGED <<nonce, queueVars, pc, tx, ss, result, l1Vars, unseen>>

-----------------------------------------------------------------------------
SendStep(s) ==
  \/ CraftTx(s) \/ CraftFails(s) \/ SignFails(s)
  \/ SkipPublish(s) \/ Published(s) \/ Refused(s) \/ Underpriced(s) \/ SendTransactionFails(s)
  \/ TickAbort(s) \/ TickPublish(s) \/ CtxDone(s) \/ TakeReceipt(s)
  \/ \E w \in waiters[s] : QueryReceipt(s, w) \/ QueryTip(s, w)
  \/ Report(s)

Next == Send \/ GroupGo \/ Kill \/ MineBlock \/ Reorg \/ Evict \/ \E s \in Sends : SendStep(s)

(***************************************************************************)
(* Goroutines run and the receipt channel is read; the L1 mines what it    *)
(* can; the deadline passes, and a select sees the cancelled context or    *)
(* the receipt although the ticker fires as well (strong fairness).  No    *)
(* fee bump needs to succeed: TickPublish has no fairness.                 *)
(***************************************************************************)
Fairness ==
  /\ WF_vars(Send \/ GroupGo) /\ WF_vars(MineBlock)
  /\ \A s \in Sends :
       /\ WF_vars(CraftTx(s) \/ CraftFails(s) \/ SkipPublish(s) \/ Published(s)
                  \/ Refused(s) \/ Underpriced(s) \/ Report(s))
       /\ SF_vars(TickAbort(s)) /\ SF_vars(Cancelled /\ CtxDone(s)) /\ SF_vars(TakeReceipt(s))
       /\ WF_vars(\E w \in waiters[s] : QueryReceipt(s, w) \/ QueryTip(s, w))

Spec == Init /\ [][Next]_vars
FairSpec == Spec /\ Fairness

-----------------------------------------------------------------------------
Tx == [send : Sends, nonce : 0..N, tip : Nat, cap : Nat]

(* Types: the nonce is nil or a machine integer, and no transaction was ever *)
(* given a nonce beyond the number of candidates.                            *)
TypeOK ==
  /\ nonce = << >> \/ nonce \in {<<n>> : n \in 0..2 ^ NonceBits - 1}
  /\ next \in 1..N + 1 /\ inGo \in BOOLEAN /\ groupErr \in BOOLEAN /\ killed \in BOOLEAN
  /\ pc \in [Sends -> InGroup \cup {"new", "done"}]
  /\ \A s \in Sends : tx[s] \in Tx \cup {NoTx} /\ receipt[s] \in Tx \cup {NoTx}
  /\ \A s \in Sends : ss[s].minedTxs \subseteq Tx /\ ss[s].nonceTooLowCount \in Nat
  /\ \A s \in Sends : \A w \in waiters[s] : w.tx \in Tx /\ w.at \in 0..Len(chain)
  /\ result \in [Sends -> {"none", "receipt", "error"}]
  /\ \A t \in pool : t \in Tx
  /\ (\A t \in unseen : t \in Tx) /\ faults \in 0..MaxFaults

Failing(s) == pc[s] = "report" /\ result[s] = "error"
Healthy == ~Cancelled /\ \A s \in Sends : ~Failing(s)

(* A send that returned a receipt has its transaction on the chain for good, unless *)
(* the block was replaced between the two calls of queryReceipt: a reorg shallower  *)
(* than NumConfirmations cannot undo it.                                            *)
ConfirmedStays ==
  \A s \in Sends : result[s] = "receipt" => \E t \in Txs \cup unseen : t.send = s

(* Two sends use the same nonce at the same time only in a group that is failing,   *)
(* so that both are about to be cancelled: resetNonce makes the manager ask for the *)
(* nonce of the latest block while others of the group still hold higher ones.      *)
SharedNonceOnlyWhenFailing ==
  Healthy => \A s, t \in Sends :
    s # t /\ pc[s] \in {"publish", "loop"} /\ pc[t] \in {"publish", "loop"} => tx[s].nonce # tx[t].nonce

(* Every nonce up to the manager's own is on the chain or held by a send that still  *)
(* publishes it: neither failed signatures nor a send that failed (resetNonce) leave *)
(* a gap that would keep the later transactions out of every block.  The one         *)
(* exception is a transaction that left the chain and is nobody's any more.          *)
NoNonceGap ==
  nonce # << >> =>
    \A n \in AccountNonce..(IF nonce[1] < N THEN nonce[1] ELSE -1) :
      \/ \E s \in Sends : pc[s] \in {"publish", "loop"} /\ tx[s].nonce = n
      \/ \E t \in unseen : t.nonce = n

(* updateFees: whatever the market then, the next resubmission of a transaction   *)
(* satisfies the pool's replacement rule.  Fees are at least 10 wei: below that a *)
(* tenth is rounded away.                                                         *)
BumpReplaces ==
  \A s \in Sends : tx[s] # NoTx =>
    \A market \in Markets : Replaces(UpdateFees(tx[s], market), tx[s])

(* Every send the queue accepted is reported to the caller, with a receipt or with an *)
(* error: none waits forever for a nonce before it that nobody fills.                 *)
EverySendReported == \A s \in Sends : pc[s] = "craft" ~> pc[s] = "done"
=============================================================================
