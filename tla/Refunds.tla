------------------------------- MODULE Refunds -------------------------------
(***************************************************************************)
(* RefundOperationsService: the refunds of one succeeded payment.  An      *)
(* admin requests a refund against the balance that is left; an admin, or  *)
(* a worker for a provider event, finalises it; a success recomputes what  *)
(* the payment has refunded.                                               *)
(*                                                                         *)
(* Every operation reads and checks before its transaction.  PostgreSQL    *)
(* runs the transaction at its default level, READ COMMITTED: a row that   *)
(* was written stays locked until the commit, and nobody else sees the new *)
(* value before it.  The row of a refund is written first, the row of the  *)
(* payment last, after the refunds were read again.                        *)
(***************************************************************************)
EXTENDS Integers, FiniteSets, Functions

CONSTANTS
  RefundIds,     \* refunds, by idempotency key (without one: a key of its own)
  NoRefund,
  Paid,          \* the amount of the payment
  Amounts,       \* amounts an admin may ask back
  Processes,     \* requests and workers in flight at once
  SplitRequests  \* may another step fall between the steps of an operation?

ASSUME RefundsAssumption ==
  /\ IsFiniteSet(RefundIds) /\ NoRefund \notin RefundIds
  /\ Paid \in Nat \ {0} /\ Amounts \subseteq Int
  /\ SplitRequests \in BOOLEAN

VARIABLES
  refund,    \* Refund rows: status and amount
  payment,   \* the Payment row: status and refundedAmount
  request    \* what each process is doing

refundVars == <<refund, payment, request>>

RefundStatus == { "PENDING", "PROCESSING", "SUCCEEDED", "FAILED", "CANCELLED" }
Refundable == { "SUCCEEDED", "PARTIALLY_REFUNDED" }
(* Broken variant: a refund that failed may still be made. *)
FinalizableOrFailed == { "PENDING", "PROCESSING", "FAILED" }
Finalizable == { "PENDING", "PROCESSING" }
Reserved == Finalizable \cup { "SUCCEEDED" }

RefundTarget == [succeed |-> "SUCCEEDED", fail |-> "FAILED", cancel |-> "CANCELLED"]
FinalOps == DOMAIN RefundTarget

RefundStep == { "idle", "create", "transition", "total", "write", "publish" }
InHand == { "create", "transition", "total", "write" }
Idle == [op |-> "none", refund |-> NoRefund, amount |-> 0, counted |-> {}, step |-> "idle"]

RefundTypeOK ==
  /\ refund \in [RefundIds -> [status : RefundStatus \cup { "NONE" }, amount : Nat]]
  /\ payment \in [status : Refundable \cup { "REFUNDED" }, refunded : Int]
  /\ request \in [Processes -> [op : FinalOps \cup { "request", "none" },
                                refund : RefundIds \cup {NoRefund},
                                amount : Nat, counted : SUBSET RefundIds,
                                step : RefundStep]]

TotalOf(rs) == SumFunctionOnSet([r \in RefundIds |-> refund[r].amount], rs)
With(statuses) == { r \in RefundIds : refund[r].status \in statuses }

Available == Paid - TotalOf(With(Reserved))

-----------------------------------------------------------------------------
MayInterleave(p) == SplitRequests \/ \A q \in Processes \ {p} : request[q].step \notin InHand

At(p, step) == request[p].step = step /\ MayInterleave(p)
Goto(p, op, r, amount, step) ==
  request' = [request EXCEPT ![p] =
                [op |-> op, refund |-> r, amount |-> amount, counted |-> {}, step |-> step]]
Step(p, step) == request' = [request EXCEPT ![p].step = step]
Done(p) == request' = [request EXCEPT ![p] = Idle]

RefundInit ==
  /\ refund = [r \in RefundIds |-> [status |-> "NONE", amount |-> 0]]
  /\ payment = [status |-> "SUCCEEDED", refunded |-> 0]
  /\ request = [p \in Processes |-> Idle]

-----------------------------------------------------------------------------
(* Broken variant: forgets the refunds still under way. *)
BalanceOfSucceeded(a) == a <= Paid - TotalOf(With({ "SUCCEEDED" }))
WithinBalance(a) == a <= Available

(* requestCurrentAdminRefund; a key that is known is answered from its row. *)
BeginRequest(p, r, a) ==
  /\ At(p, "idle")
  /\ refund[r].status = "NONE"
  /\ payment.status \in Refundable
  /\ a > 0 /\ WithinBalance(a)
  /\ Goto(p, "request", r, a, "create")
  /\ UNCHANGED <<refund, payment>>

(* The insert; the unique index refuses a key another request has used.    *)
CreateRefund(p) ==
  /\ At(p, "create")
  /\ LET r == request[p].refund IN
       refund' = IF refund[r].status = "NONE"
                 THEN [refund EXCEPT ![r] = [status |-> "PENDING", amount |-> request[p].amount]]
                 ELSE refund
  /\ Done(p)
  /\ UNCHANGED payment

(* finalizeRefund: the read and the check ... *)
BeginFinalize(p, op, r) ==
  /\ At(p, "idle")
  /\ refund[r].status \in Finalizable
  /\ Goto(p, op, r, 0, "transition")
  /\ UNCHANGED <<refund, payment>>

(* ... the transaction, which first writes the refund by id, waiting for   *)
(* the row if another transaction has it.  Only a success goes on to the   *)
(* payment.                                                                *)
RowIsFree(p) ==
  \A q \in Processes \ {p} :
    ~(request[q].refund = request[p].refund /\ request[q].step \in { "total", "write" })

TransitionRefund(p) ==
  /\ At(p, "transition")
  /\ RowIsFree(p)
  /\ IF request[p].op = "succeed"
     THEN Step(p, "total") /\ UNCHANGED refund
     ELSE /\ refund' = [refund EXCEPT ![request[p].refund].status = RefundTarget[request[p].op]]
          /\ Step(p, "publish")
  /\ UNCHANGED payment

(* Broken variant: misses the refund being made, which is not committed. *)
CountsCommitted(p) == With({ "SUCCEEDED" })
(* What the transaction counts: the refunds committed so far and its own.  *)
Counts(p) == With({ "SUCCEEDED" }) \cup { request[p].refund }

TotalRefunds(p) ==
  /\ At(p, "total")
  /\ request' = [request EXCEPT ![p].step = "write", ![p].counted = Counts(p)]
  /\ UNCHANGED <<refund, payment>>

(* updateRefundState and the commit.                                       *)
CommitSuccess(p) ==
  LET total == TotalOf(request[p].counted) IN
  /\ At(p, "write")
  /\ refund' = [refund EXCEPT ![request[p].refund].status = "SUCCEEDED"]
  /\ payment' = [status |-> IF total >= Paid THEN "REFUNDED" ELSE "PARTIALLY_REFUNDED",
                 refunded |-> total]
  /\ Step(p, "publish")

(* The message about the refund follows the commit; an admin whose message *)
(* fails gets an error for a refund that was made.                         *)
Publish(p) == At(p, "publish") /\ Done(p) /\ UNCHANGED <<refund, payment>>

(* The process dies; PostgreSQL rolls an open transaction back.            *)
Abandon(p) == request[p].step # "idle" /\ Done(p) /\ UNCHANGED <<refund, payment>>

RefundProceeds(p) ==
  CreateRefund(p) \/ TransitionRefund(p) \/ TotalRefunds(p) \/ CommitSuccess(p)

RefundBegins(p) ==
  \E r \in RefundIds :
    \/ \E a \in Amounts : BeginRequest(p, r, a)
    \/ \E op \in FinalOps : BeginFinalize(p, op, r)

RefundNext ==
  \E p \in Processes : RefundBegins(p) \/ RefundProceeds(p) \/ Publish(p) \/ Abandon(p)

RefundSpec == RefundInit /\ [][RefundNext]_refundVars

-----------------------------------------------------------------------------
(* Properties.                                                             *)

(* What was paid is not given back twice: the refunds made and under way   *)
(* stay within the payment, however requests, retries and finalisations    *)
(* follow one another (computeAvailableRefundableAmount).                  *)
BalanceKept == TotalOf(With(Reserved)) <= Paid

(* The payment tells what its refunds add up to: finalizeRefund writes the *)
(* two rows one after the other, from reads of its own.                    *)
PaymentAgrees ==
  /\ payment.refunded = TotalOf(With({ "SUCCEEDED" }))
  /\ payment.status = CASE payment.refunded = 0 -> "SUCCEEDED"
                        [] payment.refunded >= Paid -> "REFUNDED"
                        [] OTHER -> "PARTIALLY_REFUNDED"

=============================================================================
