---------------------------- MODULE PaymentsEscrow ----------------------------
(***************************************************************************)
(* Payments implements SplitEscrow: each key is an offer.  Its stage is    *)
(* the status of its main row; what it holds is the wallet payment itself, *)
(* or the wallet leg until a compensating credit returns it.               *)
(***************************************************************************)
EXTENDS Payments

StageOf(k) ==
    LET s == payments[Main(k)].status IN
    CASE s = "NONE" -> "none"
      [] s = "PENDING" -> "open"
      [] s = "SUCCEEDED" -> "spent"
      [] OTHER -> "returned"

HeldBy(k) ==
    IF payments[Main(k)].method = "WALLET" THEN payments[Main(k)].amount ELSE Retained(k)

AskedBy(k) ==
    IF payments[Main(k)].method = "WALLET" THEN 0 ELSE payments[Main(k)].amount

Escrow == INSTANCE SplitEscrow WITH
              Offers <- Keys,
              Deposits <- CreditAmounts,
              balance <- wallet,
              stage <- [k \in Keys |-> StageOf(k)],
              due <- [k \in Keys |-> payments[Main(k)].due],
              held <- [k \in Keys |-> HeldBy(k)],
              asked <- [k \in Keys |-> AskedBy(k)]

(* Splits, wallet payments, settlements, failures and cancellations, with  *)
(* everything webhooks, calls and jobs do between them, amount to offers   *)
(* that are spent whole or returned whole and once.                        *)
ImplementsEscrow == Escrow!Spec
=============================================================================
