----------------------------- MODULE SplitEscrow -----------------------------
(***************************************************************************)
(* What the payment services promise a member about the wallet: an offer   *)
(* to pay a due sets some of the balance aside and asks for the rest       *)
(* elsewhere; it is then spent whole, or what was set aside comes back     *)
(* whole, once.  Tables, methods, orders, webhooks and jobs do not exist   *)
(* here.                                                                   *)
(***************************************************************************)
EXTENDS Naturals

CONSTANTS Members, Dues, Owner, Amount, Offers, Deposits, NoDue

VARIABLES
    balance,    \* of each member
    stage,      \* of each offer: none, open, spent, returned
    due,        \* the due an offer is for
    held,       \* what an offer has set aside and not returned
    asked       \* what an offer asks for elsewhere

vars == <<balance, stage, due, held, asked>>

Init ==
    /\ balance = [m \in Members |-> 0]
    /\ stage = [o \in Offers |-> "none"]
    /\ due = [o \in Offers |-> NoDue]
    /\ held = [o \in Offers |-> 0]
    /\ asked = [o \in Offers |-> 0]

Deposit(m, n) ==
    /\ balance' = [balance EXCEPT ![m] = @ + n]
    /\ UNCHANGED <<stage, due, held, asked>>

(* An offer for due d that sets h aside.  An offer that asks for nothing   *)
(* is spent at once; a due has at most one open offer.                     *)
Offer(o, d, h) ==
    /\ stage[o] = "none"
    /\ \A x \in Offers : stage[x] = "open" => due[x] # d
    /\ h <= balance[Owner[d]]
    /\ balance' = [balance EXCEPT ![Owner[d]] = @ - h]
    /\ stage' = [stage EXCEPT ![o] = IF h = Amount[d] THEN "spent" ELSE "open"]
    /\ due' = [due EXCEPT ![o] = d]
    /\ held' = [held EXCEPT ![o] = h]
    /\ asked' = [asked EXCEPT ![o] = Amount[d] - h]

Spend(o) ==
    /\ stage[o] = "open"
    /\ stage' = [stage EXCEPT ![o] = "spent"]
    /\ UNCHANGED <<balance, due, held, asked>>

Return(o) ==
    /\ stage[o] = "open"
    /\ stage' = [stage EXCEPT ![o] = "returned"]
    /\ balance' = [balance EXCEPT ![Owner[due[o]]] = @ + held[o]]
    /\ held' = [held EXCEPT ![o] = 0]
    /\ UNCHANGED <<due, asked>>

Next ==
    \/ \E m \in Members, n \in Deposits : Deposit(m, n)
    \/ \E o \in Offers : \/ \E d \in Dues : \E h \in 0 .. Amount[d] : Offer(o, d, h)
                         \/ Spend(o)
                         \/ Return(o)

Spec == Init /\ [][Next]_vars
=============================================================================
