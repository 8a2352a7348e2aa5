------------------------------- MODULE Escrow -------------------------------
(***************************************************************************)
(* What Core promises about a policy's escrow to an observer who looks     *)
(* between transactions: value is paid in, and then leaves in one          *)
(* indivisible step, either in full to a list of distinct recipients or in *)
(* full back to the owner; after that nothing moves.                       *)
(***************************************************************************)
EXTENDS Integers, Sequences, Functions

CONSTANTS
  Policies, Accounts,
  Deposits,        \* values that may be paid in at once
  Distributions    \* payouts: recipients `to' and their `amounts'

VARIABLES
  held,      \* value in escrow
  paid,      \* value each account got from the policy's payout
  returned,  \* value the owner got back
  outcome    \* "open", "paid" or "returned"

escrowVars == <<held, paid, returned, outcome>>

Nothing == [a \in Accounts |-> 0]

EscrowInit ==
  /\ held = [p \in Policies |-> 0]
  /\ paid = [p \in Policies |-> Nothing]
  /\ returned = [p \in Policies |-> 0]
  /\ outcome = [p \in Policies |-> "open"]

Deposit(p) ==
  /\ outcome[p] = "open"
  /\ \E v \in Deposits \ {0} : held' = [held EXCEPT ![p] = held[p] + v]
  /\ UNCHANGED <<paid, returned, outcome>>

\* The share of an account in a payout.
Share(d, a) ==
  IF \E i \in 1 .. Len(d.to) : d.to[i] = a
  THEN d.amounts[CHOOSE i \in 1 .. Len(d.to) : d.to[i] = a]
  ELSE 0

PayOut(p) ==
  /\ outcome[p] = "open"
  /\ \E d \in Distributions :
       /\ \A i, j \in 1 .. Len(d.to) : i # j => d.to[i] # d.to[j]
       /\ Len(d.amounts) = Len(d.to)
       /\ SumFunction(d.amounts) = held[p]
       /\ paid' = [paid EXCEPT ![p] = [a \in Accounts |-> Share(d, a)]]
  /\ held' = [held EXCEPT ![p] = 0]
  /\ outcome' = [outcome EXCEPT ![p] = "paid"]
  /\ UNCHANGED returned

Return(p) ==
  /\ outcome[p] = "open"
  /\ held[p] # 0
  /\ returned' = [returned EXCEPT ![p] = held[p]]
  /\ held' = [held EXCEPT ![p] = 0]
  /\ outcome' = [outcome EXCEPT ![p] = "returned"]
  /\ UNCHANGED paid

EscrowNext == \E p \in Policies : Deposit(p) \/ PayOut(p) \/ Return(p)

EscrowSpec == EscrowInit /\ [][EscrowNext]_escrowVars
=============================================================================
