--------------------------- MODULE AurelithEscrow ---------------------------
(***************************************************************************)
(* Core implements Escrow.  While settle or refundPolicy is running, its   *)
(* policy's escrow counts as not yet moved; when the call returns, the     *)
(* whole movement happens at once.                                         *)
(***************************************************************************)
EXTENDS AurelithCore

heldInEscrow == [p \in PolicyIds |->
  IF InFlight(p) THEN deposited[p] ELSE policies[p].fundedAmount]

paidOut == [p \in PolicyIds |->
  IF InFlight(p) THEN [a \in Accounts |-> 0] ELSE received[p]]

givenBack == [p \in PolicyIds |-> IF InFlight(p) THEN 0 ELSE refunded[p]]

outcomeOf == [p \in PolicyIds |->
  CASE policies[p].status = "SETTLED" /\ ~InFlight(p) -> "paid"
    [] policies[p].status = "REFUNDED" /\ ~InFlight(p) -> "returned"
    [] OTHER -> "open"]

Abstract ==
  INSTANCE Escrow WITH
    Policies <- PolicyIds, Deposits <- FundingValues,
    Distributions <- {[to |-> r.recipients, amounts |-> r.amounts] :
                        r \in SettlementResults},
    held <- heldInEscrow, paid <- paidOut, returned <- givenBack,
    outcome <- outcomeOf

\* Core implements the abstract escrow: to anyone who looks between
\* transactions settle and refundPolicy are atomic and final, although the
\* accounts they pay run code, and call Core again, in between.
ImplementsEscrow == Abstract!EscrowSpec
=============================================================================
