----------------------------- MODULE PolicyPages -----------------------------
(***************************************************************************)
(* The web application's reading of a policy: /app and /proof poll         *)
(* getPolicy and show a badge for each stage, computed from the policy     *)
(* alone (lib/lifecycle/status.ts).  A page sees Core between              *)
(* transactions only.                                                      *)
(***************************************************************************)
EXTENDS AurelithCore

\* The numbers of the contract's enum, as Number(policy.status) gives them.
StatusNumber ==
  [NONE |-> 0, DRAFT |-> 1, FUNDED |-> 2, PROOF_REQUESTED |-> 3,
   PROOF_VERIFIED |-> 4, COMPUTATION_REQUESTED |-> 5, READY_TO_SETTLE |-> 7,
   SETTLED |-> 8, CANCELLED |-> 9, REFUNDED |-> 10]

hasHash(value) == value # None

Badge(verified) == IF verified THEN "VERIFIED" ELSE "PENDING"

\* A bug to rule out: the badges are read off the status alone.
StagesByStatus(policy) ==
  LET status == StatusNumber[policy.status] IN
  [externalEvent  |-> Badge(hasHash(policy.sourceTransactionHash)),
   fdcProof       |-> Badge(status >= 4),
   privateCompute |-> Badge(status >= 6),
   verifiedResult |-> Badge(status >= 6),
   settlement     |-> IF status >= 8 THEN "COMPLETED" ELSE "PENDING"]

\* settledAt is written where settledAmount is, which is not zero then.
getLifecycleStageStates(policy) ==
  LET status == StatusNumber[policy.status] IN
  [externalEvent  |-> Badge(hasHash(policy.sourceTransactionHash)),
   fdcProof       |-> Badge(status >= 4 /\ hasHash(policy.externalProofDigest)),
   privateCompute |-> IF status >= 6 /\ hasHash(policy.computationReference) THEN "VERIFIED"
                      ELSE IF status = 5 THEN "PROCESSING" ELSE "PENDING",
   verifiedResult |-> Badge(status >= 6 /\ hasHash(policy.resultDigest)),
   settlement     |-> IF status = 8 /\ policy.settledAmount > 0 THEN "COMPLETED"
                      ELSE "PENDING"]

-----------------------------------------------------------------------------

\* The badges tell the truth about every policy, cancelled and refunded ones
\* included: an event or a proof is VERIFIED exactly if Core consumed a proof
\* for the policy, a result exactly if Core authenticated one, and the
\* settlement is COMPLETED exactly if the recipients hold the whole escrow, none
\* of which was given back.  The computation is VERIFIED exactly if Core has its
\* result, but for a refunded policy: a refund's status number is the highest,
\* and the badge shows a computation that was only requested as VERIFIED, too
\* (getLifecycleStageStates).
BadgesAreTrue ==
  frame = Idle =>
    \A p \in PolicyIds :
      LET shown == getLifecycleStageStates(policies[p]) IN
      /\ shown.externalEvent = shown.fdcProof
      /\ (shown.fdcProof = "VERIFIED") <=>
           policies[p].externalProofDigest \in usedProofDigests
      /\ (shown.verifiedResult = "VERIFIED") <=>
           policies[p].resultDigest \in usedResultDigests
      /\ policies[p].status # "REFUNDED" =>
           (shown.privateCompute = "VERIFIED") <=>
             policies[p].resultDigest \in usedResultDigests
      /\ (shown.settlement = "COMPLETED") <=>
           /\ deposited[p] > 0 /\ refunded[p] = 0
           /\ SumFunction(received[p]) = deposited[p]
=============================================================================
