-------------------------- MODULE SettlementCompute --------------------------
(***************************************************************************)
(* The confidential computation: the TypeScript extension's settlement     *)
(* handler (app/handlers.ts) and the allocation it performs (app/abi.ts).  *)
(* A request is the decoded instruction message.  The handler answers with *)
(* a status (1 computed, 0 failed) and, if computed, a settlement result.  *)
(***************************************************************************)
EXTENDS Integers, Sequences, Functions

CONSTANT BPS_DENOMINATOR   \* 10_000 in the code

ASSUME ComputeAssumption == BPS_DENOMINATOR \in Nat \ {0}

\* The requests decodeAndComputeSettlement does not throw on.
ValidRequest(request) ==
  /\ request.schemaVersion = "AURELITH_SETTLEMENT_V1"
  /\ Len(request.recipients) # 0
  /\ Len(request.recipients) = Len(request.sharesBps)
  /\ SumFunction(request.sharesBps) = BPS_DENOMINATOR

\* Share i of the total in basis points, rounded down.
Portion(request, i) == (request.total * request.sharesBps[i]) \div BPS_DENOMINATOR

\* A bug to rule out: what rounding leaves over is dropped.
AllocationDropsDust(request) ==
  [i \in 1 .. Len(request.sharesBps) |-> Portion(request, i)]

\* What rounding leaves over goes to the last recipient.
Allocation(request) ==
  LET portions == [i \in 1 .. Len(request.sharesBps) |-> Portion(request, i)]
  IN  [portions EXCEPT ![Len(request.sharesBps)] =
         @ + (request.total - SumFunction(portions))]

decodeAndComputeSettlement(request, actionId) ==
  [policyId |-> request.policyId,
   externalProofDigest |-> request.externalProofDigest,
   privateInputHash |-> request.privateInputHash,
   computationReference |-> actionId,
   recipients |-> request.recipients,
   amounts |-> Allocation(request),
   total |-> request.total, nonce |-> request.nonce, expiry |-> request.expiry]
=============================================================================
