---------------------------- MODULE AurelithCore ----------------------------
(***************************************************************************)
(* The settlement contract AurelithProtocol.sol: policies, their escrow,   *)
(* the proof / computation / result evidence that releases it, cancelling  *)
(* and refunding.  The role and configuration part of the same contract,   *)
(* and the instruction-sender adapter, are in FccBinding.                  *)
(*                                                                         *)
(* A call that moves no value to a foreign address is one step.  settle    *)
(* and refundPolicy hand control to the accounts they pay, so they are     *)
(* several steps: the checks and the state update, one step per transfer,  *)
(* and the return.  `frame' is the open call and is also the               *)
(* ReentrancyGuard: a nonReentrant function needs frame = Idle, any other  *)
(* function may run inside a paid account's fallback.                      *)
(*                                                                         *)
(* A transaction that reverts leaves no trace, so it is no step.  In       *)
(* particular a failing transfer (TransferFailed) undoes the whole call:   *)
(* settle and refundPolicy start only if none of their transfers fails.    *)
(*                                                                         *)
(* Hashes are injective: a digest is the tagged tuple of what is hashed.   *)
(* Write-only timestamps, event arguments and error codes are left out.    *)
(***************************************************************************)
EXTENDS FccBinding, FiniteSets, Functions

CONSTANTS
  PolicyIds,          \* policy ids createPolicy may compute
  Accounts,           \* policy owners, funders and recipients
  Rejecting,          \* accounts whose fallback reverts when they are paid
  CreateParams,       \* arguments of createPolicy
  FundingValues,      \* msg.value of fundPolicy
  EvmProofs,          \* FDC attestations offered to submitEvmProof
  PrivateInputHashes, \* nonzero private input commitments
  InstructionIds,     \* instruction ids Flare's registry hands out
  SettlementResults,  \* results offered for authentication and settlement
  BPS_DENOMINATOR,    \* 10_000 in the code
  MAX_PARTICIPANTS,   \* 32 in the code
  MaxTime,            \* bound on block.timestamp
  None                \* the zero bytes32

SettlementResultType ==
  [policyId: PolicyIds, externalProofDigest: {p.digest : p \in EvmProofs},
   privateInputHash: PrivateInputHashes, computationReference: InstructionIds,
   recipients: Seq(Accounts), amounts: Seq(Nat), total: Nat, nonce: Nat,
   expiry: Nat]

ASSUME CoreAssumption ==
  /\ ZeroAddress \notin Accounts
  /\ Rejecting \subseteq Accounts
  /\ CreateParams \subseteq
       [targetAmount: Nat, expiry: Nat,
        recipients: Seq(Accounts \cup {ZeroAddress}), sharesBps: Seq(Nat)]
  /\ FundingValues \subseteq Nat
  /\ \A p \in EvmProofs : p.value \in Nat /\ p.digest # None
  /\ None \notin PrivateInputHashes \cup InstructionIds
  /\ \A r \in SettlementResults : <<"AURELITH_RESULT_V1", r>> # None
  /\ SettlementResults \subseteq SettlementResultType
  /\ BPS_DENOMINATOR \in Nat /\ MAX_PARTICIPANTS \in Nat /\ MaxTime \in Nat

\* Policy ids are 32-byte words and accounts are 20-byte addresses.
ASSUME FiniteAssumption == IsFiniteSet(PolicyIds) /\ IsFiniteSet(Accounts)

ProofDigests == {p.digest : p \in EvmProofs}
TransactionHashes == {p.transactionHash : p \in EvmProofs}

VARIABLES
  now,                \* block.timestamp
  policies,           \* the policies mapping, with recipients and shares
  usedProofDigests,
  usedResultDigests,
  issued,             \* instruction ids already handed out (external)
  balance,            \* the contract's native balance
  frame,              \* the open settle / refundPolicy call, or Idle
  deposited,          \* history: value paid in by fundPolicy, per policy
  received,           \* history: value each account got from settle, per policy
  refunded            \* history: value the owner got from refundPolicy

evidenceVars == <<usedProofDigests, usedResultDigests, issued>>
ledgerVars   == <<balance, deposited, received, refunded>>
coreVars == <<now, policies, evidenceVars, ledgerVars, frame>>
vars == <<coreVars, bindingVars>>

\* RESULT_AUTHENTICATED is written and overwritten within one call.
Status == {"NONE", "DRAFT", "FUNDED", "PROOF_REQUESTED", "PROOF_VERIFIED",
           "COMPUTATION_REQUESTED", "READY_TO_SETTLE", "SETTLED",
           "CANCELLED", "REFUNDED"}

\* keccak256 over this chain, this contract and the whole result.
hashSettlementResult(result) == <<"AURELITH_RESULT_V1", result>>

NoPolicy ==
  [owner |-> ZeroAddress, expiry |-> 0, targetAmount |-> 0, fundedAmount |-> 0,
   settledAmount |-> 0, recipients |-> <<>>, sharesBps |-> <<>>,
   externalProofDigest |-> None, sourceTransactionHash |-> None,
   privateInputHash |-> None, resultNonce |-> 0, computationReference |-> None,
   resultDigest |-> None, status |-> "NONE"]

Idle == [kind |-> "idle", policyId |-> None, recipients |-> <<>>,
         amounts |-> <<>>, next |-> 1]

Init ==
  /\ BindingInit
  /\ now = 0
  /\ policies = [p \in PolicyIds |-> NoPolicy]
  /\ usedProofDigests = {}
  /\ usedResultDigests = {}
  /\ issued = {}
  /\ balance = 0
  /\ frame = Idle
  /\ deposited = [p \in PolicyIds |-> 0]
  /\ received = [p \in PolicyIds |-> [a \in Accounts |-> 0]]
  /\ refunded = [p \in PolicyIds |-> 0]

-----------------------------------------------------------------------------
(* Checks shared by the functions. *)

Exists(p) == policies[p].owner # ZeroAddress
onlyPolicyOwner(p, sender) == Exists(p) /\ policies[p].owner = sender
nonReentrant == frame = Idle

\* A bug to rule out: any stage of a policy is accepted.
_requireStateOfAnyPolicy(p, expected) == policies[p].status # "NONE"

_requireState(p, expected) == policies[p].status = expected
_requireNotExpired(p) == now < policies[p].expiry

\* A bug to rule out: one recipient may be listed twice.
_validateParticipantsLoosely(recipients, sharesBps) ==
  /\ Len(recipients) \in 1 .. MAX_PARTICIPANTS
  /\ Len(recipients) = Len(sharesBps)
  /\ \A i \in 1 .. Len(recipients) : recipients[i] # ZeroAddress
  /\ \A i \in 1 .. Len(sharesBps) : sharesBps[i] # 0
  /\ SumFunction(sharesBps) = BPS_DENOMINATOR

_validateParticipants(recipients, sharesBps) ==
  /\ Len(recipients) \in 1 .. MAX_PARTICIPANTS
  /\ Len(recipients) = Len(sharesBps)
  /\ \A i \in 1 .. Len(recipients) : recipients[i] # ZeroAddress
  /\ \A i \in 1 .. Len(sharesBps) : sharesBps[i] # 0
  /\ \A i, j \in 1 .. Len(recipients) : i # j => recipients[i] # recipients[j]
  /\ SumFunction(sharesBps) = BPS_DENOMINATOR

\* The signer is an active machine of the extension Core was configured with;
\* with no active machine at all the call reverts.
_isAuthorizedTee(signer) == signer \in activeTees[teeExtensionId]

Store(p, policy) == policies' = [policies EXCEPT ![p] = policy]

-----------------------------------------------------------------------------
(* Creating and funding. *)

\* The owner nonce in the preimage makes every policy id fresh.
createPolicy(p, sender, params) ==
  /\ _validateParticipants(params.recipients, params.sharesBps)
  /\ params.targetAmount # 0
  /\ params.expiry > now
  /\ ~Exists(p)
  /\ Store(p, [NoPolicy EXCEPT !.owner = sender,
                               !.expiry = params.expiry,
                               !.targetAmount = params.targetAmount,
                               !.recipients = params.recipients,
                               !.sharesBps = params.sharesBps,
                               !.status = "DRAFT"])
  /\ UNCHANGED <<now, evidenceVars, ledgerVars, frame, bindingVars>>

fundPolicy(p, value) ==
  /\ nonReentrant
  /\ Exists(p)
  /\ policies[p].status \in {"DRAFT", "FUNDED"}
  /\ _requireNotExpired(p)
  /\ value # 0
  /\ policies[p].fundedAmount + value <= policies[p].targetAmount
  /\ LET funded == policies[p].fundedAmount + value IN
       Store(p, [policies[p] EXCEPT
         !.fundedAmount = funded,
         !.status = IF funded = policies[p].targetAmount THEN "FUNDED" ELSE @])
  /\ balance' = balance + value
  /\ deposited' = [deposited EXCEPT ![p] = @ + value]
  /\ UNCHANGED <<now, evidenceVars, received, refunded, frame, bindingVars>>

-----------------------------------------------------------------------------
(* Collecting the evidence. *)

requestProof(p, sender) ==
  /\ onlyPolicyOwner(p, sender)
  /\ _requireState(p, "FUNDED")
  /\ _requireNotExpired(p)
  /\ Store(p, [policies[p] EXCEPT !.status = "PROOF_REQUESTED"])
  /\ UNCHANGED <<now, evidenceVars, ledgerVars, frame, bindingVars>>

\* A bug to rule out: an attestation can be spent twice.
ProvesAgain(p, proof) ==
  /\ proof.verified
  /\ proof.transactionHash # None /\ proof.status = 1
  /\ proof.value >= policies[p].targetAmount

\* What submitEvmProof demands of an attestation; `verified' is the answer of
\* Flare's FDC verification contract.
Proves(p, proof) ==
  /\ proof.verified
  /\ proof.digest \notin usedProofDigests
  /\ proof.transactionHash # None /\ proof.status = 1
  /\ proof.value >= policies[p].targetAmount

submitEvmProof(p, sender, proof) ==
  /\ onlyPolicyOwner(p, sender)
  /\ _requireState(p, "PROOF_REQUESTED")
  /\ _requireNotExpired(p)
  /\ Proves(p, proof)
  /\ usedProofDigests' = usedProofDigests \cup {proof.digest}
  /\ Store(p, [policies[p] EXCEPT
       !.externalProofDigest = proof.digest,
       !.sourceTransactionHash = proof.transactionHash,
       !.status = "PROOF_VERIFIED"])
  /\ UNCHANGED <<now, usedResultDigests, issued, ledgerVars, frame, bindingVars>>

\* The adapter, once it has its extension id; the registry answers with a
\* fresh instruction id.
sendSettlementInstruction(adapter, instructionId) ==
  /\ extensionId[adapter] # 0
  /\ instructionId \notin issued
  /\ issued' = issued \cup {instructionId}

sendComputationInstruction(p, sender, privateInputHash, instructionId) ==
  /\ onlyPolicyOwner(p, sender)
  /\ _requireState(p, "PROOF_VERIFIED")
  /\ _requireNotExpired(p)
  /\ fccInstructionSender # ZeroAddress
  /\ sendSettlementInstruction(fccInstructionSender, instructionId)
  /\ Store(p, [policies[p] EXCEPT
       !.privateInputHash = privateInputHash,
       !.computationReference = instructionId,
       !.resultNonce = @ + 1,
       !.status = "COMPUTATION_REQUESTED"])
  /\ UNCHANGED <<now, usedProofDigests, usedResultDigests, ledgerVars, frame,
                 bindingVars>>

\* What _authenticateResult demands of a result before it is accepted.
Acceptable(result) ==
  LET policy == policies[result.policyId] IN
  /\ Exists(result.policyId)
  /\ _requireState(result.policyId, "COMPUTATION_REQUESTED")
  /\ _requireNotExpired(result.policyId)
  /\ result.expiry <= policy.expiry /\ now < result.expiry
  /\ result.nonce = policy.resultNonce
  /\ result.externalProofDigest = policy.externalProofDigest
  /\ result.privateInputHash = policy.privateInputHash
  /\ result.computationReference = policy.computationReference
  /\ result.recipients = policy.recipients
  /\ Len(result.recipients) = Len(result.amounts)
  /\ result.total = policy.targetAmount /\ result.total = policy.fundedAmount
  /\ \A i \in 1 .. Len(result.amounts) : result.amounts[i] # 0
  /\ SumFunction(result.amounts) = result.total
  /\ hashSettlementResult(result) \notin usedResultDigests

\* actionStatus and the match of actionId with the result's reference are
\* checked before the signature; signer is what _recover returns.
authenticateActionResult(result, actionId, actionStatus, signer) ==
  /\ teeRegistryConfigured
  /\ actionStatus = 1
  /\ actionId = result.computationReference
  /\ _isAuthorizedTee(signer)
  /\ Acceptable(result)
  /\ usedResultDigests' = usedResultDigests \cup {hashSettlementResult(result)}
  /\ Store(result.policyId, [policies[result.policyId] EXCEPT
       !.resultDigest = hashSettlementResult(result),
       !.status = "READY_TO_SETTLE"])
  /\ UNCHANGED <<now, usedProofDigests, issued, ledgerVars, frame, bindingVars>>

-----------------------------------------------------------------------------
(* Paying out.  The state update precedes the first transfer. *)

\* A bug to rule out: a settled policy still books its escrow as funded.
settleKeepsFunded(sender, result) ==
  LET p == result.policyId IN
  /\ nonReentrant
  /\ onlyPolicyOwner(p, sender)
  /\ _requireState(p, "READY_TO_SETTLE")
  /\ _requireNotExpired(p)
  /\ hashSettlementResult(result) = policies[p].resultDigest
  /\ \A i \in 1 .. Len(result.recipients) : result.recipients[i] \notin Rejecting
  /\ Store(p, [policies[p] EXCEPT
       !.status = "SETTLED", !.settledAmount = result.total])
  /\ frame' = [kind |-> "settle", policyId |-> p, next |-> 1,
               recipients |-> result.recipients, amounts |-> result.amounts]
  /\ UNCHANGED <<now, evidenceVars, ledgerVars, bindingVars>>

\* A bug to rule out: any result with the policy's total can be settled.
settleAnyResult(sender, result) ==
  LET p == result.policyId IN
  /\ nonReentrant
  /\ onlyPolicyOwner(p, sender)
  /\ _requireState(p, "READY_TO_SETTLE")
  /\ _requireNotExpired(p)
  /\ result.total = policies[p].targetAmount
  /\ \A i \in 1 .. Len(result.recipients) : result.recipients[i] \notin Rejecting
  /\ Store(p, [policies[p] EXCEPT
       !.status = "SETTLED", !.settledAmount = result.total, !.fundedAmount = 0])
  /\ frame' = [kind |-> "settle", policyId |-> p, next |-> 1,
               recipients |-> result.recipients, amounts |-> result.amounts]
  /\ UNCHANGED <<now, evidenceVars, ledgerVars, bindingVars>>

settle(sender, result) ==
  LET p == result.policyId IN
  /\ nonReentrant
  /\ onlyPolicyOwner(p, sender)
  /\ _requireState(p, "READY_TO_SETTLE")
  /\ _requireNotExpired(p)
  /\ hashSettlementResult(result) = policies[p].resultDigest
  /\ \A i \in 1 .. Len(result.recipients) : result.recipients[i] \notin Rejecting
  /\ Store(p, [policies[p] EXCEPT
       !.status = "SETTLED", !.settledAmount = result.total, !.fundedAmount = 0])
  /\ frame' = [kind |-> "settle", policyId |-> p, next |-> 1,
               recipients |-> result.recipients, amounts |-> result.amounts]
  /\ UNCHANGED <<now, evidenceVars, ledgerVars, bindingVars>>

\* A bug to rule out: a policy can be cancelled after its payment was proved.
cancelProvedPolicy(p, sender) ==
  /\ onlyPolicyOwner(p, sender)
  /\ policies[p].status \in {"DRAFT", "FUNDED", "PROOF_REQUESTED", "PROOF_VERIFIED"}
  /\ Store(p, [policies[p] EXCEPT !.status = "CANCELLED"])
  /\ UNCHANGED <<now, evidenceVars, ledgerVars, frame, bindingVars>>

cancelPolicy(p, sender) ==
  /\ onlyPolicyOwner(p, sender)
  /\ policies[p].status \in {"DRAFT", "FUNDED", "PROOF_REQUESTED"}
  /\ Store(p, [policies[p] EXCEPT !.status = "CANCELLED"])
  /\ UNCHANGED <<now, evidenceVars, ledgerVars, frame, bindingVars>>

\* Bugs to rule out: the refund opens one second early, or never opens for a
\* policy whose settlement could not be paid out.
RefundableEarly(p) ==
  \/ policies[p].status = "CANCELLED"
  \/ now + 1 >= policies[p].expiry
       /\ policies[p].status \notin {"NONE", "SETTLED", "REFUNDED"}
RefundableUnlessReady(p) ==
  \/ policies[p].status = "CANCELLED"
  \/ now >= policies[p].expiry
       /\ policies[p].status \notin {"READY_TO_SETTLE", "SETTLED", "REFUNDED"}

Refundable(p) ==
  \/ policies[p].status = "CANCELLED"
  \/ now >= policies[p].expiry /\ policies[p].status \notin {"SETTLED", "REFUNDED"}

\* A bug to rule out: the target, not the funded amount, is taken off the books.
refundTarget(p, sender) ==
  /\ nonReentrant
  /\ onlyPolicyOwner(p, sender)
  /\ Refundable(p)
  /\ policies[p].fundedAmount # 0
  /\ policies[p].owner \notin Rejecting
  /\ Store(p, [policies[p] EXCEPT
       !.fundedAmount = @ - policies[p].targetAmount, !.status = "REFUNDED"])
  /\ frame' = [kind |-> "refund", policyId |-> p, next |-> 1,
               recipients |-> <<policies[p].owner>>,
               amounts |-> <<policies[p].fundedAmount>>]
  /\ UNCHANGED <<now, evidenceVars, ledgerVars, bindingVars>>

refundPolicy(p, sender) ==
  /\ nonReentrant
  /\ onlyPolicyOwner(p, sender)
  /\ Refundable(p)
  /\ policies[p].fundedAmount # 0
  /\ policies[p].owner \notin Rejecting
  /\ Store(p, [policies[p] EXCEPT
       !.fundedAmount = 0, !.status = "REFUNDED"])
  /\ frame' = [kind |-> "refund", policyId |-> p, next |-> 1,
               recipients |-> <<policies[p].owner>>,
               amounts |-> <<policies[p].fundedAmount>>]
  /\ UNCHANGED <<now, evidenceVars, ledgerVars, bindingVars>>

\* One iteration of settle's loop, or refundPolicy's transfer: the value
\* arrives and the receiving account's code runs until the next step of the
\* open call.
TransferNext ==
  LET p == frame.policyId
      to == frame.recipients[frame.next]
      amount == frame.amounts[frame.next]
  IN
  /\ frame # Idle
  /\ frame.next <= Len(frame.recipients)
  /\ balance >= amount
  /\ balance' = balance - amount
  /\ frame' = [frame EXCEPT !.next = @ + 1]
  /\ IF frame.kind = "settle"
       THEN /\ received' = [received EXCEPT ![p] =
                             [received[p] EXCEPT ![to] = @ + amount]]
            /\ UNCHANGED refunded
       ELSE /\ refunded' = [refunded EXCEPT ![p] = @ + amount]
            /\ UNCHANGED received
  /\ UNCHANGED <<now, policies, evidenceVars, deposited, bindingVars>>

\* A bug to rule out: the payout loop stops before the last recipient.
CallReturnsEarly ==
  /\ frame # Idle
  /\ frame.next >= Len(frame.recipients)
  /\ frame' = Idle
  /\ UNCHANGED <<now, policies, evidenceVars, ledgerVars, bindingVars>>

CallReturns ==
  /\ frame # Idle
  /\ frame.next > Len(frame.recipients)
  /\ frame' = Idle
  /\ UNCHANGED <<now, policies, evidenceVars, ledgerVars, bindingVars>>

\* Time passes between transactions only.
Tick ==
  /\ frame = Idle
  /\ now < MaxTime
  /\ now' = now + 1
  /\ UNCHANGED <<policies, evidenceVars, ledgerVars, frame, bindingVars>>

-----------------------------------------------------------------------------

PolicyStep(p, sender) ==
  \/ \E params \in CreateParams : createPolicy(p, sender, params)
  \/ requestProof(p, sender)
  \/ \E proof \in EvmProofs : submitEvmProof(p, sender, proof)
  \/ \E h \in PrivateInputHashes, id \in InstructionIds :
       sendComputationInstruction(p, sender, h, id)
  \/ cancelPolicy(p, sender)
  \/ refundPolicy(p, sender)

Next ==
  \/ \E p \in PolicyIds, sender \in Accounts : PolicyStep(p, sender)
  \/ \E p \in PolicyIds, value \in FundingValues : fundPolicy(p, value)
  \/ \E result \in SettlementResults, id \in InstructionIds, s \in {0, 1},
        signer \in Tees : authenticateActionResult(result, id, s, signer)
  \/ \E sender \in Accounts, result \in SettlementResults : settle(sender, result)
  \/ TransferNext
  \/ CallReturns
  \/ Tick
  \/ BindingNext /\ UNCHANGED coreVars

Spec == Init /\ [][Next]_vars

-----------------------------------------------------------------------------
(* Types. *)

PolicyType ==
  [owner: Accounts \cup {ZeroAddress}, expiry: Nat, targetAmount: Nat,
   fundedAmount: Nat, settledAmount: Nat, recipients: Seq(Accounts),
   sharesBps: Seq(Nat), externalProofDigest: ProofDigests \cup {None},
   sourceTransactionHash: TransactionHashes \cup {None},
   privateInputHash: PrivateInputHashes \cup {None}, resultNonce: Nat,
   computationReference: InstructionIds \cup {None},
   resultDigest: {hashSettlementResult(r) : r \in SettlementResults} \cup {None},
   status: Status]

FrameType ==
  [kind: {"settle", "refund"}, policyId: PolicyIds, recipients: Seq(Accounts),
   amounts: Seq(Nat), next: Nat \ {0}]

\* Every variable of the contract, its environment and the history has its
\* type.
TypeOK ==
  /\ BindingTypeOK
  /\ now \in Nat
  /\ policies \in [PolicyIds -> PolicyType]
  /\ usedProofDigests \subseteq ProofDigests
  /\ usedResultDigests \subseteq {hashSettlementResult(r) : r \in SettlementResults}
  /\ issued \subseteq InstructionIds
  /\ balance \in Nat
  /\ frame \in FrameType \cup {Idle}
  /\ deposited \in [PolicyIds -> Nat]
  /\ received \in [PolicyIds -> [Accounts -> Nat]]
  /\ refunded \in [PolicyIds -> Nat]

-----------------------------------------------------------------------------
(* Where the escrowed value is. *)

InFlight(p) == frame # Idle /\ frame.policyId = p

\* The result whose digest a policy stores.
ResultOf(p) == policies[p].resultDigest[2]

\* Transfers of p's settlement or refund already made.
TransfersDone(p, all) == IF InFlight(p) THEN frame.next - 1 ELSE all

NothingPaid(p) == \A a \in Accounts : received[p][a] = 0

\* Everything paid in is still booked as funded, and nothing was paid out.
HeldInFull(p) ==
  /\ policies[p].fundedAmount = deposited[p]
  /\ NothingPaid(p) /\ refunded[p] = 0
  /\ ~InFlight(p)

\* The escrow went to the recipients: each has exactly the amount of the
\* authenticated result, or nothing if the loop has not reached it yet.
PaidByResult(p) ==
  LET r == ResultOf(p)
      done == TransfersDone(p, Len(r.recipients))
  IN
  /\ r.recipients = policies[p].recipients
  /\ \A i \in 1 .. Len(r.recipients) :
       received[p][r.recipients[i]] = IF i <= done THEN r.amounts[i] ELSE 0
  /\ \A a \in Accounts :
       received[p][a] # 0 => \E i \in 1 .. Len(r.recipients) : r.recipients[i] = a
  /\ SumFunction(r.amounts) = deposited[p]
  /\ policies[p].settledAmount = deposited[p]
  /\ policies[p].fundedAmount = 0 /\ refunded[p] = 0

\* The escrow went back to the owner, once.
ReturnedInFull(p) ==
  /\ refunded[p] = IF TransfersDone(p, 1) = 0 THEN 0 ELSE deposited[p]
  /\ policies[p].fundedAmount = 0 /\ NothingPaid(p)

\* The escrow of a policy is in exactly one place, whatever the paid accounts
\* do when settle or refundPolicy calls them: booked in full until then, paid
\* out along the authenticated result if SETTLED, back with the owner if
\* REFUNDED.
EscrowAccounted ==
  \A p \in PolicyIds :
    /\ policies[p].status = "SETTLED" => PaidByResult(p)
    /\ policies[p].status = "REFUNDED" => ReturnedInFull(p)
    /\ policies[p].status \notin {"SETTLED", "REFUNDED"} => HeldInFull(p)

Undelivered ==
  SumFunctionOnSet(frame.amounts, frame.next .. Len(frame.recipients))

\* The contract's balance is what all policies book as funded plus what the
\* open settle or refundPolicy call still has to transfer: no policy is paid
\* with another policy's escrow.
Solvent ==
  balance = SumFunction([p \in PolicyIds |-> policies[p].fundedAmount]) + Undelivered

\* The facts EscrowAccounted needs to be preserved by every step: an
\* authenticated result fits its policy and its escrow, recipients are
\* distinct, and the open call transfers what the policy's new status says.
ResultFits(p) ==
  /\ policies[p].resultDigest # None
  /\ ResultOf(p).recipients = policies[p].recipients
  /\ Len(ResultOf(p).amounts) = Len(ResultOf(p).recipients)
  /\ SumFunction(ResultOf(p).amounts) = ResultOf(p).total
  /\ ResultOf(p).total = deposited[p]

PolicyWellFormed(p) ==
  /\ policies[p].status = "NONE" <=> policies[p].owner = ZeroAddress
  /\ policies[p].status = "NONE" => policies[p].fundedAmount = 0
  /\ \A i, j \in 1 .. Len(policies[p].recipients) :
       i # j => policies[p].recipients[i] # policies[p].recipients[j]
  /\ policies[p].status \in {"READY_TO_SETTLE", "SETTLED"} => ResultFits(p)

FrameWellFormed ==
  frame # Idle =>
    LET p == frame.policyId IN
    /\ Len(frame.amounts) = Len(frame.recipients)
    /\ frame.next <= Len(frame.recipients) + 1
    /\ frame.kind = "settle" =>
         /\ policies[p].status = "SETTLED"
         /\ frame.recipients = ResultOf(p).recipients
         /\ frame.amounts = ResultOf(p).amounts
    /\ frame.kind = "refund" =>
         /\ policies[p].status = "REFUNDED"
         /\ frame.recipients = <<policies[p].owner>>
         /\ frame.amounts = <<deposited[p]>>
         /\ deposited[p] # 0

\* The inductive invariant behind EscrowAccounted: it holds of every state
\* settle, refundPolicy and the calls made while they run can lead to.
EscrowInv ==
  /\ TypeOK
  /\ \A p \in PolicyIds : PolicyWellFormed(p)
  /\ FrameWellFormed
  /\ EscrowAccounted

-----------------------------------------------------------------------------
(* What releases the escrow. *)

\* A policy that may settle or has settled rests on evidence of its own: a
\* verified, sufficient external payment and an authenticated result for
\* exactly this policy, proof, instruction and amount, whose proof and
\* instruction no other policy uses (submitEvmProof, _authenticateResult).
SettlesOnOwnEvidence ==
  \A p \in PolicyIds : policies[p].status \in {"READY_TO_SETTLE", "SETTLED"} =>
    LET policy == policies[p] IN
    /\ \E proof \in EvmProofs :
         /\ proof.digest = policy.externalProofDigest
         /\ proof.verified /\ proof.status = 1
         /\ proof.value >= policy.targetAmount
    /\ policy.resultDigest # None
    /\ ResultOf(p).policyId = p
    /\ ResultOf(p).externalProofDigest = policy.externalProofDigest
    /\ ResultOf(p).computationReference = policy.computationReference
    /\ ResultOf(p).total = policy.targetAmount
    /\ deposited[p] = policy.targetAmount
    /\ \A q \in PolicyIds \ {p} :
         /\ policies[q].externalProofDigest # policy.externalProofDigest
         /\ policies[q].computationReference # policy.computationReference

\* The facts SettlesOnOwnEvidence needs to be preserved by every step: which
\* evidence a policy holds at each stage, and whose evidence it is, until and
\* after a refund.
StageEvidence(p) ==
  LET policy == policies[p] IN
  /\ policy.sourceTransactionHash # None <=> policy.externalProofDigest # None
  /\ policy.status # "REFUNDED" =>
       /\ policy.externalProofDigest # None <=>
            policy.status \in {"PROOF_VERIFIED", "COMPUTATION_REQUESTED",
                              "READY_TO_SETTLE", "SETTLED"}
       /\ policy.computationReference # None <=>
            policy.status \in {"COMPUTATION_REQUESTED", "READY_TO_SETTLE", "SETTLED"}
       /\ policy.resultDigest # None <=>
            policy.status \in {"READY_TO_SETTLE", "SETTLED"}

OwnProof(p) ==
  LET policy == policies[p] IN
  policy.externalProofDigest # None =>
    /\ policy.externalProofDigest \in usedProofDigests
    /\ \E proof \in EvmProofs :
         /\ proof.digest = policy.externalProofDigest
         /\ proof.verified /\ proof.status = 1
         /\ proof.value >= policy.targetAmount
    /\ \A q \in PolicyIds \ {p} :
         policies[q].externalProofDigest # policy.externalProofDigest

OwnInstruction(p) ==
  policies[p].computationReference # None =>
    /\ policies[p].computationReference \in issued
    /\ \A q \in PolicyIds \ {p} :
         policies[q].computationReference # policies[p].computationReference

OwnResult(p) ==
  LET policy == policies[p]  result == ResultOf(p) IN
  policy.resultDigest # None =>
    /\ policy.resultDigest \in usedResultDigests
    /\ result.policyId = p
    /\ result.externalProofDigest = policy.externalProofDigest
    /\ result.computationReference = policy.computationReference
    /\ result.total = policy.targetAmount /\ deposited[p] = policy.targetAmount
    /\ result.expiry <= policy.expiry

\* The inductive invariant behind SettlesOnOwnEvidence and the action
\* properties below: a digest, an instruction and a result stay with the policy
\* they were collected for, through every order of calls.
EvidenceInv ==
  \A p \in PolicyIds :
    StageEvidence(p) /\ OwnProof(p) /\ OwnInstruction(p) /\ OwnResult(p)

RefundStarts(p) == policies[p].status # "REFUNDED" /\ policies'[p].status = "REFUNDED"
SettleStarts(p) == policies[p].status # "SETTLED" /\ policies'[p].status = "SETTLED"

\* Once an external payment has been proved for a policy, its escrow is
\* committed: before the expiry the owner cannot take it back by any sequence
\* of cancelPolicy and refundPolicy.
CommittedUntilExpiry ==
  [][\A p \in PolicyIds : RefundStarts(p) /\ now < policies[p].expiry
       => policies[p].externalProofDigest = None]_vars

\* "A valid result cannot be stranded by a refund" (docs/SECURITY.md): a policy
\* with an authenticated result is refunded only once that result has expired.
ResultNotStranded ==
  [][\A p \in PolicyIds : RefundStarts(p) /\ policies[p].resultDigest # None
       => now >= ResultOf(p).expiry]_vars

\* A policy's terms never change after createPolicy, every piece of evidence is
\* written once, and SETTLED and REFUNDED are final: no call takes a policy
\* back to collect a second proof, instruction or result.
RecordIsWriteOnce ==
  [][\A p \in PolicyIds : Exists(p) =>
       /\ \A f \in {"owner", "expiry", "targetAmount", "recipients", "sharesBps"} :
            policies'[p][f] = policies[p][f]
       /\ \A f \in {"externalProofDigest", "computationReference", "resultDigest"} :
            policies[p][f] # None => policies'[p][f] = policies[p][f]
       /\ policies[p].status \in {"SETTLED", "REFUNDED"}
            => policies'[p] = policies[p]]_vars

-----------------------------------------------------------------------------
(* Progress. *)

\* The owner of an expired policy keeps asking for the refund, time passes, and
\* a call that was started runs to its end.
Fairness ==
  /\ WF_vars(Tick)
  /\ WF_vars(TransferNext)
  /\ WF_vars(CallReturns)
  /\ \A p \in PolicyIds, a \in Accounts : SF_vars(refundPolicy(p, a))

LiveSpec == Spec /\ Fairness

\* No escrow is locked for ever: value that entered a policy whose owner can be
\* paid leaves it again, even if a recipient rejects its payment, the TEE never
\* answers or no proof exists (refundPolicy after the expiry).
EscrowEventuallyLeaves ==
  \A p \in PolicyIds :
    policies[p].fundedAmount # 0 /\ policies[p].owner \notin Rejecting
      ~> policies[p].fundedAmount = 0 /\ ~InFlight(p)

-----------------------------------------------------------------------------
(* A statement of the documentation that the code does not keep. *)

\* docs/FAILURE-MODES.md: "The contract rejects ... stale results": a settlement
\* is executed only while its result has not expired.
StaleResultRejected ==
  [][\A p \in PolicyIds : SettleStarts(p) => now < ResultOf(p).expiry]_vars
=============================================================================
