------------------------- MODULE AurelithCoreProofs -------------------------
(***************************************************************************)
(* Proofs about AurelithCore, for every set of policies, accounts, results *)
(* and every bound:                                                        *)
(*   1. types, and the escrow of every policy is accounted for;            *)
(*   2. Core implements Escrow;                                            *)
(*   3. the contract stays solvent;                                        *)
(*   4. what releases the escrow is the policy's own evidence;             *)
(*   5. what no call may undo, and what the pages show.                    *)
(* The proofs are about CoreStep, which is a step of Core with funding of  *)
(* any value, so that a client with its own values can use them.           *)
(***************************************************************************)
EXTENDS AurelithEscrow, PolicyPages, FccBindingProofs, SumProofs, SequenceTheorems

\* A step of Core, with any value paid in.
CoreStep == [Next]_vars \/ \E p \in PolicyIds, value \in Nat : fundPolicy(p, value)

-----------------------------------------------------------------------------
(* Types of the contract state. *)

\* The empty policy record and the idle call frame are well typed.
LEMMA DefaultTypes == NoPolicy \in PolicyType
<1>1. "NONE" \in Status
  BY DEF Status
<1>2. <<>> \in Seq(Accounts) /\ <<>> \in Seq(Nat)
  OBVIOUS
<1> QED
  BY <1>1, <1>2 DEF NoPolicy, PolicyType

\* A valid participant list holds no zero address.
LEMMA ParticipantsType ==
  ASSUME NEW params \in CreateParams,
         _validateParticipants(params.recipients, params.sharesBps)
  PROVE  /\ params.recipients \in Seq(Accounts)
         /\ params.sharesBps \in Seq(Nat)
         /\ params.targetAmount \in Nat /\ params.expiry \in Nat
<1> DEFINE r == params.recipients
<1>1. params \in [targetAmount: Nat, expiry: Nat,
                  recipients: Seq(Accounts \cup {ZeroAddress}),
                  sharesBps: Seq(Nat)]
  BY CoreAssumption
<1>2. r \in Seq(Accounts \cup {ZeroAddress})
  BY <1>1
<1>3. \A i \in 1 .. Len(r) : r[i] \in Accounts
  BY <1>2, ElementOfSeq DEF _validateParticipants
<1>4. r \in Seq(Accounts)
  BY <1>2, <1>3, IsASeq, LenProperties
<1> QED
  BY <1>1, <1>4

\* A result handed to authenticateActionResult or settle is a full record.
LEMMA ResultFieldTypes ==
  ASSUME NEW r \in SettlementResults
  PROVE  /\ r \in SettlementResultType
         /\ r.policyId \in PolicyIds
         /\ r.recipients \in Seq(Accounts)
         /\ r.amounts \in Seq(Nat)
         /\ r.total \in Nat /\ r.nonce \in Nat /\ r.expiry \in Nat
<1>1. r \in SettlementResultType
  BY CoreAssumption
<1> QED
  BY <1>1 DEF SettlementResultType

\* What a call that stores one policy leaves behind.
LEMMA StoreEffect ==
  ASSUME policies \in [PolicyIds -> PolicyType], NEW p \in PolicyIds,
         NEW r \in PolicyType, Store(p, r)
  PROVE  /\ policies' \in [PolicyIds -> PolicyType]
         /\ policies'[p] = r
         /\ \A q \in PolicyIds : q # p => policies'[q] = policies[q]
  BY DEF Store

\* Updating fields of a policy with values of their types keeps its type.
LEMMA PolicyUpdateTypes ==
  ASSUME NEW c \in PolicyType
  PROVE  /\ \A st \in Status : [c EXCEPT !.status = st] \in PolicyType
         /\ \A v \in Nat, st \in Status :
              [c EXCEPT !.fundedAmount = v, !.status = st] \in PolicyType
         /\ \A d \in ProofDigests, t \in TransactionHashes, st \in Status :
              [c EXCEPT !.externalProofDigest = d, !.sourceTransactionHash = t,
                        !.status = st] \in PolicyType
         /\ \A h \in PrivateInputHashes, id \in InstructionIds, st \in Status :
              [c EXCEPT !.privateInputHash = h, !.computationReference = id,
                        !.resultNonce = @ + 1, !.status = st] \in PolicyType
         /\ \A r \in SettlementResults, st \in Status :
              [c EXCEPT !.resultDigest = hashSettlementResult(r),
                        !.status = st] \in PolicyType
         /\ \A v \in Nat, st \in Status :
              [c EXCEPT !.status = st, !.settledAmount = v,
                        !.fundedAmount = 0] \in PolicyType
<1>1. \A st \in Status : [c EXCEPT !.status = st] \in PolicyType
  BY DEF PolicyType
<1>2. \A v \in Nat, st \in Status :
        [c EXCEPT !.fundedAmount = v, !.status = st] \in PolicyType
  BY DEF PolicyType
<1>3. \A d \in ProofDigests, t \in TransactionHashes, st \in Status :
        [c EXCEPT !.externalProofDigest = d, !.sourceTransactionHash = t,
                  !.status = st] \in PolicyType
  BY DEF PolicyType
<1>4. \A h \in PrivateInputHashes, id \in InstructionIds, st \in Status :
        [c EXCEPT !.privateInputHash = h, !.computationReference = id,
                  !.resultNonce = @ + 1, !.status = st] \in PolicyType
  <2>1. \A h \in PrivateInputHashes, id \in InstructionIds, n \in Nat, st \in Status :
          [c EXCEPT !.privateInputHash = h, !.computationReference = id,
                    !.resultNonce = n, !.status = st] \in PolicyType
    BY DEF PolicyType
  <2>2. c.resultNonce + 1 \in Nat
    BY DEF PolicyType
  <2> QED
    BY <2>1, <2>2
<1>5. \A r \in SettlementResults, st \in Status :
        [c EXCEPT !.resultDigest = hashSettlementResult(r),
                  !.status = st] \in PolicyType
  BY DEF PolicyType
<1>6. \A v \in Nat, st \in Status :
        [c EXCEPT !.status = st, !.settledAmount = v,
                  !.fundedAmount = 0] \in PolicyType
  BY DEF PolicyType
<1> QED
  BY <1>1, <1>2, <1>3, <1>4, <1>5, <1>6

\* The constructor's state is well typed.
LEMMA CoreInitType == Init => TypeOK
  BY BindingInitType, DefaultTypes DEF Init, TypeOK

\* Every call of the contract keeps the types of policies and open calls.  The
\* open call's list of amounts is as long as its list of recipients
\* (FrameWellFormed), or the loop could read past its end.
LEMMA CoreNextType == TypeOK /\ FrameWellFormed /\ CoreStep => TypeOK'
<1> SUFFICES ASSUME TypeOK, FrameWellFormed, CoreStep
             PROVE  TypeOK'
  OBVIOUS
<1>0. UNCHANGED bindingVars => BindingTypeOK'
  BY BindingNextType DEF TypeOK
<1>a. policies \in [PolicyIds -> PolicyType]
  BY DEF TypeOK
<1>b. \A st \in {"DRAFT", "FUNDED", "PROOF_REQUESTED", "PROOF_VERIFIED",
                 "COMPUTATION_REQUESTED", "READY_TO_SETTLE", "SETTLED",
                 "CANCELLED", "REFUNDED"} : st \in Status
  BY DEF Status
<1>1. ASSUME NEW p \in PolicyIds, NEW sender \in Accounts,
             NEW params \in CreateParams, createPolicy(p, sender, params)
      PROVE  TypeOK'
  <2> DEFINE r == [NoPolicy EXCEPT !.owner = sender,
                        !.expiry = params.expiry,
                        !.targetAmount = params.targetAmount,
                        !.recipients = params.recipients,
                        !.sharesBps = params.sharesBps,
                        !.status = "DRAFT"]
  <2>1. r \in PolicyType
    BY <1>1, <1>b, DefaultTypes, ParticipantsType DEF createPolicy, PolicyType
  <2>2. Store(p, r)
    BY <1>1 DEF createPolicy
  <2>3. policies' \in [PolicyIds -> PolicyType]
    BY <1>a, <2>1, <2>2, StoreEffect
  <2> QED
    BY <1>0, <1>1, <2>3 DEF createPolicy, TypeOK, evidenceVars, ledgerVars
<1>2. ASSUME NEW p \in PolicyIds, NEW sender \in Accounts, requestProof(p, sender)
      PROVE  TypeOK'
  <2>1. [policies[p] EXCEPT !.status = "PROOF_REQUESTED"] \in PolicyType
    BY <1>a, <1>b, PolicyUpdateTypes
  <2>2. policies' \in [PolicyIds -> PolicyType]
    BY <1>2, <1>a, <2>1, StoreEffect DEF requestProof
  <2> QED
    BY <1>0, <1>2, <2>2 DEF requestProof, TypeOK, evidenceVars, ledgerVars
<1>3. ASSUME NEW p \in PolicyIds, NEW sender \in Accounts,
             NEW proof \in EvmProofs, submitEvmProof(p, sender, proof)
      PROVE  TypeOK'
  <2>1. proof.digest \in ProofDigests /\ proof.transactionHash \in TransactionHashes
    BY DEF ProofDigests, TransactionHashes
  <2>2. [policies[p] EXCEPT !.externalProofDigest = proof.digest,
           !.sourceTransactionHash = proof.transactionHash,
           !.status = "PROOF_VERIFIED"] \in PolicyType
    BY <1>a, <1>b, <2>1, PolicyUpdateTypes
  <2>3. policies' \in [PolicyIds -> PolicyType]
    BY <1>3, <1>a, <2>2, StoreEffect DEF submitEvmProof
  <2> QED
    BY <1>0, <1>3, <2>1, <2>3 DEF submitEvmProof, TypeOK, ledgerVars
<1>4. ASSUME NEW p \in PolicyIds, NEW sender \in Accounts,
             NEW h \in PrivateInputHashes, NEW id \in InstructionIds,
             sendComputationInstruction(p, sender, h, id)
      PROVE  TypeOK'
  <2>1. [policies[p] EXCEPT !.privateInputHash = h, !.computationReference = id,
           !.resultNonce = @ + 1, !.status = "COMPUTATION_REQUESTED"] \in PolicyType
    BY <1>a, <1>b, PolicyUpdateTypes
  <2>2. policies' \in [PolicyIds -> PolicyType]
    BY <1>4, <1>a, <2>1, StoreEffect DEF sendComputationInstruction
  <2> QED
    BY <1>0, <1>4, <2>2 DEF sendComputationInstruction, sendSettlementInstruction,
      TypeOK, ledgerVars
<1>5. ASSUME NEW p \in PolicyIds, NEW sender \in Accounts, cancelPolicy(p, sender)
      PROVE  TypeOK'
  <2>1. [policies[p] EXCEPT !.status = "CANCELLED"] \in PolicyType
    BY <1>a, <1>b, PolicyUpdateTypes
  <2>2. policies' \in [PolicyIds -> PolicyType]
    BY <1>5, <1>a, <2>1, StoreEffect DEF cancelPolicy
  <2> QED
    BY <1>0, <1>5, <2>2 DEF cancelPolicy, TypeOK, evidenceVars, ledgerVars
<1>6. ASSUME NEW p \in PolicyIds, NEW sender \in Accounts, refundPolicy(p, sender)
      PROVE  TypeOK'
  <2>1. [policies[p] EXCEPT !.fundedAmount = 0, !.status = "REFUNDED"] \in PolicyType
    BY <1>a, <1>b, PolicyUpdateTypes
  <2>2. policies' \in [PolicyIds -> PolicyType]
    BY <1>6, <1>a, <2>1, StoreEffect DEF refundPolicy
  <2>3. policies[p].owner \in Accounts /\ policies[p].fundedAmount \in Nat
    BY <1>6, <1>a DEF refundPolicy, onlyPolicyOwner, PolicyType
  <2>4. frame' \in FrameType
    BY <1>6, <2>3 DEF refundPolicy, FrameType
  <2> QED
    BY <1>0, <1>6, <2>2, <2>4 DEF refundPolicy, TypeOK, evidenceVars, ledgerVars
<1>7. ASSUME NEW p \in PolicyIds, NEW value \in Nat, fundPolicy(p, value)
      PROVE  TypeOK'
  <2> DEFINE funded == policies[p].fundedAmount + value
             st == IF funded = policies[p].targetAmount THEN "FUNDED"
                   ELSE policies[p].status
             r == [policies[p] EXCEPT !.fundedAmount = funded, !.status = st]
  <2>2. policies[p].fundedAmount \in Nat /\ policies[p].status \in Status
    BY <1>a DEF PolicyType
  <2>3. funded \in Nat /\ st \in Status
    BY <1>b, <2>2
  <2>4. r \in PolicyType
    <3> HIDE DEF funded, st
    <3> QED  BY <1>a, <2>3, PolicyUpdateTypes
  <2>5. Store(p, r)
    BY <1>7 DEF fundPolicy
  <2>6. policies' \in [PolicyIds -> PolicyType]
    <3> HIDE DEF r
    <3> QED  BY <1>a, <2>4, <2>5, StoreEffect
  <2>7. balance' \in Nat /\ deposited' \in [PolicyIds -> Nat]
    BY <1>7 DEF fundPolicy, TypeOK
  <2> QED
    BY <1>0, <1>7, <2>6, <2>7 DEF fundPolicy, TypeOK, evidenceVars
<1>8. ASSUME NEW result \in SettlementResults, NEW id \in InstructionIds,
             NEW s \in {0, 1}, NEW signer \in Tees,
             authenticateActionResult(result, id, s, signer)
      PROVE  TypeOK'
  <2>0. result.policyId \in PolicyIds
    BY ResultFieldTypes
  <2>1. [policies[result.policyId] EXCEPT
           !.resultDigest = hashSettlementResult(result),
           !.status = "READY_TO_SETTLE"] \in PolicyType
    BY <1>a, <1>b, <2>0, PolicyUpdateTypes
  <2>2. policies' \in [PolicyIds -> PolicyType]
    BY <1>8, <1>a, <2>0, <2>1, StoreEffect DEF authenticateActionResult
  <2>3. usedResultDigests' \subseteq {hashSettlementResult(r) : r \in SettlementResults}
    BY <1>8 DEF authenticateActionResult, TypeOK
  <2> QED
    BY <1>0, <1>8, <2>2, <2>3 DEF authenticateActionResult, TypeOK, ledgerVars
<1>9. ASSUME NEW sender \in Accounts, NEW result \in SettlementResults,
             settle(sender, result)
      PROVE  TypeOK'
  <2>0. /\ result.policyId \in PolicyIds
        /\ result.total \in Nat
        /\ result.recipients \in Seq(Accounts)
        /\ result.amounts \in Seq(Nat)
    BY ResultFieldTypes
  <2>1. [policies[result.policyId] EXCEPT
           !.status = "SETTLED", !.settledAmount = result.total,
           !.fundedAmount = 0] \in PolicyType
    BY <1>a, <1>b, <2>0, PolicyUpdateTypes
  <2>2. policies' \in [PolicyIds -> PolicyType]
    BY <1>9, <1>a, <2>0, <2>1, StoreEffect DEF settle
  <2>3. frame' \in FrameType
    BY <1>9, <2>0 DEF settle, FrameType
  <2> QED
    BY <1>0, <1>9, <2>2, <2>3 DEF settle, TypeOK, evidenceVars, ledgerVars
<1>10. CASE TransferNext
  <2> DEFINE p == frame.policyId
             to == frame.recipients[frame.next]
             amount == frame.amounts[frame.next]
  <2>1. frame \in FrameType /\ Len(frame.amounts) = Len(frame.recipients)
    BY <1>10 DEF TransferNext, TypeOK, FrameWellFormed
  <2>2. frame' \in FrameType
    <3>1. frame.next + 1 \in Nat \ {0}
      BY <2>1 DEF FrameType
    <3>2. \A n \in Nat \ {0} : [frame EXCEPT !.next = n] \in FrameType
      BY <2>1 DEF FrameType
    <3> QED  BY <1>10, <3>1, <3>2 DEF TransferNext
  <2>3. amount \in Nat /\ to \in Accounts /\ p \in PolicyIds
    <3>1. frame.next \in 1 .. Len(frame.recipients)
      BY <1>10, <2>1 DEF TransferNext, FrameType
    <3>2. frame.amounts \in Seq(Nat) /\ frame.recipients \in Seq(Accounts)
            /\ p \in PolicyIds
      BY <2>1 DEF FrameType
    <3> QED  BY <2>1, <3>1, <3>2, ElementOfSeq
  <2>4. balance' \in Nat
    <3>1. balance' = balance - amount /\ balance >= amount
      BY <1>10 DEF TransferNext
    <3>2. balance \in Nat
      BY DEF TypeOK
    <3> HIDE DEF p, to, amount
    <3> QED  BY <2>3, <3>1, <3>2
  <2>5. received' \in [PolicyIds -> [Accounts -> Nat]]
    <3>1. received \in [PolicyIds -> [Accounts -> Nat]]
      BY DEF TypeOK
    <3>2. CASE frame.kind = "settle"
      <4>1. received' = [received EXCEPT ![p] = [received[p] EXCEPT ![to] = @ + amount]]
        BY <1>10, <3>2 DEF TransferNext
      <4> HIDE DEF p, to, amount
      <4>2. [received[p] EXCEPT ![to] = @ + amount] \in [Accounts -> Nat]
        BY <2>3, <3>1
      <4> QED  BY <3>1, <4>1, <4>2
    <3>3. CASE frame.kind # "settle"
      BY <1>10, <3>1, <3>3 DEF TransferNext
    <3> QED  BY <3>2, <3>3
  <2>6. refunded' \in [PolicyIds -> Nat]
    <3>1. refunded \in [PolicyIds -> Nat]
      BY DEF TypeOK
    <3>2. refunded' = refunded \/ refunded' = [refunded EXCEPT ![p] = @ + amount]
      BY <1>10 DEF TransferNext
    <3> HIDE DEF p, amount
    <3> QED  BY <2>3, <3>1, <3>2
  <2> QED
    BY <1>0, <1>10, <2>2, <2>4, <2>5, <2>6 DEF TransferNext, TypeOK, evidenceVars
<1>11. CASE CallReturns
  BY <1>0, <1>11 DEF CallReturns, TypeOK, evidenceVars, ledgerVars
<1>12. CASE Tick
  BY <1>0, <1>12 DEF Tick, TypeOK, evidenceVars, ledgerVars
<1>13. CASE BindingNext /\ UNCHANGED coreVars
  BY <1>13, BindingNextType DEF coreVars, TypeOK, evidenceVars, ledgerVars
<1>14. CASE UNCHANGED vars
  BY <1>0, <1>14 DEF vars, coreVars, TypeOK, evidenceVars, ledgerVars
<1> QED
  BY <1>1, <1>2, <1>3, <1>4, <1>5, <1>6, <1>7, <1>8, <1>9, <1>10, <1>11, <1>12,
     <1>13, <1>14, CoreAssumption DEF CoreStep, Next, PolicyStep

-----------------------------------------------------------------------------
(* The escrow of every policy is accounted for. *)

\* What EscrowAccounted and the well-formedness say of one policy.
PolicyInv(p) ==
  /\ PolicyWellFormed(p)
  /\ policies[p].status = "SETTLED" => PaidByResult(p)
  /\ policies[p].status = "REFUNDED" => ReturnedInFull(p)
  /\ policies[p].status \notin {"SETTLED", "REFUNDED"} => HeldInFull(p)

\* The inductive invariant, policy by policy.
LEMMA EscrowInvByPolicy ==
  EscrowInv <=> TypeOK /\ FrameWellFormed /\ \A p \in PolicyIds : PolicyInv(p)
  BY DEF EscrowInv, EscrowAccounted, PolicyInv

\* A step keeps what it says of a policy whose record, ledger and open call it
\* does not touch.
LEMMA UntouchedPolicy ==
  ASSUME NEW q \in PolicyIds, PolicyInv(q),
         policies'[q] = policies[q], deposited'[q] = deposited[q],
         received'[q] = received[q], refunded'[q] = refunded[q],
         InFlight(q)' <=> InFlight(q),
         InFlight(q) => frame'.next = frame.next
  PROVE  PolicyInv(q)'
<1>1. ResultOf(q)' = ResultOf(q)
  BY DEF ResultOf
<1>2. PolicyWellFormed(q)'
  BY <1>1 DEF PolicyInv, PolicyWellFormed, ResultFits
<1>3. \A n : TransfersDone(q, n)' = TransfersDone(q, n)
  BY DEF TransfersDone
<1>4. NothingPaid(q)' <=> NothingPaid(q)
  BY DEF NothingPaid
<1>5. PaidByResult(q) => PaidByResult(q)'
  BY <1>1, <1>3 DEF PaidByResult
<1>6. ReturnedInFull(q) => ReturnedInFull(q)'
  BY <1>3, <1>4 DEF ReturnedInFull
<1>7. HeldInFull(q) => HeldInFull(q)'
  BY <1>4 DEF HeldInFull
<1> QED
  BY <1>2, <1>5, <1>6, <1>7 DEF PolicyInv

\* The open call stays well formed if no settled or refunded policy changes.
LEMMA OpenCallKept ==
  ASSUME TypeOK, FrameWellFormed, UNCHANGED frame,
         \A q \in PolicyIds : policies[q].status \in {"SETTLED", "REFUNDED"} =>
           policies'[q] = policies[q] /\ deposited'[q] = deposited[q]
  PROVE  FrameWellFormed'
<1> SUFFICES ASSUME frame # Idle
             PROVE  FrameWellFormed'
  BY DEF FrameWellFormed
<1> DEFINE p == frame.policyId
<1>1. p \in PolicyIds /\ frame.kind \in {"settle", "refund"}
  BY DEF TypeOK, FrameType
<1>2. policies[p].status \in {"SETTLED", "REFUNDED"}
  BY <1>1 DEF FrameWellFormed
<1>3. policies'[p] = policies[p] /\ deposited'[p] = deposited[p]
  BY <1>1, <1>2
<1>4. ResultOf(p)' = ResultOf(p)
  BY <1>3 DEF ResultOf
<1> QED
  BY <1>3, <1>4 DEF FrameWellFormed

\* A call that only moves a live policy to another live status, and leaves its
\* owner, recipients and escrow alone, keeps the invariant.
LEMMA LiveStatusMove ==
  ASSUME EscrowInv, NEW p \in PolicyIds, NEW r \in PolicyType, Store(p, r),
         policies[p].status \notin {"NONE", "SETTLED", "REFUNDED"},
         r.status \notin {"NONE", "READY_TO_SETTLE", "SETTLED", "REFUNDED"},
         r.owner = policies[p].owner, r.recipients = policies[p].recipients,
         r.fundedAmount = policies[p].fundedAmount,
         UNCHANGED <<frame, deposited, received, refunded>>
  PROVE  FrameWellFormed' /\ \A q \in PolicyIds : PolicyInv(q)'
<1>0. TypeOK /\ FrameWellFormed /\ \A q \in PolicyIds : PolicyInv(q)
  BY EscrowInvByPolicy
<1>1. policies'[p] = r /\ \A q \in PolicyIds : q # p => policies'[q] = policies[q]
  BY <1>0, StoreEffect DEF TypeOK
<1>2. FrameWellFormed'
  BY <1>0, <1>1, OpenCallKept
<1>3. PolicyInv(p)'
  <2>1. PolicyWellFormed(p)'
    BY <1>0, <1>1 DEF PolicyInv, PolicyWellFormed
  <2>2. HeldInFull(p)
    BY <1>0 DEF PolicyInv
  <2>3. HeldInFull(p)'
    BY <1>1, <2>2 DEF HeldInFull, NothingPaid, InFlight
  <2> QED
    BY <1>1, <2>1, <2>3 DEF PolicyInv
<1>4. ASSUME NEW q \in PolicyIds, q # p
      PROVE  PolicyInv(q)'
  BY <1>0, <1>1, <1>4, UntouchedPolicy DEF InFlight
<1> QED
  BY <1>2, <1>3, <1>4

\* createPolicy starts with an empty escrow and distinct recipients.
LEMMA CreateKeepsEscrow ==
  ASSUME EscrowInv, NEW p \in PolicyIds, NEW sender \in Accounts,
         NEW params \in CreateParams, createPolicy(p, sender, params)
  PROVE  FrameWellFormed' /\ \A q \in PolicyIds : PolicyInv(q)'
<1> DEFINE r == [NoPolicy EXCEPT !.owner = sender,
                      !.expiry = params.expiry,
                      !.targetAmount = params.targetAmount,
                      !.recipients = params.recipients,
                      !.sharesBps = params.sharesBps,
                      !.status = "DRAFT"]
<1>0. TypeOK /\ FrameWellFormed /\ \A q \in PolicyIds : PolicyInv(q)
  BY EscrowInvByPolicy
<1>a. UNCHANGED <<frame, deposited, received, refunded>>
  BY DEF createPolicy, ledgerVars
<1>1. policies' = [policies EXCEPT ![p] = r]
  BY DEF createPolicy, Store
<1>2. policies'[p] = r /\ \A q \in PolicyIds : q # p => policies'[q] = policies[q]
  BY <1>0, <1>1 DEF TypeOK
<1>3. /\ r.owner = sender /\ r.recipients = params.recipients
      /\ r.status = "DRAFT" /\ r.fundedAmount = 0
  BY DEF NoPolicy
<1>4. policies[p].status = "NONE"
  BY <1>0 DEF createPolicy, Exists, PolicyInv, PolicyWellFormed
<1>5. FrameWellFormed'
  BY <1>0, <1>a, <1>2, <1>4, OpenCallKept
<1>6. PolicyInv(p)'
  <2>1. sender # ZeroAddress
    BY CoreAssumption
  <2>2. PolicyWellFormed(p)'
    BY <1>2, <1>3, <2>1 DEF PolicyWellFormed, createPolicy, _validateParticipants
  <2>3. HeldInFull(p) /\ policies[p].fundedAmount = 0
    <3>1. HeldInFull(p)
      BY <1>0, <1>4 DEF PolicyInv
    <3>2. policies[p].fundedAmount = 0
      BY <1>0, <1>4 DEF PolicyInv, PolicyWellFormed
    <3> QED  BY <3>1, <3>2
  <2>4. HeldInFull(p)'
    BY <1>a, <1>2, <1>3, <2>3 DEF HeldInFull, NothingPaid, InFlight
  <2> QED
    BY <1>2, <1>3, <2>2, <2>4 DEF PolicyInv
<1>7. ASSUME NEW q \in PolicyIds, q # p
      PROVE  PolicyInv(q)'
  BY <1>0, <1>a, <1>2, <1>7, UntouchedPolicy DEF InFlight
<1> QED
  BY <1>5, <1>6, <1>7

\* fundPolicy books exactly the value it receives.
LEMMA FundKeepsEscrow ==
  ASSUME EscrowInv, NEW p \in PolicyIds, NEW value \in Nat,
         fundPolicy(p, value)
  PROVE  FrameWellFormed' /\ \A q \in PolicyIds : PolicyInv(q)'
<1> DEFINE funded == policies[p].fundedAmount + value
           st == IF funded = policies[p].targetAmount THEN "FUNDED"
                 ELSE policies[p].status
           r == [policies[p] EXCEPT !.fundedAmount = funded, !.status = st]
<1>0. TypeOK /\ FrameWellFormed /\ \A q \in PolicyIds : PolicyInv(q)
  BY EscrowInvByPolicy
<1>a. UNCHANGED <<frame, received, refunded>> /\ frame = Idle
  BY DEF fundPolicy, nonReentrant
<1>1. policies' = [policies EXCEPT ![p] = r]
  BY DEF fundPolicy, Store
<1>2. policies'[p] = r /\ \A q \in PolicyIds : q # p => policies'[q] = policies[q]
  BY <1>0, <1>1 DEF TypeOK
<1>3. /\ deposited'[p] = deposited[p] + value
      /\ \A q \in PolicyIds : q # p => deposited'[q] = deposited[q]
  BY <1>0 DEF fundPolicy, TypeOK
<1>4. policies[p] \in PolicyType
  BY <1>0 DEF TypeOK
<1>5. policies[p].status \in {"DRAFT", "FUNDED"} /\ st \in {"DRAFT", "FUNDED"}
  BY DEF fundPolicy
<1>6. /\ r.fundedAmount = funded /\ r.status = st
      /\ r.owner = policies[p].owner /\ r.recipients = policies[p].recipients
  <2> HIDE DEF funded, st
  <2> QED  BY <1>4 DEF PolicyType
<1>7. FrameWellFormed'
  BY <1>a DEF FrameWellFormed
<1>8. PolicyInv(p)'
  <2> HIDE DEF r, st
  <2>1. PolicyWellFormed(p)'
    BY <1>0, <1>2, <1>5, <1>6 DEF PolicyInv, PolicyWellFormed
  <2>2. HeldInFull(p)
    BY <1>0, <1>5 DEF PolicyInv
  <2>3. HeldInFull(p)'
    BY <1>a, <1>2, <1>3, <1>6, <2>2 DEF HeldInFull, NothingPaid, InFlight
  <2> QED
    BY <1>2, <1>5, <1>6, <2>1, <2>3 DEF PolicyInv
<1>9. ASSUME NEW q \in PolicyIds, q # p
      PROVE  PolicyInv(q)'
  BY <1>0, <1>a, <1>2, <1>3, <1>9, UntouchedPolicy DEF InFlight
<1> QED
  BY <1>7, <1>8, <1>9

\* An authenticated result pays out exactly the escrow of its policy.
LEMMA AuthenticateKeepsEscrow ==
  ASSUME EscrowInv, NEW result \in SettlementResults, NEW id \in InstructionIds,
         NEW s \in {0, 1}, NEW signer \in Tees,
         authenticateActionResult(result, id, s, signer)
  PROVE  FrameWellFormed' /\ \A q \in PolicyIds : PolicyInv(q)'
<1> DEFINE p == result.policyId
           D == hashSettlementResult(result)
           r == [policies[p] EXCEPT !.resultDigest = D, !.status = "READY_TO_SETTLE"]
<1>0. TypeOK /\ FrameWellFormed /\ \A q \in PolicyIds : PolicyInv(q)
  BY EscrowInvByPolicy
<1>p. p \in PolicyIds
  BY ResultFieldTypes
<1>a. UNCHANGED <<frame, deposited, received, refunded>>
  BY DEF authenticateActionResult, ledgerVars
<1>1. policies' = [policies EXCEPT ![p] = r]
  BY DEF authenticateActionResult, Store
<1>2. policies'[p] = r /\ \A q \in PolicyIds : q # p => policies'[q] = policies[q]
  <2> HIDE DEF r, p
  <2> QED  BY <1>0, <1>p, <1>1 DEF TypeOK
<1>3. policies[p] \in PolicyType
  BY <1>0, <1>p DEF TypeOK
<1>4. /\ policies[p].status = "COMPUTATION_REQUESTED"
      /\ result.recipients = policies[p].recipients
      /\ Len(result.recipients) = Len(result.amounts)
      /\ result.total = policies[p].fundedAmount
      /\ SumFunction(result.amounts) = result.total
  BY DEF authenticateActionResult, Acceptable, _requireState
<1>5. /\ r.resultDigest = D /\ r.status = "READY_TO_SETTLE"
      /\ r.fundedAmount = policies[p].fundedAmount
      /\ r.owner = policies[p].owner /\ r.recipients = policies[p].recipients
  <2> HIDE DEF p, D
  <2> QED  BY <1>3 DEF PolicyType
<1>6. D[2] = result /\ D # None
  <2>1. D[2] = result
    BY DEF hashSettlementResult
  <2>2. D # None
    BY CoreAssumption DEF hashSettlementResult
  <2> QED  BY <2>1, <2>2
<1>7. HeldInFull(p)
  BY <1>0, <1>p, <1>4 DEF PolicyInv
<1> HIDE DEF p, r, D
<1>8. FrameWellFormed'
  BY <1>0, <1>a, <1>2, <1>4, <1>p, OpenCallKept
<1>9. PolicyInv(p)'
  <2>1. ResultOf(p)' = result
    BY <1>2, <1>5, <1>6 DEF ResultOf
  <2>2. result.total = deposited'[p]
    BY <1>a, <1>4, <1>7 DEF HeldInFull
  <2>3. ResultFits(p)'
    BY <1>2, <1>4, <1>5, <1>6, <2>1, <2>2 DEF ResultFits
  <2>4. PolicyWellFormed(p)'
    BY <1>0, <1>p, <1>2, <1>4, <1>5, <2>3 DEF PolicyInv, PolicyWellFormed
  <2>5. HeldInFull(p)'
    BY <1>a, <1>2, <1>5, <1>7 DEF HeldInFull, NothingPaid, InFlight
  <2> QED
    BY <1>2, <1>5, <2>4, <2>5 DEF PolicyInv
<1>10. ASSUME NEW q \in PolicyIds, q # p
      PROVE  PolicyInv(q)'
  BY <1>0, <1>a, <1>2, <1>10, UntouchedPolicy DEF InFlight
<1> QED
  BY <1>8, <1>9, <1>10

\* settle books the whole escrow as leaving before it makes a transfer.
LEMMA SettleKeepsEscrow ==
  ASSUME EscrowInv, NEW sender \in Accounts, NEW result \in SettlementResults,
         settle(sender, result)
  PROVE  FrameWellFormed' /\ \A q \in PolicyIds : PolicyInv(q)'
<1> DEFINE p == result.policyId
           r == [policies[p] EXCEPT !.status = "SETTLED",
                   !.settledAmount = result.total, !.fundedAmount = 0]
<1>0. TypeOK /\ FrameWellFormed /\ \A q \in PolicyIds : PolicyInv(q)
  BY EscrowInvByPolicy
<1>p. /\ p \in PolicyIds
      /\ result.recipients \in Seq(Accounts) /\ result.amounts \in Seq(Nat)
  BY ResultFieldTypes
<1>a. UNCHANGED <<deposited, received, refunded>> /\ frame = Idle
  BY DEF settle, ledgerVars, nonReentrant
<1>b. frame' = [kind |-> "settle", policyId |-> p, next |-> 1,
                recipients |-> result.recipients, amounts |-> result.amounts]
  BY DEF settle
<1>1. policies' = [policies EXCEPT ![p] = r]
  BY DEF settle, Store
<1>3. policies[p] \in PolicyType
  BY <1>0, <1>p DEF TypeOK
<1>4. /\ policies[p].status = "READY_TO_SETTLE"
      /\ policies[p].resultDigest = hashSettlementResult(result)
  BY DEF settle, _requireState
<1>5. ResultOf(p) = result
  BY <1>4 DEF ResultOf, hashSettlementResult
<1>6. ResultFits(p) /\ HeldInFull(p) /\ PolicyWellFormed(p)
  BY <1>0, <1>p, <1>4 DEF PolicyInv, PolicyWellFormed
<1> HIDE DEF p
<1>2. policies'[p] = r /\ \A q \in PolicyIds : q # p => policies'[q] = policies[q]
  <2> HIDE DEF r
  <2> QED  BY <1>0, <1>p, <1>1 DEF TypeOK
<1>7. /\ r.resultDigest = policies[p].resultDigest /\ r.status = "SETTLED"
      /\ r.fundedAmount = 0 /\ r.settledAmount = result.total
      /\ r.owner = policies[p].owner /\ r.recipients = policies[p].recipients
  BY <1>3 DEF PolicyType
<1> HIDE DEF r
<1>8. ResultOf(p)' = result
  BY <1>2, <1>5, <1>7 DEF ResultOf
<1>9. FrameWellFormed'
  <2>1. Len(result.amounts) = Len(result.recipients) /\ Len(result.recipients) \in Nat
    BY <1>p, <1>5, <1>6, LenProperties DEF ResultFits
  <2> QED
    BY <1>b, <1>2, <1>7, <1>8, <2>1 DEF FrameWellFormed
<1>10. PolicyInv(p)'
  <2>1. PolicyWellFormed(p)'
    BY <1>a, <1>2, <1>5, <1>6, <1>7, <1>8, <1>4 DEF PolicyWellFormed, ResultFits
  <2>2. TransfersDone(p, Len(result.recipients))' = 0
    BY <1>b DEF TransfersDone, InFlight, Idle
  <2>3. PaidByResult(p)'
    <3>1. /\ result.recipients = policies'[p].recipients
          /\ SumFunction(result.amounts) = deposited'[p]
          /\ policies'[p].settledAmount = deposited'[p]
          /\ policies'[p].fundedAmount = 0 /\ refunded'[p] = 0
      BY <1>a, <1>2, <1>5, <1>6, <1>7 DEF ResultFits, HeldInFull
    <3>2. \A a \in Accounts : received'[p][a] = 0
      BY <1>a, <1>6 DEF HeldInFull, NothingPaid
    <3>3. \A i \in 1 .. Len(result.recipients) :
            received'[p][result.recipients[i]] = 0 /\ ~(i <= 0)
      BY <1>p, <3>2, ElementOfSeq
    <3> QED
      BY <1>8, <2>2, <3>1, <3>2, <3>3 DEF PaidByResult
  <2> QED
    BY <1>2, <1>7, <2>1, <2>3 DEF PolicyInv
<1>11. ASSUME NEW q \in PolicyIds, q # p
       PROVE  PolicyInv(q)'
  <2>1. ~InFlight(q) /\ ~InFlight(q)'
    BY <1>a, <1>b, <1>11 DEF InFlight
  <2> QED
    BY <1>0, <1>a, <1>2, <1>11, <2>1, UntouchedPolicy
<1> QED
  BY <1>9, <1>10, <1>11

\* refundPolicy books the whole escrow as leaving before it makes its transfer.
LEMMA RefundKeepsEscrow ==
  ASSUME EscrowInv, NEW p \in PolicyIds, NEW sender \in Accounts,
         refundPolicy(p, sender)
  PROVE  FrameWellFormed' /\ \A q \in PolicyIds : PolicyInv(q)'
<1> DEFINE r == [policies[p] EXCEPT !.fundedAmount = 0, !.status = "REFUNDED"]
<1>0. TypeOK /\ FrameWellFormed /\ \A q \in PolicyIds : PolicyInv(q)
  BY EscrowInvByPolicy
<1>a. UNCHANGED <<deposited, received, refunded>> /\ frame = Idle
  BY DEF refundPolicy, ledgerVars, nonReentrant
<1>b. frame' = [kind |-> "refund", policyId |-> p, next |-> 1,
                recipients |-> <<policies[p].owner>>,
                amounts |-> <<policies[p].fundedAmount>>]
  BY DEF refundPolicy
<1>1. policies' = [policies EXCEPT ![p] = r]
  BY DEF refundPolicy, Store
<1>2. policies'[p] = r /\ \A q \in PolicyIds : q # p => policies'[q] = policies[q]
  BY <1>0, <1>1 DEF TypeOK
<1>3. policies[p] \in PolicyType
  BY <1>0 DEF TypeOK
<1>4. policies[p].status \notin {"SETTLED", "REFUNDED"} /\ Exists(p)
  BY DEF refundPolicy, Refundable, onlyPolicyOwner
<1>5. HeldInFull(p) /\ PolicyWellFormed(p)
  BY <1>0, <1>4 DEF PolicyInv
<1>6. /\ r.status = "REFUNDED" /\ r.fundedAmount = 0
      /\ r.owner = policies[p].owner /\ r.recipients = policies[p].recipients
  BY <1>3 DEF PolicyType
<1> HIDE DEF r
<1>7. FrameWellFormed'
  <2>1. policies[p].fundedAmount # 0
    BY DEF refundPolicy
  <2> QED
    BY <1>a, <1>b, <1>2, <1>5, <1>6, <2>1 DEF FrameWellFormed, HeldInFull
<1>8. PolicyInv(p)'
  <2>1. PolicyWellFormed(p)'
    BY <1>2, <1>4, <1>5, <1>6 DEF PolicyWellFormed, Exists
  <2>2. TransfersDone(p, 1)' = 0
    BY <1>b DEF TransfersDone, InFlight, Idle
  <2>3. ReturnedInFull(p)'
    BY <1>a, <1>2, <1>5, <1>6, <2>2 DEF ReturnedInFull, HeldInFull, NothingPaid
  <2> QED
    BY <1>2, <1>6, <2>1, <2>3 DEF PolicyInv
<1>9. ASSUME NEW q \in PolicyIds, q # p
      PROVE  PolicyInv(q)'
  <2>1. ~InFlight(q) /\ ~InFlight(q)'
    BY <1>a, <1>b, <1>9 DEF InFlight
  <2> QED
    BY <1>0, <1>a, <1>2, <1>9, <2>1, UntouchedPolicy
<1> QED
  BY <1>7, <1>8, <1>9

\* One transfer of the open call: the account reached gets exactly its amount,
\* and the accounts already paid keep theirs.
LEMMA TransferKeepsEscrow ==
  ASSUME EscrowInv, TransferNext
  PROVE  FrameWellFormed' /\ \A q \in PolicyIds : PolicyInv(q)'
<1>0. TypeOK /\ FrameWellFormed /\ \A q \in PolicyIds : PolicyInv(q)
  BY EscrowInvByPolicy
<1>a. UNCHANGED <<policies, deposited>> /\ frame # Idle
  BY DEF TransferNext
<1>f. frame \in FrameType
  BY <1>0, <1>a DEF TypeOK
<1>p. PICK p \in PolicyIds : p = frame.policyId
  BY <1>f DEF FrameType
<1>n. PICK n \in Nat : n = frame.next /\ n >= 1
  BY <1>f DEF FrameType
<1>1. /\ p \in PolicyIds /\ frame.kind \in {"settle", "refund"}
      /\ n \in 1 .. Len(frame.recipients) /\ n \in Nat
      /\ frame.recipients \in Seq(Accounts) /\ frame.amounts \in Seq(Nat)
  BY <1>f, <1>n DEF TransferNext, FrameType
<1>2. /\ frame' # Idle /\ frame'.next = n + 1 /\ frame'.policyId = p
      /\ frame'.kind = frame.kind /\ frame'.recipients = frame.recipients
      /\ frame'.amounts = frame.amounts
  <2>1. frame' = [frame EXCEPT !.next = @ + 1]
    BY DEF TransferNext
  <2> QED
    BY <1>f, <1>p, <1>n, <1>1, <2>1 DEF FrameType, Idle
<1>3. Len(frame.amounts) = Len(frame.recipients)
  BY <1>0, <1>a DEF FrameWellFormed
<1>4. PICK to \in Accounts, amount \in Nat :
        to = frame.recipients[n] /\ amount = frame.amounts[n]
  BY <1>1, <1>3, ElementOfSeq
<1>5. PolicyInv(p)
  BY <1>0, <1>1
<1>6. InFlight(p) /\ InFlight(p)'
  BY <1>a, <1>p, <1>2 DEF InFlight
<1>r. \A q \in PolicyIds : ResultOf(q)' = ResultOf(q)
  BY <1>a DEF ResultOf
<1>7. FrameWellFormed'
  BY <1>0, <1>a, <1>p, <1>n, <1>1, <1>2, <1>r DEF FrameWellFormed
<1>8. PolicyWellFormed(p)'
  BY <1>a, <1>1, <1>5, <1>r DEF PolicyInv, PolicyWellFormed, ResultFits
<1>9. CASE frame.kind = "settle"
  <2>1. /\ policies[p].status = "SETTLED"
        /\ frame.recipients = ResultOf(p).recipients
        /\ frame.amounts = ResultOf(p).amounts
    BY <1>0, <1>a, <1>p, <1>9 DEF FrameWellFormed
  <2>2. PaidByResult(p) /\ PolicyWellFormed(p)
    BY <1>5, <2>1 DEF PolicyInv
  <2>3. /\ UNCHANGED refunded
        /\ received' = [received EXCEPT ![p] = [received[p] EXCEPT ![to] = @ + amount]]
    BY <1>p, <1>n, <1>4, <1>9 DEF TransferNext
  <2>4. received \in [PolicyIds -> [Accounts -> Nat]]
    BY <1>0 DEF TypeOK
  <2>5. /\ received'[p][to] = received[p][to] + amount
        /\ \A a \in Accounts : a # to => received'[p][a] = received[p][a]
        /\ \A q \in PolicyIds : q # p => received'[q] = received[q]
    BY <1>1, <1>4, <2>3, <2>4
  <2>r. PICK rec, am : rec = ResultOf(p).recipients /\ am = ResultOf(p).amounts
    OBVIOUS
  <2>6. /\ TransfersDone(p, Len(rec)) = n - 1
        /\ TransfersDone(p, Len(rec))' = n
    <3>1. TransfersDone(p, Len(rec)) = n - 1
      BY <1>6, <1>n DEF TransfersDone
    <3>2. TransfersDone(p, Len(rec))' = (n + 1) - 1
      BY <1>2, <1>6 DEF TransfersDone
    <3> QED  BY <1>1, <3>1, <3>2
  <2>7. \A i, j \in 1 .. Len(rec) : i # j => rec[i] # rec[j]
    BY <2>2, <2>r DEF PaidByResult, PolicyWellFormed
  <2>8. to = rec[n] /\ amount = am[n] /\ n \in 1 .. Len(rec) /\ rec \in Seq(Accounts)
    BY <1>1, <1>4, <2>1, <2>r
  <2>9. \A i \in 1 .. Len(rec) :
          received[p][rec[i]] = IF i <= n - 1 THEN am[i] ELSE 0
    BY <2>2, <2>6, <2>r DEF PaidByResult
  <2>10. \A i \in 1 .. Len(rec) :
           received'[p][rec[i]] = IF i <= n THEN am[i] ELSE 0
    <3> SUFFICES ASSUME NEW i \in 1 .. Len(rec)
                 PROVE  received'[p][rec[i]] = IF i <= n THEN am[i] ELSE 0
      OBVIOUS
    <3>1. CASE i = n
      <4>1. received[p][to] = 0
        BY <1>1, <2>8, <2>9
      <4> QED  BY <1>1, <1>4, <2>5, <2>8, <3>1, <4>1
    <3>2. CASE i # n
      <4>1. rec[i] # to /\ rec[i] \in Accounts
        BY <2>7, <2>8, <3>2, ElementOfSeq
      <4> QED  BY <1>1, <2>5, <2>9, <3>2, <4>1
    <3> QED  BY <3>1, <3>2
  <2>11. PaidByResult(p)'
    <3>1. \A a \in Accounts : received'[p][a] # 0 => \E i \in 1 .. Len(rec) : rec[i] = a
      <4> SUFFICES ASSUME NEW a \in Accounts, received'[p][a] # 0
                   PROVE  \E i \in 1 .. Len(rec) : rec[i] = a
        OBVIOUS
      <4>1. CASE a = to
        BY <2>8, <4>1
      <4>2. CASE a # to
        BY <2>2, <2>5, <2>r, <4>2 DEF PaidByResult
      <4> QED  BY <4>1, <4>2
    <3>2. ResultOf(p)' = ResultOf(p)
      BY <1>1, <1>r
    <3> QED
      BY <1>a, <2>2, <2>3, <2>6, <2>10, <2>r, <3>1, <3>2 DEF PaidByResult
  <2>12. PolicyInv(p)'
    BY <1>a, <1>8, <2>1, <2>11 DEF PolicyInv
  <2>13. ASSUME NEW q \in PolicyIds, q # p
         PROVE  PolicyInv(q)'
    <3>1. ~InFlight(q) /\ ~InFlight(q)'
      BY <1>p, <1>2, <2>13 DEF InFlight
    <3> QED
      BY <1>0, <1>a, <2>3, <2>5, <2>13, <3>1, UntouchedPolicy
  <2> QED
    BY <1>7, <2>12, <2>13
<1>10. CASE frame.kind = "refund"
  <2>1. /\ policies[p].status = "REFUNDED"
        /\ frame.recipients = <<policies[p].owner>>
        /\ frame.amounts = <<deposited[p]>>
    BY <1>0, <1>a, <1>p, <1>10 DEF FrameWellFormed
  <2>2. ReturnedInFull(p)
    BY <1>5, <2>1 DEF PolicyInv
  <2>3. /\ UNCHANGED received
        /\ refunded' = [refunded EXCEPT ![p] = @ + amount]
    BY <1>p, <1>n, <1>4, <1>10 DEF TransferNext
  <2>4. refunded \in [PolicyIds -> Nat] /\ deposited \in [PolicyIds -> Nat]
    BY <1>0 DEF TypeOK
  <2>5. n = 1 /\ amount = deposited[p]
    BY <1>1, <1>4, <2>1
  <2>6. /\ refunded'[p] = refunded[p] + amount
        /\ \A q \in PolicyIds : q # p => refunded'[q] = refunded[q]
    BY <1>1, <1>4, <2>3, <2>4
  <2>7. TransfersDone(p, 1) = 0 /\ TransfersDone(p, 1)' = 1
    BY <1>2, <1>6, <1>n, <2>5 DEF TransfersDone
  <2>8. refunded[p] = 0
    BY <2>2, <2>7 DEF ReturnedInFull
  <2>9. ReturnedInFull(p)'
    BY <1>a, <1>1, <2>2, <2>3, <2>4, <2>5, <2>6, <2>7, <2>8
       DEF ReturnedInFull, NothingPaid
  <2>10. PolicyInv(p)'
    BY <1>a, <1>8, <2>1, <2>9 DEF PolicyInv
  <2>11. ASSUME NEW q \in PolicyIds, q # p
         PROVE  PolicyInv(q)'
    <3>1. ~InFlight(q) /\ ~InFlight(q)'
      BY <1>p, <1>2, <2>11 DEF InFlight
    <3> QED
      BY <1>0, <1>a, <2>3, <2>6, <2>11, <3>1, UntouchedPolicy
  <2> QED
    BY <1>7, <2>10, <2>11
<1> QED
  BY <1>1, <1>9, <1>10

\* The open call returns only after its last transfer.
LEMMA ReturnKeepsEscrow ==
  ASSUME EscrowInv, CallReturns
  PROVE  FrameWellFormed' /\ \A q \in PolicyIds : PolicyInv(q)'
<1>0. TypeOK /\ FrameWellFormed /\ \A q \in PolicyIds : PolicyInv(q)
  BY EscrowInvByPolicy
<1>a. /\ UNCHANGED <<policies, deposited, received, refunded>>
      /\ frame # Idle /\ frame' = Idle
  BY DEF CallReturns, ledgerVars
<1>p. PICK p \in PolicyIds : p = frame.policyId
  BY <1>0, <1>a DEF TypeOK, FrameType
<1>1. /\ p \in PolicyIds /\ frame.kind \in {"settle", "refund"}
      /\ frame.next \in Nat /\ Len(frame.recipients) \in Nat
  BY <1>0, <1>a, LenProperties DEF TypeOK, FrameType
<1>2. frame.next - 1 = Len(frame.recipients)
  BY <1>0, <1>a, <1>1 DEF CallReturns, FrameWellFormed
<1>3. FrameWellFormed'
  BY <1>a DEF FrameWellFormed
<1>4. InFlight(p) /\ ~InFlight(p)'
  BY <1>a, <1>p DEF InFlight
<1>r. \A q \in PolicyIds : ResultOf(q)' = ResultOf(q)
  BY <1>a DEF ResultOf
<1>5. PolicyInv(p)'
  <2>1. PolicyWellFormed(p)'
    BY <1>0, <1>a, <1>1, <1>r DEF PolicyInv, PolicyWellFormed, ResultFits
  <2>2. CASE frame.kind = "settle"
    <3>1. policies[p].status = "SETTLED" /\ frame.recipients = ResultOf(p).recipients
      BY <1>0, <1>a, <1>p, <2>2 DEF FrameWellFormed
    <3>2. PaidByResult(p)
      BY <1>0, <1>1, <3>1 DEF PolicyInv
    <3>3. TransfersDone(p, Len(ResultOf(p).recipients))'
            = TransfersDone(p, Len(ResultOf(p).recipients))
      BY <1>1, <1>2, <1>4, <1>r, <3>1 DEF TransfersDone
    <3>4. PaidByResult(p)'
      BY <1>a, <1>1, <1>r, <3>2, <3>3 DEF PaidByResult
    <3> QED
      BY <1>a, <2>1, <3>1, <3>4 DEF PolicyInv
  <2>3. CASE frame.kind = "refund"
    <3>1. policies[p].status = "REFUNDED" /\ frame.recipients = <<policies[p].owner>>
      BY <1>0, <1>a, <1>p, <2>3 DEF FrameWellFormed
    <3>2. ReturnedInFull(p)
      BY <1>0, <1>1, <3>1 DEF PolicyInv
    <3>3. TransfersDone(p, 1)' = 1 /\ TransfersDone(p, 1) = 1
      BY <1>1, <1>2, <1>4, <3>1 DEF TransfersDone
    <3>4. ReturnedInFull(p)'
      BY <1>a, <3>2, <3>3 DEF ReturnedInFull, NothingPaid
    <3> QED
      BY <1>a, <2>1, <3>1, <3>4 DEF PolicyInv
  <2> QED
    BY <1>1, <2>2, <2>3
<1>6. ASSUME NEW q \in PolicyIds, q # p
      PROVE  PolicyInv(q)'
  <2>1. ~InFlight(q) /\ ~InFlight(q)'
    BY <1>a, <1>p, <1>6 DEF InFlight
  <2> QED
    BY <1>0, <1>a, <1>6, <2>1, UntouchedPolicy
<1> QED
  BY <1>3, <1>5, <1>6

\* The four calls that only add evidence or cancel (requestProof,
\* submitEvmProof, sendComputationInstruction, cancelPolicy) move one live policy
\* to another live status.
EvidenceStep(p, sender) ==
  \/ requestProof(p, sender)
  \/ cancelPolicy(p, sender)
  \/ \E proof \in EvmProofs : submitEvmProof(p, sender, proof)
  \/ \E h \in PrivateInputHashes, id \in InstructionIds :
       sendComputationInstruction(p, sender, h, id)

LiveMove(p, r) ==
  /\ Store(p, r)
  /\ policies[p].status \notin {"NONE", "SETTLED", "REFUNDED"}
  /\ r.status \notin {"NONE", "READY_TO_SETTLE", "SETTLED", "REFUNDED"}
  /\ r.owner = policies[p].owner /\ r.recipients = policies[p].recipients
  /\ r.fundedAmount = policies[p].fundedAmount
  /\ UNCHANGED <<frame, deposited, received, refunded>>

\* requestProof, submitEvmProof, sendComputationInstruction and cancelPolicy
\* store a policy whose escrow, owner and recipients are what they were.
LEMMA EvidenceIsLiveMove ==
  ASSUME EscrowInv, NEW p \in PolicyIds, NEW sender \in Accounts,
         EvidenceStep(p, sender)
  PROVE  \E r \in PolicyType : LiveMove(p, r)
<1>a. policies[p] \in PolicyType
  BY DEF EscrowInv, TypeOK
<1>b. {"PROOF_REQUESTED", "CANCELLED", "PROOF_VERIFIED", "COMPUTATION_REQUESTED"}
        \subseteq Status
  BY DEF Status
<1>c. PICK c \in PolicyType : c = policies[p]
  BY <1>a
<1>1. CASE requestProof(p, sender)
  <2> DEFINE r == [c EXCEPT !.status = "PROOF_REQUESTED"]
  <2>1. r \in PolicyType
    BY <1>b, PolicyUpdateTypes
  <2>2. /\ r.status = "PROOF_REQUESTED" /\ r.owner = c.owner
        /\ r.recipients = c.recipients /\ r.fundedAmount = c.fundedAmount
    BY DEF PolicyType
  <2>3. Store(p, r) /\ c.status = "FUNDED"
    BY <1>1, <1>c DEF requestProof, _requireState
  <2>4. UNCHANGED <<frame, deposited, received, refunded>>
    BY <1>1 DEF requestProof, ledgerVars
  <2> HIDE DEF r
  <2> QED
    BY <1>c, <2>1, <2>2, <2>3, <2>4 DEF LiveMove
<1>2. CASE cancelPolicy(p, sender)
  <2> DEFINE r == [c EXCEPT !.status = "CANCELLED"]
  <2>1. r \in PolicyType
    BY <1>b, PolicyUpdateTypes
  <2>2. /\ r.status = "CANCELLED" /\ r.owner = c.owner
        /\ r.recipients = c.recipients /\ r.fundedAmount = c.fundedAmount
    BY DEF PolicyType
  <2>3. Store(p, r) /\ c.status \in {"DRAFT", "FUNDED", "PROOF_REQUESTED"}
    BY <1>2, <1>c DEF cancelPolicy
  <2>4. UNCHANGED <<frame, deposited, received, refunded>>
    BY <1>2 DEF cancelPolicy, ledgerVars
  <2> HIDE DEF r
  <2> QED
    BY <1>c, <2>1, <2>2, <2>3, <2>4 DEF LiveMove
<1>3. ASSUME NEW proof \in EvmProofs, submitEvmProof(p, sender, proof)
      PROVE  \E r \in PolicyType : LiveMove(p, r)
  <2> DEFINE r == [c EXCEPT !.externalProofDigest = proof.digest,
                     !.sourceTransactionHash = proof.transactionHash,
                     !.status = "PROOF_VERIFIED"]
  <2>0. proof.digest \in ProofDigests /\ proof.transactionHash \in TransactionHashes
    BY DEF ProofDigests, TransactionHashes
  <2>1. r \in PolicyType
    BY <1>b, <2>0, PolicyUpdateTypes
  <2>2. /\ r.status = "PROOF_VERIFIED" /\ r.owner = c.owner
        /\ r.recipients = c.recipients /\ r.fundedAmount = c.fundedAmount
    BY DEF PolicyType
  <2>3. Store(p, r) /\ c.status = "PROOF_REQUESTED"
    BY <1>3, <1>c DEF submitEvmProof, _requireState
  <2>4. UNCHANGED <<frame, deposited, received, refunded>>
    BY <1>3 DEF submitEvmProof, ledgerVars
  <2> HIDE DEF r
  <2> QED
    BY <1>c, <2>1, <2>2, <2>3, <2>4 DEF LiveMove
<1>4. ASSUME NEW h \in PrivateInputHashes, NEW id \in InstructionIds,
             sendComputationInstruction(p, sender, h, id)
      PROVE  \E r \in PolicyType : LiveMove(p, r)
  <2> DEFINE r == [c EXCEPT !.privateInputHash = h, !.computationReference = id,
                     !.resultNonce = @ + 1, !.status = "COMPUTATION_REQUESTED"]
  <2>1. r \in PolicyType
    BY <1>b, PolicyUpdateTypes
  <2>2. /\ r.status = "COMPUTATION_REQUESTED" /\ r.owner = c.owner
        /\ r.recipients = c.recipients /\ r.fundedAmount = c.fundedAmount
    BY DEF PolicyType
  <2>3. Store(p, r) /\ c.status = "PROOF_VERIFIED"
    BY <1>4, <1>c DEF sendComputationInstruction, _requireState
  <2>4. UNCHANGED <<frame, deposited, received, refunded>>
    BY <1>4 DEF sendComputationInstruction, ledgerVars
  <2> HIDE DEF r
  <2> QED
    BY <1>c, <2>1, <2>2, <2>3, <2>4 DEF LiveMove
<1> QED
  BY <1>1, <1>2, <1>3, <1>4 DEF EvidenceStep

\* Collecting evidence and cancelling keep the invariant.
LEMMA EvidenceKeepsEscrow ==
  ASSUME EscrowInv, NEW p \in PolicyIds, NEW sender \in Accounts,
         EvidenceStep(p, sender)
  PROVE  FrameWellFormed' /\ \A q \in PolicyIds : PolicyInv(q)'
<1>1. PICK r \in PolicyType : LiveMove(p, r)
  BY EvidenceIsLiveMove
<1> QED
  BY <1>1, LiveStatusMove DEF LiveMove

\* A step that leaves policies, ledger and open call alone.
LEMMA OutsideKeepsEscrow ==
  ASSUME EscrowInv, UNCHANGED <<policies, frame, deposited, received, refunded>>
  PROVE  FrameWellFormed' /\ \A q \in PolicyIds : PolicyInv(q)'
<1>0. TypeOK /\ FrameWellFormed /\ \A q \in PolicyIds : PolicyInv(q)
  BY EscrowInvByPolicy
<1>1. FrameWellFormed'
  BY <1>0, OpenCallKept
<1>2. ASSUME NEW q \in PolicyIds
      PROVE  PolicyInv(q)'
  BY <1>0, UntouchedPolicy DEF InFlight
<1> QED
  BY <1>1, <1>2

\* The constructor's state satisfies the inductive invariant.
LEMMA EscrowInit == Init => EscrowInv
<1> SUFFICES ASSUME Init
             PROVE  EscrowInv
  OBVIOUS
<1>1. TypeOK
  BY CoreInitType
<1>2. FrameWellFormed
  BY DEF Init, FrameWellFormed
<1>3. ASSUME NEW p \in PolicyIds
      PROVE  PolicyInv(p)
  <2>1. /\ policies[p].status = "NONE" /\ policies[p].owner = ZeroAddress
        /\ policies[p].fundedAmount = 0 /\ policies[p].recipients = <<>>
    BY DEF Init, NoPolicy
  <2>2. PolicyWellFormed(p)
    BY <2>1 DEF PolicyWellFormed
  <2>3. HeldInFull(p)
    BY <2>1 DEF Init, HeldInFull, NothingPaid, InFlight
  <2> QED
    BY <2>1, <2>2, <2>3 DEF PolicyInv
<1> QED
  BY <1>1, <1>2, <1>3, EscrowInvByPolicy

\* Every step keeps the inductive invariant, one case per action.
LEMMA EscrowNext == EscrowInv /\ CoreStep => EscrowInv'
<1> SUFFICES ASSUME EscrowInv, CoreStep
             PROVE  EscrowInv'
  OBVIOUS
<1> DEFINE Kept == FrameWellFormed' /\ \A q \in PolicyIds : PolicyInv(q)'
<1>0. TypeOK'
  BY CoreNextType DEF EscrowInv
<1>1. ASSUME NEW p \in PolicyIds, NEW sender \in Accounts, PolicyStep(p, sender)
      PROVE  Kept
  BY <1>1, CreateKeepsEscrow, EvidenceKeepsEscrow, RefundKeepsEscrow
     DEF PolicyStep, EvidenceStep
<1>2. ASSUME NEW p \in PolicyIds, NEW value \in Nat, fundPolicy(p, value)
      PROVE  Kept
  BY <1>2, FundKeepsEscrow
<1>3. ASSUME NEW result \in SettlementResults, NEW id \in InstructionIds,
             NEW s \in {0, 1}, NEW signer \in Tees,
             authenticateActionResult(result, id, s, signer)
      PROVE  Kept
  BY <1>3, AuthenticateKeepsEscrow
<1>4. ASSUME NEW sender \in Accounts, NEW result \in SettlementResults,
             settle(sender, result)
      PROVE  Kept
  BY <1>4, SettleKeepsEscrow
<1>5. ASSUME TransferNext
      PROVE  Kept
  BY <1>5, TransferKeepsEscrow
<1>6. ASSUME CallReturns
      PROVE  Kept
  BY <1>6, ReturnKeepsEscrow
<1>7. ASSUME Tick
      PROVE  Kept
  BY <1>7, OutsideKeepsEscrow DEF Tick, ledgerVars
<1>8. ASSUME BindingNext /\ UNCHANGED coreVars
      PROVE  Kept
  BY <1>8, OutsideKeepsEscrow DEF coreVars, ledgerVars
<1>9. ASSUME UNCHANGED vars
      PROVE  Kept
  BY <1>9, OutsideKeepsEscrow DEF vars, coreVars, ledgerVars
<1>10. Kept
  BY <1>1, <1>2, <1>3, <1>4, <1>5, <1>6, <1>7, <1>8, <1>9, CoreAssumption
     DEF CoreStep, Next
<1> QED
  <2>1. EscrowInv' <=> TypeOK' /\ FrameWellFormed' /\ \A p \in PolicyIds : PolicyInv(p)'
    BY DEF EscrowInv, EscrowAccounted, PolicyInv
  <2> QED
    BY <1>0, <1>10, <2>1

\* The inductive invariant holds in every reachable state of the contract.
THEOREM EscrowInvariant == Spec => []EscrowInv
<1>1. Init => EscrowInv
  BY EscrowInit
<1>2. EscrowInv /\ [Next]_vars => EscrowInv'
  BY EscrowNext DEF CoreStep
<1> QED
  BY <1>1, <1>2, PTL DEF Spec

\* Every call of AurelithProtocol.sol, and every call made from inside a paid
\* account, keeps all contract state well typed: no funded amount, balance or
\* cursor of the payout loop leaves its range.
THEOREM TypeCorrect == Spec => []TypeOK
<1>1. EscrowInv => TypeOK
  BY DEF EscrowInv
<1> QED
  BY <1>1, EscrowInvariant, PTL

\* For any number of policies, accounts and recipients: the escrow of a policy
\* is booked in full, paid out exactly along its authenticated result, or
\* returned to its owner in full, also while settle or refundPolicy is running.
THEOREM EscrowIsAccounted == Spec => []EscrowAccounted
<1>1. EscrowInv => EscrowAccounted
  BY DEF EscrowInv
<1> QED
  BY <1>1, EscrowInvariant, PTL
-----------------------------------------------------------------------------
(* Core implements Escrow: a step of Core is a Deposit (fundPolicy), a PayOut *)
(* or a Return (the open call returns), or it leaves the abstract escrow as  *)
(* it is; EscrowInv says what the open call has done by the time it returns. *)

\* A policy whose escrow the observer sees unchanged.
SameView(p) ==
  /\ heldInEscrow'[p] = heldInEscrow[p]
  /\ paidOut'[p] = paidOut[p]
  /\ givenBack'[p] = givenBack[p]
  /\ outcomeOf'[p] = outcomeOf[p]

\* If every policy looks the same, the abstract escrow has not moved.
LEMMA Stutter ==
  ASSUME \A p \in PolicyIds : SameView(p)
  PROVE  UNCHANGED <<heldInEscrow, paidOut, givenBack, outcomeOf>>
<1>1. heldInEscrow' = heldInEscrow
  BY DEF SameView, heldInEscrow
<1>2. paidOut' = paidOut
  BY DEF SameView, paidOut
<1>3. givenBack' = givenBack
  BY DEF SameView, givenBack
<1>4. outcomeOf' = outcomeOf
  BY DEF SameView, outcomeOf
<1> QED
  BY <1>1, <1>2, <1>3, <1>4

\* A policy whose record, ledger and open call a step does not touch, as far
\* as the escrow goes, looks the same.
LEMMA UntouchedView ==
  ASSUME NEW p \in PolicyIds,
         policies'[p].fundedAmount = policies[p].fundedAmount,
         \/ policies'[p].status = policies[p].status
         \/ {policies[p].status, policies'[p].status}
              \cap {"SETTLED", "REFUNDED"} = {},
         deposited'[p] = deposited[p], received'[p] = received[p],
         refunded'[p] = refunded[p], InFlight(p)' <=> InFlight(p)
  PROVE  SameView(p)
<1>1. heldInEscrow'[p] = heldInEscrow[p]
  BY DEF heldInEscrow
<1>2. paidOut'[p] = paidOut[p]
  BY DEF paidOut
<1>3. givenBack'[p] = givenBack[p]
  BY DEF givenBack
<1>4. outcomeOf'[p] = outcomeOf[p]
  BY DEF outcomeOf
<1> QED
  BY <1>1, <1>2, <1>3, <1>4 DEF SameView

\* The open call of a policy hides everything that happens inside it.
LEMMA HiddenView ==
  ASSUME NEW p \in PolicyIds, InFlight(p), InFlight(p)',
         deposited'[p] = deposited[p]
  PROVE  SameView(p)
<1>1. heldInEscrow'[p] = heldInEscrow[p]
  BY DEF heldInEscrow
<1>2. paidOut'[p] = paidOut[p]
  BY DEF paidOut
<1>3. givenBack'[p] = givenBack[p]
  BY DEF givenBack
<1>4. outcomeOf'[p] = outcomeOf[p]
  BY DEF outcomeOf
<1> QED
  BY <1>1, <1>2, <1>3, <1>4 DEF SameView

\* A call that starts paying out a fully booked escrow has moved nothing yet.
LEMMA StartView ==
  ASSUME NEW p \in PolicyIds, EscrowInv, HeldInFull(p), InFlight(p)',
         policies[p].status \notin {"SETTLED", "REFUNDED"},
         deposited'[p] = deposited[p]
  PROVE  SameView(p)
<1>1. heldInEscrow'[p] = heldInEscrow[p]
  BY DEF heldInEscrow, HeldInFull
<1>2. paidOut'[p] = paidOut[p]
  <2>1. received[p] \in [Accounts -> Nat] /\ \A a \in Accounts : received[p][a] = 0
    BY DEF HeldInFull, NothingPaid, EscrowInv, TypeOK
  <2>2. received[p] = [a \in Accounts |-> 0]
    BY <2>1
  <2> QED
    BY <2>2 DEF paidOut, HeldInFull
<1>3. givenBack'[p] = givenBack[p]
  BY DEF givenBack, HeldInFull
<1>4. outcomeOf'[p] = outcomeOf[p]
  BY DEF outcomeOf
<1> QED
  BY <1>1, <1>2, <1>3, <1>4 DEF SameView

-----------------------------------------------------------------------------
(* The steps the observer does not see. *)

\* A call that stores a policy with its escrow and stays clear of SETTLED and
\* REFUNDED.
LEMMA StoreUnseen ==
  ASSUME EscrowInv, NEW p \in PolicyIds, NEW r \in PolicyType, Store(p, r),
         policies[p].status \notin {"SETTLED", "REFUNDED"},
         r.status \notin {"SETTLED", "REFUNDED"},
         r.fundedAmount = policies[p].fundedAmount,
         UNCHANGED <<frame, deposited, received, refunded>>
  PROVE  \A q \in PolicyIds : SameView(q)
<1>1. policies'[p] = r /\ \A q \in PolicyIds : q # p => policies'[q] = policies[q]
  BY StoreEffect DEF EscrowInv, TypeOK
<1>2. \A q \in PolicyIds : InFlight(q)' <=> InFlight(q)
  BY DEF InFlight
<1>3. SameView(p)
  BY <1>1, <1>2, UntouchedView
<1>4. ASSUME NEW q \in PolicyIds, q # p
      PROVE  SameView(q)
  BY <1>1, <1>2, <1>4, UntouchedView
<1> QED
  BY <1>3, <1>4

\* createPolicy: the new policy's escrow is as empty as the absent one's.
LEMMA CreateUnseen ==
  ASSUME EscrowInv, NEW p \in PolicyIds, NEW sender \in Accounts,
         NEW params \in CreateParams, createPolicy(p, sender, params)
  PROVE  \A q \in PolicyIds : SameView(q)
<1> DEFINE r == [NoPolicy EXCEPT !.owner = sender,
                      !.expiry = params.expiry,
                      !.targetAmount = params.targetAmount,
                      !.recipients = params.recipients,
                      !.sharesBps = params.sharesBps,
                      !.status = "DRAFT"]
<1>1. r \in PolicyType
  BY DefaultTypes, ParticipantsType DEF createPolicy, PolicyType, Status
<1>2. r.status = "DRAFT" /\ r.fundedAmount = 0
  BY DefaultTypes DEF NoPolicy
<1>3. Store(p, r) /\ UNCHANGED <<frame, deposited, received, refunded>>
  BY DEF createPolicy, ledgerVars
<1>4. policies[p].status = "NONE" /\ policies[p].fundedAmount = 0
  BY DEF createPolicy, Exists, EscrowInv, PolicyWellFormed
<1> HIDE DEF r
<1> QED
  BY <1>1, <1>2, <1>3, <1>4, StoreUnseen

\* authenticateActionResult moves no value.
LEMMA AuthenticateUnseen ==
  ASSUME EscrowInv, NEW result \in SettlementResults, NEW id, NEW s, NEW signer,
         authenticateActionResult(result, id, s, signer)
  PROVE  \A q \in PolicyIds : SameView(q)
<1>0. PICK p \in PolicyIds : p = result.policyId
  BY ResultFieldTypes
<1>1. PICK c \in PolicyType : c = policies[p]
  BY DEF EscrowInv, TypeOK
<1> DEFINE r == [c EXCEPT !.resultDigest = hashSettlementResult(result),
                          !.status = "READY_TO_SETTLE"]
<1>2. r \in PolicyType
  BY PolicyUpdateTypes DEF Status
<1>3. r.status = "READY_TO_SETTLE" /\ r.fundedAmount = c.fundedAmount
  BY DEF PolicyType
<1>4. Store(p, r) /\ UNCHANGED <<frame, deposited, received, refunded>>
  BY <1>0, <1>1 DEF authenticateActionResult, ledgerVars
<1>5. policies[p].status = "COMPUTATION_REQUESTED"
  BY <1>0 DEF authenticateActionResult, Acceptable, _requireState
<1> HIDE DEF r
<1> QED
  BY <1>1, <1>2, <1>3, <1>4, <1>5, StoreUnseen

\* settle: nothing has left the escrow when the checks and the state update are
\* done.
LEMMA SettleUnseen ==
  ASSUME EscrowInv, NEW sender \in Accounts, NEW result \in SettlementResults,
         settle(sender, result)
  PROVE  \A q \in PolicyIds : SameView(q)
<1>0. PICK p \in PolicyIds : p = result.policyId
  BY ResultFieldTypes
<1>1. /\ frame = Idle /\ frame' # Idle /\ frame'.policyId = p
      /\ UNCHANGED <<deposited, received, refunded>>
  BY <1>0 DEF settle, nonReentrant, ledgerVars, Idle
<1>2. \A q \in PolicyIds : q # p => policies'[q] = policies[q]
  BY <1>0 DEF settle, Store, EscrowInv, TypeOK
<1>3. policies[p].status = "READY_TO_SETTLE"
  BY <1>0 DEF settle, _requireState
<1>4. HeldInFull(p)
  BY <1>3 DEF EscrowInv, EscrowAccounted
<1>5. SameView(p)
  BY <1>1, <1>3, <1>4, StartView DEF InFlight
<1>6. ASSUME NEW q \in PolicyIds, q # p
      PROVE  SameView(q)
  <2>1. ~InFlight(q) /\ ~InFlight(q)'
    BY <1>1, <1>6 DEF InFlight
  <2> QED
    BY <1>1, <1>2, <1>6, <2>1, UntouchedView
<1> QED
  BY <1>5, <1>6

\* refundPolicy, likewise.
LEMMA RefundUnseen ==
  ASSUME EscrowInv, NEW p \in PolicyIds, NEW sender \in Accounts,
         refundPolicy(p, sender)
  PROVE  \A q \in PolicyIds : SameView(q)
<1>1. /\ frame = Idle /\ frame' # Idle /\ frame'.policyId = p
      /\ UNCHANGED <<deposited, received, refunded>>
  BY DEF refundPolicy, nonReentrant, ledgerVars, Idle
<1>2. \A q \in PolicyIds : q # p => policies'[q] = policies[q]
  BY DEF refundPolicy, Store, EscrowInv, TypeOK
<1>3. policies[p].status \notin {"SETTLED", "REFUNDED"}
  BY DEF refundPolicy, Refundable
<1>4. HeldInFull(p)
  BY <1>3 DEF EscrowInv, EscrowAccounted
<1>5. SameView(p)
  BY <1>1, <1>3, <1>4, StartView DEF InFlight
<1>6. ASSUME NEW q \in PolicyIds, q # p
      PROVE  SameView(q)
  <2>1. ~InFlight(q) /\ ~InFlight(q)'
    BY <1>1, <1>6 DEF InFlight
  <2> QED
    BY <1>1, <1>2, <1>6, <2>1, UntouchedView
<1> QED
  BY <1>5, <1>6

\* A transfer happens inside the open call.
LEMMA TransferUnseen ==
  ASSUME EscrowInv, TransferNext
  PROVE  \A q \in PolicyIds : SameView(q)
<1>1. frame \in FrameType /\ frame # Idle /\ UNCHANGED <<policies, deposited>>
  BY DEF TransferNext, EscrowInv, TypeOK
<1>2. PICK p \in PolicyIds : p = frame.policyId
  BY <1>1 DEF FrameType
<1>3. frame' # Idle /\ frame'.policyId = p
  BY <1>1, <1>2 DEF TransferNext, FrameType, Idle
<1>4. SameView(p)
  BY <1>1, <1>2, <1>3, HiddenView DEF InFlight
<1>5. ASSUME NEW q \in PolicyIds, q # p
      PROVE  SameView(q)
  <2>1. ~InFlight(q) /\ ~InFlight(q)'
    BY <1>2, <1>3, <1>5 DEF InFlight
  <2>2. received'[q] = received[q] /\ refunded'[q] = refunded[q]
    BY <1>2, <1>5 DEF TransferNext, EscrowInv, TypeOK
  <2> QED
    BY <1>1, <2>1, <2>2, UntouchedView
<1> QED
  BY <1>4, <1>5

-----------------------------------------------------------------------------
(* The steps the observer sees. *)

\* fundPolicy is a deposit.
LEMMA FundIsDeposit ==
  ASSUME EscrowInv, NEW p \in PolicyIds, NEW value \in FundingValues,
         fundPolicy(p, value)
  PROVE  Abstract!Deposit(p)
<1> DEFINE funded == policies[p].fundedAmount + value
           st == IF funded = policies[p].targetAmount THEN "FUNDED"
                 ELSE policies[p].status
           r == [policies[p] EXCEPT !.fundedAmount = funded, !.status = st]
<1>a. UNCHANGED <<frame, received, refunded>> /\ frame = Idle
  BY DEF fundPolicy, nonReentrant
<1>b. value \in FundingValues \ {0}
  BY DEF fundPolicy
<1>1. policies' = [policies EXCEPT ![p] = r]
  BY DEF fundPolicy, Store
<1>2. policies'[p] = r /\ \A q \in PolicyIds : q # p => policies'[q] = policies[q]
  BY <1>1 DEF EscrowInv, TypeOK
<1>3. policies[p].status \in {"DRAFT", "FUNDED"} /\ st \in {"DRAFT", "FUNDED"}
  BY DEF fundPolicy
<1>4. r.fundedAmount = funded /\ r.status = st
  <2>1. policies[p] \in PolicyType
    BY DEF EscrowInv, TypeOK
  <2> HIDE DEF funded, st
  <2> QED  BY <2>1 DEF PolicyType
<1>c. \A q \in PolicyIds : ~InFlight(q) /\ ~InFlight(q)'
  BY <1>a DEF InFlight
<1> HIDE DEF r, st
<1>5. outcomeOf[p] = "open" /\ outcomeOf' = outcomeOf
  BY <1>c, <1>2, <1>3, <1>4 DEF outcomeOf
<1>6. heldInEscrow' = [heldInEscrow EXCEPT ![p] = heldInEscrow[p] + value]
  BY <1>c, <1>2, <1>4 DEF heldInEscrow
<1>7. paidOut' = paidOut /\ givenBack' = givenBack
  BY <1>a, <1>c DEF paidOut, givenBack
<1> QED
  BY <1>b, <1>5, <1>6, <1>7 DEF Abstract!Deposit

\* When the open call returns, only its policy's view changes.
LEMMA ReturnView ==
  ASSUME EscrowInv, CallReturns, NEW p \in PolicyIds, p = frame.policyId
  PROVE  /\ UNCHANGED <<policies, deposited, received, refunded>>
         /\ InFlight(p) /\ \A q \in PolicyIds : ~InFlight(q)'
         /\ \A q \in PolicyIds : q # p => ~InFlight(q)
         /\ frame.next - 1 = Len(frame.recipients)
<1>1. frame # Idle /\ frame' = Idle /\ UNCHANGED <<policies, deposited, received, refunded>>
  BY DEF CallReturns, ledgerVars
<1>2. frame.next \in Nat /\ Len(frame.recipients) \in Nat
  BY <1>1, LenProperties DEF EscrowInv, TypeOK, FrameType
<1>3. frame.next - 1 = Len(frame.recipients)
  BY <1>1, <1>2 DEF CallReturns, EscrowInv, FrameWellFormed
<1> QED
  BY <1>1, <1>3 DEF InFlight

\* The abstract escrow adds up amounts the way Core does.
LEMMA SameSum ==
  ASSUME NEW f
  PROVE  Abstract!SumFunction(f) = SumFunction(f)
  BY DEF SumFunction, FoldFunction, FoldFunctionOnSet, SumFunctionOnSet, MapThenFoldSet,
         Abstract!SumFunction, Abstract!FoldFunction, Abstract!FoldFunctionOnSet,
         Abstract!SumFunctionOnSet, Abstract!MapThenFoldSet

\* settle's return is a payout of the authenticated result.
LEMMA SettleReturnIsPayOut ==
  ASSUME EscrowInv, CallReturns, NEW p \in PolicyIds, p = frame.policyId,
         frame.kind = "settle"
  PROVE  Abstract!PayOut(p)
<1>1. /\ UNCHANGED <<policies, deposited, received, refunded>>
      /\ InFlight(p) /\ \A q \in PolicyIds : ~InFlight(q)'
      /\ \A q \in PolicyIds : q # p => ~InFlight(q)
      /\ frame.next - 1 = Len(frame.recipients)
  BY ReturnView
<1>2. /\ policies[p].status = "SETTLED"
      /\ frame.recipients = ResultOf(p).recipients
      /\ frame.amounts = ResultOf(p).amounts
  BY DEF EscrowInv, FrameWellFormed, CallReturns
<1>3. PaidByResult(p) /\ ResultFits(p) /\ PolicyWellFormed(p)
  BY <1>2 DEF EscrowInv, EscrowAccounted, PolicyWellFormed
<1>4. PICK result \in SettlementResults : ResultOf(p) = result
  <2>1. policies[p].resultDigest \in {hashSettlementResult(r) : r \in SettlementResults}
    BY <1>3 DEF ResultFits, EscrowInv, TypeOK, PolicyType
  <2> QED
    BY <2>1 DEF ResultOf, hashSettlementResult
<1>5. PICK d : d = [to |-> result.recipients, amounts |-> result.amounts]
  OBVIOUS
<1>6. d \in {[to |-> r.recipients, amounts |-> r.amounts] : r \in SettlementResults}
  BY <1>5
<1>7. /\ \A i, j \in 1 .. Len(d.to) : i # j => d.to[i] # d.to[j]
      /\ Len(d.amounts) = Len(d.to)
      /\ SumFunction(d.amounts) = deposited[p]
  BY <1>3, <1>4, <1>5 DEF ResultFits, PolicyWellFormed, PaidByResult
<1>8. TransfersDone(p, Len(result.recipients)) = Len(result.recipients)
  BY <1>1, <1>2, <1>4 DEF TransfersDone
<1>9. /\ \A i \in 1 .. Len(d.to) : received[p][d.to[i]] = d.amounts[i]
      /\ \A a \in Accounts :
           received[p][a] # 0 => \E i \in 1 .. Len(d.to) : d.to[i] = a
  <2>1. Len(result.recipients) \in Nat
    BY ResultFieldTypes, LenProperties
  <2> QED
    BY <1>3, <1>4, <1>5, <1>8, <2>1 DEF PaidByResult
<1>10. \A a \in Accounts : Abstract!Share(d, a) = received[p][a]
  <2> SUFFICES ASSUME NEW a \in Accounts
               PROVE  Abstract!Share(d, a) = received[p][a]
    OBVIOUS
  <2>1. CASE \E i \in 1 .. Len(d.to) : d.to[i] = a
    <3> DEFINE k == CHOOSE i \in 1 .. Len(d.to) : d.to[i] = a
    <3>1. k \in 1 .. Len(d.to) /\ d.to[k] = a
      BY <2>1
    <3>2. Abstract!Share(d, a) = d.amounts[k]
      BY <2>1 DEF Abstract!Share
    <3> HIDE DEF k
    <3> QED
      BY <1>9, <3>1, <3>2
  <2>2. CASE ~\E i \in 1 .. Len(d.to) : d.to[i] = a
    BY <1>9, <2>2 DEF Abstract!Share
  <2> QED
    BY <2>1, <2>2
<1>11. [a \in Accounts |-> Abstract!Share(d, a)] = received[p]
  <2>1. received[p] \in [Accounts -> Nat]
    BY DEF EscrowInv, TypeOK
  <2> QED
    BY <1>10, <2>1
<1>12. outcomeOf[p] = "open" /\ heldInEscrow[p] = deposited[p]
  BY <1>1 DEF outcomeOf, heldInEscrow
<1>13. paidOut' = [paidOut EXCEPT ![p] = received[p]]
  BY <1>1 DEF paidOut
<1>14. heldInEscrow' = [heldInEscrow EXCEPT ![p] = 0]
  <2>1. policies[p].fundedAmount = 0
    BY <1>3 DEF PaidByResult
  <2> QED
    BY <1>1, <2>1 DEF heldInEscrow
<1>15. outcomeOf' = [outcomeOf EXCEPT ![p] = "paid"]
  BY <1>1, <1>2 DEF outcomeOf
<1>16. givenBack' = givenBack
  <2>1. refunded[p] = 0
    BY <1>3 DEF PaidByResult
  <2> QED
    BY <1>1, <2>1 DEF givenBack
<1>17. paidOut' = [paidOut EXCEPT ![p] = [a \in Accounts |-> Abstract!Share(d, a)]]
  BY <1>11, <1>13
<1>18. Abstract!SumFunction(d.amounts) = heldInEscrow[p]
  BY <1>7, <1>12, SameSum
<1> QED
  BY <1>6, <1>7, <1>12, <1>14, <1>15, <1>16, <1>17, <1>18, Zenon DEF Abstract!PayOut

\* refundPolicy's return gives the whole escrow back.
LEMMA RefundReturnIsReturn ==
  ASSUME EscrowInv, CallReturns, NEW p \in PolicyIds, p = frame.policyId,
         frame.kind = "refund"
  PROVE  Abstract!Return(p)
<1>1. /\ UNCHANGED <<policies, deposited, received, refunded>>
      /\ InFlight(p) /\ \A q \in PolicyIds : ~InFlight(q)'
      /\ \A q \in PolicyIds : q # p => ~InFlight(q)
      /\ frame.next - 1 = Len(frame.recipients)
  BY ReturnView
<1>2. /\ policies[p].status = "REFUNDED" /\ deposited[p] # 0
      /\ frame.recipients = <<policies[p].owner>>
  BY DEF EscrowInv, FrameWellFormed, CallReturns
<1>3. ReturnedInFull(p)
  BY <1>2 DEF EscrowInv, EscrowAccounted
<1>4. TransfersDone(p, 1) = 1
  BY <1>1, <1>2 DEF TransfersDone
<1>5. refunded[p] = deposited[p] /\ policies[p].fundedAmount = 0 /\ NothingPaid(p)
  BY <1>3, <1>4 DEF ReturnedInFull
<1>6. outcomeOf[p] = "open" /\ heldInEscrow[p] = deposited[p]
  BY <1>1 DEF outcomeOf, heldInEscrow
<1>7. givenBack' = [givenBack EXCEPT ![p] = deposited[p]]
  BY <1>1, <1>5 DEF givenBack
<1>8. heldInEscrow' = [heldInEscrow EXCEPT ![p] = 0]
  BY <1>1, <1>5 DEF heldInEscrow
<1>9. outcomeOf' = [outcomeOf EXCEPT ![p] = "returned"]
  BY <1>1, <1>2 DEF outcomeOf
<1>10. paidOut' = paidOut
  <2>1. received[p] = [a \in Accounts |-> 0]
    BY <1>5 DEF NothingPaid, EscrowInv, TypeOK
  <2> QED
    BY <1>1, <2>1 DEF paidOut
<1> QED
  BY <1>2, <1>6, <1>7, <1>8, <1>9, <1>10 DEF Abstract!Return

-----------------------------------------------------------------------------

\* The constructor's state maps to the empty escrow.
LEMMA InitImplements == Init => Abstract!EscrowInit
<1> SUFFICES ASSUME Init
             PROVE  Abstract!EscrowInit
  OBVIOUS
<1>1. \A p \in PolicyIds : ~InFlight(p) /\ policies[p] = NoPolicy
  BY DEF Init, InFlight
<1>2. heldInEscrow = [p \in PolicyIds |-> 0]
  BY <1>1 DEF heldInEscrow, NoPolicy
<1>3. paidOut = [p \in PolicyIds |-> [a \in Accounts |-> 0]]
  BY <1>1 DEF paidOut, Init
<1>4. givenBack = [p \in PolicyIds |-> 0]
  BY <1>1 DEF givenBack, Init
<1>5. outcomeOf = [p \in PolicyIds |-> "open"]
  BY <1>1 DEF outcomeOf, NoPolicy
<1> QED
  BY <1>2, <1>3, <1>4, <1>5 DEF Abstract!EscrowInit, Abstract!Nothing

\* Every step of Core is a step of the abstract escrow or leaves it alone.
LEMMA NextImplements ==
  EscrowInv /\ [Next]_vars => [Abstract!EscrowNext]_(Abstract!escrowVars)
<1> SUFFICES ASSUME EscrowInv, [Next]_vars
             PROVE  [Abstract!EscrowNext]_(Abstract!escrowVars)
  OBVIOUS
<1> DEFINE Unseen == \A q \in PolicyIds : SameView(q)
           Seen == \E p \in PolicyIds :
                     Abstract!Deposit(p) \/ Abstract!PayOut(p) \/ Abstract!Return(p)
<1>1. ASSUME NEW p \in PolicyIds, NEW sender \in Accounts, PolicyStep(p, sender)
      PROVE  Unseen
  <2>1. CASE EvidenceStep(p, sender)
    <3>1. PICK r \in PolicyType : LiveMove(p, r)
      BY <2>1, EvidenceIsLiveMove
    <3> QED
      BY <3>1, StoreUnseen DEF LiveMove
  <2> QED
    BY <1>1, <2>1, CreateUnseen, RefundUnseen DEF PolicyStep, EvidenceStep
<1>2. ASSUME NEW p \in PolicyIds, NEW value \in FundingValues, fundPolicy(p, value)
      PROVE  Seen
  BY <1>2, FundIsDeposit
<1>3. ASSUME NEW result \in SettlementResults, NEW id \in InstructionIds,
             NEW s \in {0, 1}, NEW signer \in Tees,
             authenticateActionResult(result, id, s, signer)
      PROVE  Unseen
  BY <1>3, AuthenticateUnseen
<1>4. ASSUME NEW sender \in Accounts, NEW result \in SettlementResults,
             settle(sender, result)
      PROVE  Unseen
  BY <1>4, SettleUnseen
<1>5. ASSUME TransferNext
      PROVE  Unseen
  BY <1>5, TransferUnseen
<1>6. ASSUME CallReturns
      PROVE  Seen
  <2>1. frame.policyId \in PolicyIds /\ frame.kind \in {"settle", "refund"}
    BY <1>6 DEF CallReturns, EscrowInv, TypeOK, FrameType
  <2> QED
    BY <1>6, <2>1, SettleReturnIsPayOut, RefundReturnIsReturn
<1>7. ASSUME UNCHANGED <<policies, frame, deposited, received, refunded>>
      PROVE  Unseen
  BY <1>7, UntouchedView DEF InFlight
<1>8. Unseen \/ Seen
  <2>1. CASE Tick
    BY <1>7, <2>1 DEF Tick, ledgerVars
  <2>2. CASE UNCHANGED coreVars
    BY <1>7, <2>2 DEF coreVars, ledgerVars
  <2>3. CASE UNCHANGED vars
    BY <2>2, <2>3 DEF vars
  <2> QED
    BY <1>1, <1>2, <1>3, <1>4, <1>5, <1>6, <2>1, <2>2, <2>3 DEF Next
<1>9. CASE Unseen
  BY <1>9, Stutter DEF Abstract!escrowVars
<1>10. CASE Seen
  BY <1>10 DEF Abstract!EscrowNext
<1> QED
  BY <1>8, <1>9, <1>10

\* Core implements the abstract escrow, for any number of policies, accounts
\* and recipients: settle and refundPolicy look atomic and final from outside.
THEOREM RefinesEscrow == Spec => ImplementsEscrow
<1>1. Init => Abstract!EscrowInit
  BY InitImplements
<1>2. EscrowInv /\ [Next]_vars => [Abstract!EscrowNext]_(Abstract!escrowVars)
  BY NextImplements
<1>3. Spec => []EscrowInv
  BY EscrowInvariant
<1> QED
  BY <1>1, <1>2, <1>3, PTL DEF Spec, ImplementsEscrow, Abstract!EscrowSpec

-----------------------------------------------------------------------------
(* Core stays solvent.  Solvent is inductive given EscrowInv: a step of     *)
(* fundPolicy, settle or refundPolicy changes the funded amount of one      *)
(* policy, so the sum over all policies moves by as much (SumUpdate).       *)

\* What each policy books as funded, and the sum of it.
Funded == [p \in PolicyIds |-> policies[p].fundedAmount]
Booked == SumFunctionOnSet(Funded, PolicyIds)

\* Solvent, said with these names.
LEMMA SolventByBooks == Solvent <=> balance = Booked + Undelivered
  BY DEF Solvent, SumFunction, Booked, Funded

\* The funded amounts and what is still to be transferred are naturals, and
\* nothing is to be transferred while no call is open.
LEMMA BooksType ==
  ASSUME EscrowInv
  PROVE  /\ \A p \in PolicyIds : Funded[p] = policies[p].fundedAmount /\ Funded[p] \in Nat
         /\ Booked \in Nat /\ balance \in Nat
         /\ frame = Idle => Undelivered = 0
<1>1. \A p \in PolicyIds : Funded[p] = policies[p].fundedAmount /\ Funded[p] \in Nat
  BY DEF EscrowInv, TypeOK, PolicyType, Funded
<1>2. Booked \in Nat
  BY <1>1, FiniteAssumption, SumType DEF Booked
<1>3. ASSUME frame = Idle
      PROVE  Undelivered = 0
  <2>1. frame.next .. Len(frame.recipients) = {}
    BY <1>3 DEF Idle
  <2> QED
    BY <2>1, SumEmpty DEF Undelivered
<1> QED
  BY <1>1, <1>2, <1>3 DEF EscrowInv, TypeOK

\* A step that changes no funded amount keeps the books.
LEMMA BooksKept ==
  ASSUME \A p \in PolicyIds : policies'[p].fundedAmount = policies[p].fundedAmount
  PROVE  Booked' = Booked
<1>1. Funded' = Funded
  BY DEF Funded
<1> QED
  BY <1>1 DEF Booked

\* A step that changes one funded amount changes the books by as much.
LEMMA BooksMove ==
  ASSUME EscrowInv, EscrowInv', NEW p \in PolicyIds,
         \A q \in PolicyIds : q # p =>
           policies'[q].fundedAmount = policies[q].fundedAmount
  PROVE  /\ Booked' + policies[p].fundedAmount = Booked + policies'[p].fundedAmount
         /\ Booked' \in Nat
<1>1. /\ \A q \in PolicyIds : Funded[q] = policies[q].fundedAmount /\ Funded[q] \in Nat
      /\ \A q \in PolicyIds : Funded'[q] = policies'[q].fundedAmount /\ Funded'[q] \in Nat
  <2>1. \A q \in PolicyIds : Funded'[q] = policies'[q].fundedAmount /\ Funded'[q] \in Nat
    BY DEF EscrowInv, TypeOK, PolicyType, Funded
  <2> QED
    BY <2>1, BooksType
<1>f. PICK f, g : f = Funded /\ g = Funded'
  OBVIOUS
<1>2. /\ \A q \in PolicyIds : f[q] \in Nat /\ g[q] \in Nat
      /\ \A q \in PolicyIds : q # p => g[q] = f[q]
  BY <1>1, <1>f
<1>3. /\ SumFunctionOnSet(g, PolicyIds) + f[p] = SumFunctionOnSet(f, PolicyIds) + g[p]
      /\ SumFunctionOnSet(g, PolicyIds) \in Nat
  BY <1>2, FiniteAssumption, SumUpdate, SumType
<1> QED
  BY <1>1, <1>3, <1>f DEF Booked

\* settle takes off the books what its transfers will add up to.
LEMMA SettleSolvent ==
  ASSUME EscrowInv, EscrowInv', Solvent, NEW sender \in Accounts,
         NEW result \in SettlementResults, settle(sender, result)
  PROVE  Solvent'
<1> DEFINE p == result.policyId
<1>p. p \in PolicyIds /\ result.amounts \in Seq(Nat) /\ result.total \in Nat
  BY ResultFieldTypes
<1>c. PICK c \in PolicyType : c = policies[p]
  BY <1>p DEF EscrowInv, TypeOK
<1>1. /\ c.status = "READY_TO_SETTLE" /\ c.resultDigest = hashSettlementResult(result)
      /\ frame = Idle /\ balance' = balance
      /\ frame'.amounts = result.amounts /\ frame'.recipients = result.recipients
      /\ frame'.next = 1
  BY <1>c DEF settle, nonReentrant, _requireState, ledgerVars
<1>2. ResultOf(p) = result
  BY <1>c, <1>1 DEF ResultOf, hashSettlementResult
<1>3. /\ Len(result.amounts) = Len(result.recipients)
      /\ SumFunction(result.amounts) = deposited[p]
  <2>1. ResultFits(p)
    BY <1>p, <1>c, <1>1 DEF EscrowInv, PolicyWellFormed
  <2> QED
    BY <1>2, <2>1 DEF ResultFits
<1>4. c.fundedAmount = deposited[p]
  BY <1>p, <1>c, <1>1 DEF EscrowInv, EscrowAccounted, HeldInFull
<1>5. /\ policies'[p].fundedAmount = 0
      /\ \A q \in PolicyIds : q # p => policies'[q].fundedAmount = policies[q].fundedAmount
  <2> DEFINE r == [c EXCEPT !.status = "SETTLED", !.settledAmount = result.total,
                     !.fundedAmount = 0]
  <2>1. r \in PolicyType
    BY <1>p, PolicyUpdateTypes DEF Status
  <2>2. Store(p, r)
    BY <1>c DEF settle
  <2>3. r.fundedAmount = 0
    BY DEF PolicyType
  <2> HIDE DEF r
  <2> QED
    BY <1>p, <2>1, <2>2, <2>3, StoreEffect DEF EscrowInv, TypeOK
<1>6. Undelivered' = deposited[p]
  <2>1. DOMAIN result.amounts = 1 .. Len(result.recipients)
    BY <1>p, <1>3
  <2>2. Undelivered' = SumFunctionOnSet(result.amounts, 1 .. Len(result.recipients))
    BY <1>1 DEF Undelivered
  <2> QED
    BY <1>3, <2>1, <2>2 DEF SumFunction
<1>7. /\ Booked' + deposited[p] = Booked /\ balance = Booked
      /\ Booked \in Nat /\ Booked' \in Nat /\ deposited[p] \in Nat
  <2>1. Booked' + policies[p].fundedAmount = Booked + policies'[p].fundedAmount
    BY <1>p, <1>5, BooksMove
  <2>2. Booked' \in Nat
    BY <1>p, <1>5, BooksMove
  <2>3. Booked \in Nat /\ balance \in Nat /\ Undelivered = 0 /\ balance = Booked + Undelivered
    BY <1>1, BooksType, SolventByBooks
  <2>4. c.fundedAmount \in Nat
    BY DEF PolicyType
  <2> QED
    BY <1>c, <1>4, <1>5, <2>1, <2>2, <2>3, <2>4
<1> QED
  BY <1>1, <1>6, <1>7 DEF Solvent, SumFunction, Booked, Funded

\* refundPolicy takes off the books the one amount it transfers.
LEMMA RefundSolvent ==
  ASSUME EscrowInv, EscrowInv', Solvent, NEW p \in PolicyIds, NEW sender \in Accounts,
         refundPolicy(p, sender)
  PROVE  Solvent'
<1>c. PICK c \in PolicyType : c = policies[p]
  BY DEF EscrowInv, TypeOK
<1>1. /\ frame = Idle /\ balance' = balance
      /\ frame'.amounts = <<c.fundedAmount>> /\ frame'.recipients = <<c.owner>>
      /\ frame'.next = 1
  BY <1>c DEF refundPolicy, nonReentrant, ledgerVars
<1>2. c.fundedAmount \in Nat
  BY DEF PolicyType
<1>3. /\ policies'[p].fundedAmount = 0
      /\ \A q \in PolicyIds : q # p => policies'[q].fundedAmount = policies[q].fundedAmount
  <2> DEFINE r == [c EXCEPT !.fundedAmount = 0, !.status = "REFUNDED"]
  <2>1. r \in PolicyType
    BY PolicyUpdateTypes DEF Status
  <2>2. Store(p, r)
    BY <1>c DEF refundPolicy
  <2>3. r.fundedAmount = 0
    BY DEF PolicyType
  <2> HIDE DEF r
  <2> QED
    BY <2>1, <2>2, <2>3, StoreEffect DEF EscrowInv, TypeOK
<1>4. Undelivered' = c.fundedAmount
  <2> PICK f : f = <<c.fundedAmount>>
    OBVIOUS
  <2>1. Undelivered' = SumFunctionOnSet(f, 1 .. 1)
    BY <1>1 DEF Undelivered
  <2>2. f[1] = c.fundedAmount
    OBVIOUS
  <2>3. /\ IsFiniteSet({1}) /\ 1 \in {1} /\ {1} \ {1} = {} /\ 1 .. 1 = {1}
        /\ \A i \in {1} : f[i] \in Nat
    BY <1>2, <2>2, FS_Singleton
  <2>4. SumFunctionOnSet(f, {1}) = f[1] + SumFunctionOnSet(f, {1} \ {1})
    BY <2>3, SumAlong
  <2> QED
    BY <1>2, <2>1, <2>2, <2>3, <2>4, SumEmpty
<1>5. /\ Booked' + c.fundedAmount = Booked /\ balance = Booked
      /\ Booked \in Nat /\ Booked' \in Nat
  <2>1. /\ Booked' + policies[p].fundedAmount = Booked + policies'[p].fundedAmount
        /\ Booked' \in Nat
    BY <1>3, BooksMove
  <2>2. Booked \in Nat /\ Undelivered = 0 /\ balance = Booked + Undelivered
    BY <1>1, BooksType, SolventByBooks
  <2> QED
    BY <1>c, <1>2, <1>3, <2>1, <2>2
<1> QED
  BY <1>1, <1>2, <1>4, <1>5 DEF Solvent, SumFunction, Booked, Funded

\* fundPolicy books exactly the value that arrives.
LEMMA FundSolvent ==
  ASSUME EscrowInv, EscrowInv', Solvent, NEW p \in PolicyIds,
         NEW value \in Nat, fundPolicy(p, value)
  PROVE  Solvent'
<1>c. PICK c \in PolicyType : c = policies[p]
  BY DEF EscrowInv, TypeOK
<1>1. value \in Nat /\ c.fundedAmount \in Nat
  BY DEF PolicyType
<1>2. frame = Idle /\ UNCHANGED frame /\ balance' = balance + value
  BY DEF fundPolicy, nonReentrant
<1>3. /\ policies'[p].fundedAmount = c.fundedAmount + value
      /\ \A q \in PolicyIds : q # p => policies'[q].fundedAmount = policies[q].fundedAmount
  <2> DEFINE funded == c.fundedAmount + value
             st == IF funded = c.targetAmount THEN "FUNDED" ELSE c.status
             r == [c EXCEPT !.fundedAmount = funded, !.status = st]
  <2>1. funded \in Nat /\ st \in Status
    BY <1>1 DEF PolicyType, Status
  <2>2. Store(p, r)
    BY <1>c DEF fundPolicy
  <2> HIDE DEF funded, st
  <2>3. r \in PolicyType
    BY <2>1, PolicyUpdateTypes
  <2>4. r.fundedAmount = funded
    BY DEF PolicyType
  <2> HIDE DEF r
  <2> QED
    BY <2>2, <2>3, <2>4, StoreEffect DEF EscrowInv, TypeOK, funded
<1>4. Undelivered' = Undelivered /\ Undelivered = 0
  BY <1>2, BooksType DEF Undelivered
<1>5. /\ Booked' = Booked + value /\ balance = Booked
      /\ Booked \in Nat /\ Booked' \in Nat
  <2>1. /\ Booked' + policies[p].fundedAmount = Booked + policies'[p].fundedAmount
        /\ Booked' \in Nat
    BY <1>3, BooksMove
  <2>2. Booked \in Nat /\ balance = Booked + Undelivered
    BY BooksType, SolventByBooks
  <2> QED
    BY <1>c, <1>1, <1>3, <1>4, <2>1, <2>2
<1> QED
  BY <1>1, <1>2, <1>4, <1>5 DEF Solvent, SumFunction, Booked, Funded

\* A transfer takes the same amount from the balance and from what is still to
\* be transferred.
LEMMA TransferSolvent ==
  ASSUME EscrowInv, Solvent, TransferNext
  PROVE  Solvent'
<1>1. /\ frame \in FrameType /\ Len(frame.amounts) = Len(frame.recipients)
      /\ frame.next <= Len(frame.recipients) /\ UNCHANGED policies
      /\ balance' = balance - frame.amounts[frame.next]
  BY DEF TransferNext, EscrowInv, TypeOK, FrameWellFormed
<1>f. PICK am, n, rec : am = frame.amounts /\ n = frame.next /\ rec = frame.recipients
  OBVIOUS
<1>2. /\ am \in Seq(Nat) /\ n \in Nat /\ n # 0 /\ Len(rec) \in Nat
      /\ Len(am) = Len(rec) /\ n <= Len(rec)
  BY <1>1, <1>f, LenProperties DEF FrameType
<1>3. frame'.next = n + 1 /\ frame'.recipients = rec /\ frame'.amounts = am
  BY <1>1, <1>f DEF TransferNext, FrameType
<1>4. \A i \in n .. Len(rec) : am[i] \in Nat
  BY <1>2, ElementOfSeq
<1>5. /\ Undelivered = SumFunctionOnSet(am, n .. Len(rec))
      /\ Undelivered' = SumFunctionOnSet(am, (n + 1) .. Len(rec))
  BY <1>3, <1>f DEF Undelivered
<1>6. Undelivered = am[n] + Undelivered'
  BY <1>2, <1>4, <1>5, SumFromBelow
<1>7. am[n] \in Nat /\ Undelivered' \in Nat
  <2>1. IsFiniteSet((n + 1) .. Len(rec))
    BY <1>2, FS_Interval
  <2>2. \A i \in (n + 1) .. Len(rec) : am[i] \in Nat
    BY <1>2, <1>4
  <2> QED
    BY <1>2, <1>4, <1>5, <2>1, <2>2, SumType
<1>8. Booked' = Booked /\ Booked \in Nat /\ balance = Booked + Undelivered
  BY <1>1, BooksKept, BooksType, SolventByBooks
<1> QED
  <2>1. balance' = balance - am[n]
    BY <1>1, <1>f
  <2>2. PICK a, b, u : a = am[n] /\ b = Booked /\ u = Undelivered'
    OBVIOUS
  <2>3. balance' = b + (a + u) - a /\ a \in Nat /\ b \in Nat /\ u \in Nat
    BY <1>6, <1>7, <1>8, <2>1, <2>2
  <2>4. balance' = b + u
    BY <2>3
  <2>5. balance' = Booked' + Undelivered'
    BY <1>8, <2>2, <2>4
  <2> QED
    BY <2>5 DEF Solvent, SumFunction, Booked, Funded

\* When the open call returns, nothing is left to be transferred.
LEMMA ReturnSolvent ==
  ASSUME EscrowInv, Solvent, CallReturns
  PROVE  Solvent'
<1>1. /\ frame \in FrameType /\ frame.next > Len(frame.recipients)
      /\ frame' = Idle /\ UNCHANGED <<policies, balance>>
  BY DEF CallReturns, EscrowInv, TypeOK, ledgerVars
<1>2. frame.next \in Nat /\ Len(frame.recipients) \in Nat
  BY <1>1, LenProperties DEF FrameType
<1>3. frame.next .. Len(frame.recipients) = {} /\ frame'.next .. Len(frame'.recipients) = {}
  BY <1>1, <1>2 DEF Idle
<1>4. Undelivered = 0 /\ Undelivered' = 0
  BY <1>3, SumEmpty DEF Undelivered
<1> QED
  BY <1>1, <1>4 DEF Solvent

\* A step that changes no funded amount, no balance and no open call.
LEMMA RestSolvent ==
  ASSUME Solvent, UNCHANGED <<balance, frame>>,
         \A p \in PolicyIds : policies'[p].fundedAmount = policies[p].fundedAmount
  PROVE  Solvent'
<1>1. Booked' = Booked /\ Undelivered' = Undelivered
  BY BooksKept DEF Undelivered
<1> QED
  BY <1>1 DEF Solvent, SumFunction, Booked, Funded

\* createPolicy stores a policy that has no funds yet.
LEMMA CreateSolvent ==
  ASSUME EscrowInv, Solvent, NEW p \in PolicyIds, NEW sender \in Accounts,
         NEW params \in CreateParams, createPolicy(p, sender, params)
  PROVE  Solvent'
<1> DEFINE r == [NoPolicy EXCEPT !.owner = sender,
                      !.expiry = params.expiry,
                      !.targetAmount = params.targetAmount,
                      !.recipients = params.recipients,
                      !.sharesBps = params.sharesBps,
                      !.status = "DRAFT"]
<1>1. r \in PolicyType
  BY DefaultTypes, ParticipantsType DEF createPolicy, PolicyType, Status
<1>2. r.fundedAmount = 0
  BY DEF NoPolicy
<1>3. Store(p, r) /\ UNCHANGED <<balance, frame>>
  BY DEF createPolicy, ledgerVars
<1>4. policies[p].fundedAmount = 0
  BY DEF createPolicy, Exists, EscrowInv, PolicyWellFormed
<1> HIDE DEF r
<1> QED
  BY <1>1, <1>2, <1>3, <1>4, StoreEffect, RestSolvent DEF EscrowInv, TypeOK

\* authenticateActionResult touches no funds.
LEMMA AuthenticateSolvent ==
  ASSUME EscrowInv, Solvent, NEW result \in SettlementResults, NEW id \in InstructionIds,
         NEW s \in {0, 1}, NEW signer \in Tees,
         authenticateActionResult(result, id, s, signer)
  PROVE  Solvent'
<1> DEFINE p == result.policyId
<1>p. p \in PolicyIds
  BY ResultFieldTypes
<1>c. PICK c \in PolicyType : c = policies[p]
  BY <1>p DEF EscrowInv, TypeOK
<1> DEFINE r == [c EXCEPT !.resultDigest = hashSettlementResult(result),
                   !.status = "READY_TO_SETTLE"]
<1>1. r \in PolicyType
  BY PolicyUpdateTypes DEF Status
<1>2. r.fundedAmount = c.fundedAmount
  BY DEF PolicyType
<1>3. Store(p, r) /\ UNCHANGED <<balance, frame>>
  BY <1>c DEF authenticateActionResult, ledgerVars
<1> HIDE DEF r
<1> QED
  BY <1>p, <1>c, <1>1, <1>2, <1>3, StoreEffect, RestSolvent DEF EscrowInv, TypeOK

\* Collecting evidence and cancelling touch no funds.
LEMMA EvidenceSolvent ==
  ASSUME EscrowInv, Solvent, NEW p \in PolicyIds, NEW sender \in Accounts,
         EvidenceStep(p, sender)
  PROVE  Solvent'
<1>1. PICK r \in PolicyType : LiveMove(p, r)
  BY EvidenceIsLiveMove
<1>2. UNCHANGED <<balance, frame>>
  BY DEF EvidenceStep, requestProof, cancelPolicy, submitEvmProof,
     sendComputationInstruction, ledgerVars
<1> QED
  BY <1>1, <1>2, StoreEffect, RestSolvent DEF LiveMove, EscrowInv, TypeOK

\* Every step keeps the contract solvent.
LEMMA SolventNext == EscrowInv /\ EscrowInv' /\ Solvent /\ CoreStep => Solvent'
<1> SUFFICES ASSUME EscrowInv, EscrowInv', Solvent, CoreStep
             PROVE  Solvent'
  OBVIOUS
<1>1. ASSUME NEW p \in PolicyIds, NEW sender \in Accounts, PolicyStep(p, sender)
      PROVE  Solvent'
  BY <1>1, CreateSolvent, EvidenceSolvent, RefundSolvent DEF PolicyStep, EvidenceStep
<1>2. ASSUME NEW p \in PolicyIds, NEW value \in Nat, fundPolicy(p, value)
      PROVE  Solvent'
  BY <1>2, FundSolvent
<1>3. ASSUME NEW result \in SettlementResults, NEW id \in InstructionIds,
             NEW s \in {0, 1}, NEW signer \in Tees,
             authenticateActionResult(result, id, s, signer)
      PROVE  Solvent'
  BY <1>3, AuthenticateSolvent
<1>4. ASSUME NEW sender \in Accounts, NEW result \in SettlementResults,
             settle(sender, result)
      PROVE  Solvent'
  BY <1>4, SettleSolvent
<1>5. ASSUME Tick \/ UNCHANGED coreVars
      PROVE  Solvent'
  BY <1>5, RestSolvent DEF Tick, coreVars, ledgerVars
<1> QED
  BY <1>1, <1>2, <1>3, <1>4, <1>5, TransferSolvent, ReturnSolvent, CoreAssumption
     DEF CoreStep, Next, vars

\* The constructor's state is solvent: nothing is booked and nothing is owed.
LEMMA SolventInit == Init => Solvent
<1> SUFFICES ASSUME Init
             PROVE  Solvent
  OBVIOUS
<1>1. \A p \in PolicyIds : Funded[p] = 0
  BY DEF Init, NoPolicy, Funded
<1>2. Booked = 0
  <2>1. \A p \in PolicyIds : Funded[p] \in Nat
    BY <1>1
  <2>2. SumFunctionOnSet(Funded, PolicyIds) = SumFunctionOnSet(Funded, {})
    BY <1>1, <2>1, FiniteAssumption, SumSupport
  <2> QED
    BY <2>2, SumEmpty DEF Booked
<1>3. frame.next .. Len(frame.recipients) = {}
  BY DEF Init, Idle
<1>4. Undelivered = 0 /\ balance = 0
  BY <1>3, SumEmpty DEF Undelivered, Init
<1> QED
  BY <1>2, <1>4, SolventByBooks

\* For any number of policies and recipients: the contract's balance is exactly
\* what it owes, also between two transfers of one settlement, so no transfer
\* of settle or refundPolicy can fail for lack of funds or spend the escrow of
\* another policy.
THEOREM CoreIsSolvent == Spec => []Solvent
<1>1. Init => Solvent
  BY SolventInit
<1>2. EscrowInv /\ EscrowInv' /\ Solvent /\ [Next]_vars => Solvent'
  BY SolventNext DEF CoreStep
<1> QED
  BY <1>1, <1>2, EscrowInvariant, PTL DEF Spec
-----------------------------------------------------------------------------
(* The moves of one policy record, from c to d. *)

SameTerms(c, d) ==
  /\ d.owner = c.owner /\ d.expiry = c.expiry /\ d.targetAmount = c.targetAmount
  /\ d.recipients = c.recipients /\ d.sharesBps = c.sharesBps

SameProof(c, d) ==
  /\ d.externalProofDigest = c.externalProofDigest
  /\ d.sourceTransactionHash = c.sourceTransactionHash
SameReference(c, d) ==
  /\ d.computationReference = c.computationReference
  /\ d.privateInputHash = c.privateInputHash /\ d.resultNonce = c.resultNonce
SameResult(c, d) == d.resultDigest = c.resultDigest
SameEvidence(c, d) == SameProof(c, d) /\ SameReference(c, d) /\ SameResult(c, d)

\* Funds are booked up to the target only.
Books(c, d) == d.fundedAmount \in {0, c.fundedAmount} \/ d.fundedAmount <= d.targetAmount

Creates(c, d) ==
  /\ c.owner = ZeroAddress /\ d.status = "DRAFT"
  /\ d.externalProofDigest = None /\ d.sourceTransactionHash = None
  /\ d.computationReference = None /\ d.resultDigest = None
  /\ UNCHANGED <<usedProofDigests, usedResultDigests, issued, deposited>>

Funds(c, d) ==
  /\ SameTerms(c, d) /\ SameEvidence(c, d)
  /\ c.status \in {"DRAFT", "FUNDED"} /\ d.status \in {"DRAFT", "FUNDED"}
  /\ UNCHANGED <<usedProofDigests, usedResultDigests, issued>>

\* requestProof, cancelPolicy, settle and refundPolicy write no evidence.
MovesOn(p, c, d) ==
  /\ SameTerms(c, d) /\ SameEvidence(c, d)
  /\ UNCHANGED <<usedProofDigests, usedResultDigests, issued, deposited>>
  /\ \/ c.status = "FUNDED" /\ d.status = "PROOF_REQUESTED"
     \/ c.status \in {"DRAFT", "FUNDED", "PROOF_REQUESTED"} /\ d.status = "CANCELLED"
     \/ c.status = "READY_TO_SETTLE" /\ d.status = "SETTLED"
     \/ Refundable(p) /\ d.status = "REFUNDED"

TakesProof(c, d) ==
  /\ SameTerms(c, d) /\ SameReference(c, d) /\ SameResult(c, d)
  /\ c.status = "PROOF_REQUESTED" /\ d.status = "PROOF_VERIFIED"
  /\ \E proof \in EvmProofs :
       /\ proof.verified /\ proof.status = 1 /\ proof.value >= c.targetAmount
       /\ proof.digest \notin usedProofDigests /\ proof.transactionHash # None
       /\ d.externalProofDigest = proof.digest
       /\ d.sourceTransactionHash = proof.transactionHash
       /\ usedProofDigests' = usedProofDigests \cup {proof.digest}
  /\ UNCHANGED <<usedResultDigests, issued, deposited>>

Instructs(c, d) ==
  /\ SameTerms(c, d) /\ SameProof(c, d) /\ SameResult(c, d)
  /\ c.status = "PROOF_VERIFIED" /\ d.status = "COMPUTATION_REQUESTED"
  /\ \E id \in InstructionIds \ issued :
       d.computationReference = id /\ issued' = issued \cup {id}
  /\ d.privateInputHash \in PrivateInputHashes /\ d.resultNonce = c.resultNonce + 1
  /\ UNCHANGED <<usedProofDigests, usedResultDigests, deposited>>

TakesResult(p, c, d) ==
  /\ SameTerms(c, d) /\ SameProof(c, d) /\ SameReference(c, d)
  /\ c.status = "COMPUTATION_REQUESTED" /\ d.status = "READY_TO_SETTLE"
  /\ \E result \in SettlementResults :
       /\ result.policyId = p /\ result.expiry <= c.expiry
       /\ result.externalProofDigest = c.externalProofDigest
       /\ result.computationReference = c.computationReference
       /\ result.total = c.targetAmount /\ result.total = c.fundedAmount
       /\ d.resultDigest = hashSettlementResult(result)
       /\ usedResultDigests' = usedResultDigests \cup {hashSettlementResult(result)}
  /\ UNCHANGED <<usedProofDigests, issued, deposited>>

Move(p, c, d) ==
  /\ Books(c, d)
  /\ \/ Creates(c, d) \/ Funds(c, d) \/ MovesOn(p, c, d)
     \/ TakesProof(c, d) \/ Instructs(c, d) \/ TakesResult(p, c, d)

\* The step moves policy p and leaves every other policy and its deposit alone.
Moves(p) ==
  /\ \A q \in PolicyIds \ {p} :
       policies'[q] = policies[q] /\ deposited'[q] = deposited[q]
  /\ Move(p, policies[p], policies'[p])

NoMove == UNCHANGED <<policies, usedProofDigests, usedResultDigests, issued, deposited>>

-----------------------------------------------------------------------------
(* Every step is a move of one policy, or of none. *)

\* What a call that stores record d for policy p makes of the other policies.
LEMMA StoreMoves ==
  ASSUME TypeOK, NEW p \in PolicyIds, NEW d \in PolicyType, Store(p, d),
         \A q \in PolicyIds \ {p} : deposited'[q] = deposited[q],
         Move(p, policies[p], d)
  PROVE  Moves(p)
<1>1. policies'[p] = d /\ \A q \in PolicyIds : q # p => policies'[q] = policies[q]
  BY StoreEffect DEF TypeOK
<1> QED
  BY <1>1 DEF Moves

\* createPolicy writes a record without evidence where there was no policy.
LEMMA CreateMoves ==
  ASSUME TypeOK, NEW p \in PolicyIds, NEW sender \in Accounts,
         NEW params \in CreateParams, createPolicy(p, sender, params)
  PROVE  Moves(p)
<1> DEFINE d == [NoPolicy EXCEPT !.owner = sender,
                      !.expiry = params.expiry,
                      !.targetAmount = params.targetAmount,
                      !.recipients = params.recipients,
                      !.sharesBps = params.sharesBps,
                      !.status = "DRAFT"]
<1>1. d \in PolicyType
  BY DefaultTypes, ParticipantsType DEF createPolicy, PolicyType, Status
<1>2. /\ d.status = "DRAFT" /\ d.externalProofDigest = None
      /\ d.sourceTransactionHash = None /\ d.computationReference = None
      /\ d.resultDigest = None /\ d.fundedAmount = 0
  BY DEF NoPolicy
<1>3. Store(p, d) /\ policies[p].owner = ZeroAddress
  BY DEF createPolicy, Exists
<1>4. UNCHANGED <<usedProofDigests, usedResultDigests, issued, deposited>>
  BY DEF createPolicy, evidenceVars, ledgerVars
<1> HIDE DEF d
<1>5. Creates(policies[p], d) /\ Books(policies[p], d)
  BY <1>2, <1>3, <1>4 DEF Creates, Books
<1> QED
  BY <1>1, <1>3, <1>4, <1>5, StoreMoves DEF Move

\* fundPolicy changes the funded amount and possibly DRAFT to FUNDED.
LEMMA FundMoves ==
  ASSUME TypeOK, NEW p \in PolicyIds, NEW value \in Nat,
         fundPolicy(p, value)
  PROVE  Moves(p)
<1>c. PICK c \in PolicyType : c = policies[p]
  BY DEF TypeOK
<1> DEFINE funded == c.fundedAmount + value
           st == IF funded = c.targetAmount THEN "FUNDED" ELSE c.status
           d == [c EXCEPT !.fundedAmount = funded, !.status = st]
<1>1. /\ c.status \in {"DRAFT", "FUNDED"} /\ st \in {"DRAFT", "FUNDED"}
      /\ funded <= c.targetAmount
  BY <1>c DEF fundPolicy
<1>2. funded \in Nat /\ st \in Status
  BY <1>1 DEF PolicyType, Status
<1>3. Store(p, d)
  BY <1>c DEF fundPolicy
<1>4. /\ \A q \in PolicyIds \ {p} : deposited'[q] = deposited[q]
      /\ UNCHANGED <<usedProofDigests, usedResultDigests, issued>>
  BY DEF fundPolicy, evidenceVars, TypeOK
<1> HIDE DEF funded, st
<1>5. d \in PolicyType
  BY <1>2, PolicyUpdateTypes
<1>6. SameTerms(c, d) /\ SameEvidence(c, d) /\ d.status = st /\ d.fundedAmount = funded
  BY DEF PolicyType, SameTerms, SameEvidence, SameProof, SameReference, SameResult
<1> HIDE DEF d
<1>7. Funds(c, d) /\ Books(c, d)
  BY <1>1, <1>4, <1>6 DEF Funds, Books, SameTerms
<1> QED
  BY <1>c, <1>3, <1>4, <1>5, <1>7, StoreMoves DEF Move

\* requestProof and cancelPolicy only change the status.
LEMMA StatusMoves ==
  ASSUME TypeOK, NEW p \in PolicyIds, NEW sender \in Accounts,
         requestProof(p, sender) \/ cancelPolicy(p, sender)
  PROVE  Moves(p)
<1>c. PICK c \in PolicyType : c = policies[p]
  BY DEF TypeOK
<1>1. PICK st \in {"PROOF_REQUESTED", "CANCELLED"} :
        /\ Store(p, [c EXCEPT !.status = st])
        /\ \/ c.status = "FUNDED" /\ st = "PROOF_REQUESTED"
           \/ c.status \in {"DRAFT", "FUNDED", "PROOF_REQUESTED"} /\ st = "CANCELLED"
  BY <1>c DEF requestProof, cancelPolicy, _requireState
<1> DEFINE d == [c EXCEPT !.status = st]
<1>2. d \in PolicyType
  BY PolicyUpdateTypes DEF Status
<1>3. SameTerms(c, d) /\ SameEvidence(c, d) /\ Books(c, d) /\ d.status = st
  BY DEF PolicyType, SameTerms, SameEvidence, SameProof, SameReference, SameResult, Books
<1>4. UNCHANGED <<usedProofDigests, usedResultDigests, issued, deposited>>
  BY DEF requestProof, cancelPolicy, evidenceVars, ledgerVars
<1>5. Store(p, d)
  BY <1>1
<1> HIDE DEF d
<1>6. MovesOn(p, c, d)
  BY <1>1, <1>3, <1>4 DEF MovesOn
<1> QED
  BY <1>c, <1>2, <1>3, <1>4, <1>5, <1>6, StoreMoves DEF Move

\* submitEvmProof stores an unused, verified and sufficient attestation.
LEMMA ProofMoves ==
  ASSUME TypeOK, NEW p \in PolicyIds, NEW sender \in Accounts,
         NEW proof \in EvmProofs, submitEvmProof(p, sender, proof)
  PROVE  Moves(p)
<1>c. PICK c \in PolicyType : c = policies[p]
  BY DEF TypeOK
<1> DEFINE d == [c EXCEPT !.externalProofDigest = proof.digest,
                   !.sourceTransactionHash = proof.transactionHash,
                   !.status = "PROOF_VERIFIED"]
<1>1. proof.digest \in ProofDigests /\ proof.transactionHash \in TransactionHashes
  BY DEF ProofDigests, TransactionHashes
<1>2. d \in PolicyType
  BY <1>1, PolicyUpdateTypes DEF Status
<1>3. /\ SameTerms(c, d) /\ SameReference(c, d) /\ SameResult(c, d) /\ Books(c, d)
      /\ d.externalProofDigest = proof.digest
      /\ d.sourceTransactionHash = proof.transactionHash
      /\ d.status = "PROOF_VERIFIED"
  BY DEF PolicyType, SameTerms, SameReference, SameResult, Books
<1>4. Store(p, d) /\ c.status = "PROOF_REQUESTED"
  BY <1>c DEF submitEvmProof, _requireState
<1>5. /\ proof.verified /\ proof.status = 1 /\ proof.value >= c.targetAmount
      /\ proof.digest \notin usedProofDigests /\ proof.transactionHash # None
      /\ usedProofDigests' = usedProofDigests \cup {proof.digest}
      /\ UNCHANGED <<usedResultDigests, issued, deposited>>
  BY <1>c DEF submitEvmProof, Proves, ledgerVars
<1> HIDE DEF d
<1>6. TakesProof(c, d)
  BY <1>3, <1>4, <1>5 DEF TakesProof
<1> QED
  BY <1>c, <1>2, <1>3, <1>4, <1>5, <1>6, StoreMoves DEF Move

\* sendComputationInstruction stores an instruction id never handed out before.
LEMMA InstructMoves ==
  ASSUME TypeOK, NEW p \in PolicyIds, NEW sender \in Accounts,
         NEW h \in PrivateInputHashes, NEW id \in InstructionIds,
         sendComputationInstruction(p, sender, h, id)
  PROVE  Moves(p)
<1>c. PICK c \in PolicyType : c = policies[p]
  BY DEF TypeOK
<1> DEFINE d == [c EXCEPT !.privateInputHash = h, !.computationReference = id,
                   !.resultNonce = @ + 1, !.status = "COMPUTATION_REQUESTED"]
<1>1. d \in PolicyType
  BY PolicyUpdateTypes DEF Status
<1>2. /\ SameTerms(c, d) /\ SameProof(c, d) /\ SameResult(c, d) /\ Books(c, d)
      /\ d.computationReference = id /\ d.status = "COMPUTATION_REQUESTED"
      /\ d.privateInputHash = h /\ d.resultNonce = c.resultNonce + 1
  BY DEF PolicyType, SameTerms, SameProof, SameResult, Books
<1>3. Store(p, d) /\ c.status = "PROOF_VERIFIED"
  BY <1>c DEF sendComputationInstruction, _requireState
<1>4. /\ id \in InstructionIds \ issued /\ issued' = issued \cup {id}
      /\ UNCHANGED <<usedProofDigests, usedResultDigests, deposited>>
  BY DEF sendComputationInstruction, sendSettlementInstruction, ledgerVars
<1> HIDE DEF d
<1>5. Instructs(c, d)
  BY <1>2, <1>3, <1>4 DEF Instructs
<1> QED
  BY <1>c, <1>1, <1>2, <1>3, <1>4, <1>5, StoreMoves DEF Move

\* authenticateActionResult stores a result that matches the policy's evidence.
LEMMA ResultMoves ==
  ASSUME TypeOK, NEW result \in SettlementResults, NEW id \in InstructionIds,
         NEW s \in {0, 1}, NEW signer \in Tees,
         authenticateActionResult(result, id, s, signer)
  PROVE  Moves(result.policyId)
<1> DEFINE p == result.policyId
<1>p. p \in PolicyIds
  BY ResultFieldTypes
<1>c. PICK c \in PolicyType : c = policies[p]
  BY <1>p DEF TypeOK
<1> DEFINE d == [c EXCEPT !.resultDigest = hashSettlementResult(result),
                   !.status = "READY_TO_SETTLE"]
<1>1. d \in PolicyType
  BY PolicyUpdateTypes DEF Status
<1>2. /\ SameTerms(c, d) /\ SameProof(c, d) /\ SameReference(c, d) /\ Books(c, d)
      /\ d.resultDigest = hashSettlementResult(result)
      /\ d.status = "READY_TO_SETTLE"
  BY DEF PolicyType, SameTerms, SameProof, SameReference, Books
<1>3. Store(p, d)
  BY <1>c DEF authenticateActionResult
<1>4. /\ c.status = "COMPUTATION_REQUESTED" /\ result.expiry <= c.expiry
      /\ result.externalProofDigest = c.externalProofDigest
      /\ result.computationReference = c.computationReference
      /\ result.total = c.targetAmount /\ result.total = c.fundedAmount
  BY <1>c DEF authenticateActionResult, Acceptable, _requireState
<1>5. /\ usedResultDigests' = usedResultDigests \cup {hashSettlementResult(result)}
      /\ UNCHANGED <<usedProofDigests, issued, deposited>>
  BY DEF authenticateActionResult, ledgerVars
<1> HIDE DEF d
<1>6. TakesResult(p, c, d)
  BY <1>2, <1>4, <1>5 DEF TakesResult
<1> QED
  BY <1>p, <1>c, <1>1, <1>2, <1>3, <1>5, <1>6, StoreMoves DEF Move

\* settle only changes the status and the amounts on the books.
LEMMA SettleMoves ==
  ASSUME TypeOK, NEW sender \in Accounts, NEW result \in SettlementResults,
         settle(sender, result)
  PROVE  Moves(result.policyId)
<1> DEFINE p == result.policyId
<1>p. p \in PolicyIds /\ result.total \in Nat
  BY ResultFieldTypes
<1>c. PICK c \in PolicyType : c = policies[p]
  BY <1>p DEF TypeOK
<1> DEFINE d == [c EXCEPT !.status = "SETTLED", !.settledAmount = result.total,
                   !.fundedAmount = 0]
<1>1. d \in PolicyType
  BY <1>p, PolicyUpdateTypes DEF Status
<1>2. SameTerms(c, d) /\ SameEvidence(c, d) /\ Books(c, d) /\ d.status = "SETTLED"
  BY DEF PolicyType, SameTerms, SameEvidence, SameProof, SameReference, SameResult, Books
<1>3. Store(p, d) /\ c.status = "READY_TO_SETTLE"
  BY <1>c DEF settle, _requireState
<1>4. UNCHANGED <<usedProofDigests, usedResultDigests, issued, deposited>>
  BY DEF settle, evidenceVars, ledgerVars
<1> HIDE DEF d
<1>5. MovesOn(p, c, d)
  BY <1>2, <1>3, <1>4 DEF MovesOn
<1> QED
  BY <1>p, <1>c, <1>1, <1>2, <1>3, <1>4, <1>5, StoreMoves DEF Move

\* refundPolicy only changes the status and the amount on the books, of a policy
\* that is refundable.
LEMMA RefundMoves ==
  ASSUME TypeOK, NEW p \in PolicyIds, NEW sender \in Accounts,
         refundPolicy(p, sender)
  PROVE  Moves(p)
<1>c. PICK c \in PolicyType : c = policies[p]
  BY DEF TypeOK
<1> DEFINE d == [c EXCEPT !.fundedAmount = 0, !.status = "REFUNDED"]
<1>1. d \in PolicyType
  BY PolicyUpdateTypes DEF Status
<1>2. SameTerms(c, d) /\ SameEvidence(c, d) /\ Books(c, d) /\ d.status = "REFUNDED"
  BY DEF PolicyType, SameTerms, SameEvidence, SameProof, SameReference, SameResult, Books
<1>3. Store(p, d) /\ Refundable(p)
  BY <1>c DEF refundPolicy
<1>4. UNCHANGED <<usedProofDigests, usedResultDigests, issued, deposited>>
  BY DEF refundPolicy, evidenceVars, ledgerVars
<1> HIDE DEF d
<1>5. MovesOn(p, c, d)
  BY <1>2, <1>3, <1>4 DEF MovesOn
<1> QED
  BY <1>c, <1>1, <1>2, <1>3, <1>4, <1>5, StoreMoves DEF Move

\* Every step of the contract moves one policy, or leaves all policies, their
\* deposits and the spent evidence alone.
LEMMA StepMoves ==
  ASSUME TypeOK, CoreStep
  PROVE  NoMove \/ \E p \in PolicyIds : Moves(p)
<1>1. ASSUME NEW p \in PolicyIds, NEW sender \in Accounts, PolicyStep(p, sender)
      PROVE  Moves(p)
  BY <1>1, CreateMoves, StatusMoves, ProofMoves, InstructMoves, RefundMoves
     DEF PolicyStep
<1>2. ASSUME NEW p \in PolicyIds, NEW value \in Nat, fundPolicy(p, value)
      PROVE  Moves(p)
  BY <1>2, FundMoves
<1>3. ASSUME NEW result \in SettlementResults, NEW id \in InstructionIds,
             NEW s \in {0, 1}, NEW signer \in Tees,
             authenticateActionResult(result, id, s, signer)
      PROVE  \E p \in PolicyIds : Moves(p)
  BY <1>3, ResultMoves, ResultFieldTypes
<1>4. ASSUME NEW sender \in Accounts, NEW result \in SettlementResults,
             settle(sender, result)
      PROVE  \E p \in PolicyIds : Moves(p)
  BY <1>4, SettleMoves, ResultFieldTypes
<1>5. TransferNext \/ CallReturns \/ Tick \/ UNCHANGED coreVars => NoMove
  BY DEF TransferNext, CallReturns, Tick, coreVars, evidenceVars, ledgerVars, NoMove
<1> QED
  BY <1>1, <1>2, <1>3, <1>4, <1>5, CoreAssumption DEF CoreStep, Next, vars

-----------------------------------------------------------------------------
(* The evidence of every policy is its own. *)

\* A policy that is not moved keeps its record; the spent evidence only grows.
LEMMA MoveFrame ==
  ASSUME NEW p \in PolicyIds, Moves(p)
  PROVE  /\ \A q \in PolicyIds \ {p} :
              policies'[q] = policies[q] /\ deposited'[q] = deposited[q]
         /\ usedProofDigests \subseteq usedProofDigests'
         /\ usedResultDigests \subseteq usedResultDigests'
         /\ issued \subseteq issued'
  BY DEF Moves, Move, Creates, Funds, MovesOn, TakesProof, Instructs, TakesResult

\* A move keeps the evidence in step with the stage.
LEMMA MoveKeepsStage ==
  ASSUME EvidenceInv, NEW p \in PolicyIds, Moves(p), NEW q \in PolicyIds
  PROVE  StageEvidence(q)'
<1> PICK c, d : c = policies[p] /\ d = policies'[p]
  OBVIOUS
<1>1. CASE q # p
  BY <1>1, MoveFrame DEF EvidenceInv, StageEvidence
<1>2. CASE q = p
  <2>1. /\ c.sourceTransactionHash # None <=> c.externalProofDigest # None
        /\ c.status # "REFUNDED" =>
             /\ c.externalProofDigest # None <=>
                  c.status \in {"PROOF_VERIFIED", "COMPUTATION_REQUESTED",
                                "READY_TO_SETTLE", "SETTLED"}
             /\ c.computationReference # None <=>
                  c.status \in {"COMPUTATION_REQUESTED", "READY_TO_SETTLE", "SETTLED"}
             /\ c.resultDigest # None <=> c.status \in {"READY_TO_SETTLE", "SETTLED"}
    BY DEF EvidenceInv, StageEvidence
  <2>2. Move(p, c, d)
    BY DEF Moves
  <2>3. StageEvidence(p)' <=>
          /\ d.sourceTransactionHash # None <=> d.externalProofDigest # None
          /\ d.status # "REFUNDED" =>
             /\ d.externalProofDigest # None <=>
                  d.status \in {"PROOF_VERIFIED", "COMPUTATION_REQUESTED",
                                "READY_TO_SETTLE", "SETTLED"}
             /\ d.computationReference # None <=>
                  d.status \in {"COMPUTATION_REQUESTED", "READY_TO_SETTLE", "SETTLED"}
             /\ d.resultDigest # None <=> d.status \in {"READY_TO_SETTLE", "SETTLED"}
    BY DEF StageEvidence
  <2>4. CASE Creates(c, d)
    BY <1>2, <2>3, <2>4 DEF Creates
  <2>5. CASE Funds(c, d)
    BY <1>2, <2>1, <2>3, <2>5
       DEF Funds, SameEvidence, SameProof, SameReference, SameResult
  <2>6. CASE MovesOn(p, c, d)
    BY <1>2, <2>1, <2>3, <2>6
       DEF MovesOn, SameEvidence, SameProof, SameReference, SameResult
  <2>7. CASE TakesProof(c, d)
    BY <1>2, <2>1, <2>3, <2>7, CoreAssumption DEF TakesProof, SameReference, SameResult
  <2>8. CASE Instructs(c, d)
    BY <1>2, <2>1, <2>3, <2>8, CoreAssumption DEF Instructs, SameProof, SameResult
  <2>9. CASE TakesResult(p, c, d)
    BY <1>2, <2>1, <2>3, <2>9, CoreAssumption
       DEF TakesResult, SameProof, SameReference, hashSettlementResult
  <2> QED
    BY <2>2, <2>4, <2>5, <2>6, <2>7, <2>8, <2>9 DEF Move
<1> QED
  BY <1>1, <1>2

\* A digest stays with the policy whose attestation it is: a new one was never
\* consumed before.
LEMMA MoveKeepsProof ==
  ASSUME EvidenceInv, NEW p \in PolicyIds, Moves(p), NEW q \in PolicyIds
  PROVE  OwnProof(q)'
<1> PICK c, d : c = policies[p] /\ d = policies'[p]
  OBVIOUS
<1>1. \A x \in PolicyIds : StageEvidence(x) /\ OwnProof(x)
  BY DEF EvidenceInv
<1>2. /\ \A x \in PolicyIds \ {p} : policies'[x] = policies[x]
      /\ usedProofDigests \subseteq usedProofDigests'
  BY MoveFrame
<1>3. CASE TakesProof(c, d)
  <2>1. PICK proof \in EvmProofs :
          /\ proof.verified /\ proof.status = 1 /\ proof.value >= c.targetAmount
          /\ proof.digest \notin usedProofDigests
          /\ d.externalProofDigest = proof.digest
          /\ usedProofDigests' = usedProofDigests \cup {proof.digest}
    BY <1>3 DEF TakesProof
  <2>2. d.targetAmount = c.targetAmount
    BY <1>3 DEF TakesProof, SameTerms
  <2>3. \A x \in PolicyIds \ {p} : policies'[x].externalProofDigest # proof.digest
    BY <1>1, <1>2, <2>1, CoreAssumption DEF OwnProof
  <2>4. CASE q = p
    BY <2>1, <2>2, <2>3, <2>4 DEF OwnProof
  <2>5. CASE q # p
    BY <1>1, <1>2, <2>1, <2>3, <2>5 DEF OwnProof
  <2> QED
    BY <2>4, <2>5
<1>4. CASE Creates(c, d)
  BY <1>1, <1>2, <1>4 DEF OwnProof, Creates
<1>5. CASE SameProof(c, d) /\ SameTerms(c, d)
  BY <1>1, <1>2, <1>5 DEF OwnProof, SameProof, SameTerms
<1> QED
  BY <1>3, <1>4, <1>5 DEF Moves, Move, Funds, MovesOn, Instructs, TakesResult,
     SameEvidence

\* An instruction stays with the policy it was sent for: a new one was never
\* handed out before.
LEMMA MoveKeepsInstruction ==
  ASSUME EvidenceInv, NEW p \in PolicyIds, Moves(p), NEW q \in PolicyIds
  PROVE  OwnInstruction(q)'
<1> PICK c, d : c = policies[p] /\ d = policies'[p]
  OBVIOUS
<1>1. \A x \in PolicyIds : OwnInstruction(x)
  BY DEF EvidenceInv
<1>2. /\ \A x \in PolicyIds \ {p} : policies'[x] = policies[x]
      /\ issued \subseteq issued'
  BY MoveFrame
<1>3. CASE Instructs(c, d)
  <2>1. PICK id \in InstructionIds \ issued :
          d.computationReference = id /\ issued' = issued \cup {id}
    BY <1>3 DEF Instructs
  <2>2. \A x \in PolicyIds \ {p} : policies'[x].computationReference # id
    BY <1>1, <1>2, CoreAssumption DEF OwnInstruction
  <2>3. CASE q = p
    BY <2>1, <2>2, <2>3 DEF OwnInstruction
  <2>4. CASE q # p
    BY <1>1, <1>2, <2>1, <2>2, <2>4 DEF OwnInstruction
  <2> QED
    BY <2>3, <2>4
<1>4. CASE Creates(c, d)
  BY <1>1, <1>2, <1>4 DEF OwnInstruction, Creates
<1>5. CASE SameReference(c, d)
  BY <1>1, <1>2, <1>5 DEF OwnInstruction, SameReference
<1> QED
  BY <1>3, <1>4, <1>5 DEF Moves, Move, Funds, MovesOn, TakesProof, TakesResult,
     SameEvidence

\* A result stays with the policy and the evidence it was authenticated for.
LEMMA MoveKeepsResult ==
  ASSUME EscrowInv, EvidenceInv, NEW p \in PolicyIds, Moves(p), NEW q \in PolicyIds
  PROVE  OwnResult(q)'
<1> PICK c, d : c = policies[p] /\ d = policies'[p]
  OBVIOUS
<1>1. StageEvidence(p) /\ OwnResult(p) /\ OwnResult(q)
  BY DEF EvidenceInv
<1>2. /\ \A x \in PolicyIds \ {p} :
           policies'[x] = policies[x] /\ deposited'[x] = deposited[x]
      /\ usedResultDigests \subseteq usedResultDigests'
  BY MoveFrame
<1>3. CASE q # p
  BY <1>1, <1>2, <1>3 DEF OwnResult, ResultOf
<1>4. CASE q = p /\ TakesResult(p, c, d)
  <2>1. PICK result \in SettlementResults :
          /\ result.policyId = p /\ result.expiry <= c.expiry
          /\ result.externalProofDigest = c.externalProofDigest
          /\ result.computationReference = c.computationReference
          /\ result.total = c.targetAmount /\ result.total = c.fundedAmount
          /\ d.resultDigest = hashSettlementResult(result)
          /\ usedResultDigests' = usedResultDigests \cup {hashSettlementResult(result)}
    BY <1>4 DEF TakesResult
  <2>2. /\ SameTerms(c, d) /\ SameProof(c, d) /\ SameReference(c, d)
        /\ c.status = "COMPUTATION_REQUESTED" /\ deposited' = deposited
    BY <1>4 DEF TakesResult
  <2>3. deposited[p] = c.fundedAmount
    BY <2>2 DEF EscrowInv, EscrowAccounted, HeldInFull
  <2>4. ResultOf(p)' = result
    BY <2>1 DEF ResultOf, hashSettlementResult
  <2> QED
    BY <1>4, <2>1, <2>2, <2>3, <2>4 DEF OwnResult, SameTerms, SameProof, SameReference
<1>5. CASE q = p /\ MovesOn(p, c, d)
  <2>1. SameTerms(c, d) /\ SameEvidence(c, d) /\ deposited' = deposited
    BY <1>5 DEF MovesOn
  <2>2. ResultOf(p)' = ResultOf(p)
    BY <2>1 DEF ResultOf, SameEvidence, SameResult
  <2> QED
    BY <1>1, <1>2, <1>5, <2>1, <2>2
       DEF OwnResult, SameTerms, SameEvidence, SameProof, SameReference, SameResult
<1>6. CASE q = p /\ (Creates(c, d) \/ Funds(c, d) \/ TakesProof(c, d) \/ Instructs(c, d))
  <2>1. d.resultDigest = None
    <3>1. c.status \in {"DRAFT", "FUNDED", "PROOF_REQUESTED", "PROOF_VERIFIED"}
            => c.resultDigest = None
      BY <1>1 DEF StageEvidence
    <3> QED
      BY <1>6, <3>1 DEF Creates, Funds, TakesProof, Instructs, SameEvidence, SameResult
  <2> QED
    BY <1>6, <2>1 DEF OwnResult
<1> QED
  BY <1>3, <1>4, <1>5, <1>6 DEF Moves, Move

\* No policy has any evidence in the constructor's state.
LEMMA EvidenceInit == Init => EvidenceInv
  BY DEF Init, NoPolicy, EvidenceInv, StageEvidence, OwnProof, OwnInstruction, OwnResult

\* Every step keeps the evidence of every policy its own.
LEMMA EvidenceNext == EscrowInv /\ EvidenceInv /\ CoreStep => EvidenceInv'
<1> SUFFICES ASSUME EscrowInv, EvidenceInv, CoreStep
             PROVE  EvidenceInv'
  OBVIOUS
<1>1. NoMove \/ \E p \in PolicyIds : Moves(p)
  BY StepMoves DEF EscrowInv
<1>2. ASSUME NoMove
      PROVE  EvidenceInv'
  <2>1. \A p \in PolicyIds : ResultOf(p)' = ResultOf(p)
    BY <1>2 DEF NoMove, ResultOf
  <2> QED
    BY <1>2, <2>1 DEF NoMove, EvidenceInv, StageEvidence, OwnProof, OwnInstruction,
       OwnResult
<1>3. ASSUME NEW p \in PolicyIds, Moves(p)
      PROVE  EvidenceInv'
  BY <1>3, MoveKeepsStage, MoveKeepsProof, MoveKeepsInstruction, MoveKeepsResult
     DEF EvidenceInv
<1> QED
  BY <1>1, <1>2, <1>3

\* For any number of policies: the evidence of a policy matches its stage and is
\* shared with no other policy, through every order of submitEvmProof,
\* sendComputationInstruction, authenticateActionResult, cancelPolicy and
\* refundPolicy.
THEOREM EvidenceInvariant == Spec => []EvidenceInv
<1>1. Init => EvidenceInv
  BY EvidenceInit
<1>2. EscrowInv /\ EvidenceInv /\ [Next]_vars => EvidenceInv'
  BY EvidenceNext DEF CoreStep
<1> QED
  BY <1>1, <1>2, EscrowInvariant, PTL DEF Spec

\* No policy settles on a proof, an instruction or a result that belongs to
\* another policy, or on less than its whole target.
THEOREM PoliciesSettleOnOwnEvidence == Spec => []SettlesOnOwnEvidence
<1>1. EvidenceInv => SettlesOnOwnEvidence
  BY DEF EvidenceInv, StageEvidence, OwnProof, OwnInstruction, OwnResult,
     SettlesOnOwnEvidence
<1> QED
  BY <1>1, EvidenceInvariant, PTL

-----------------------------------------------------------------------------
(* What no call may undo. *)

\* Only refundPolicy makes a policy REFUNDED, and only if it is refundable.
LEMMA RefundIsDue ==
  ASSUME EscrowInv, [Next]_vars, NEW p \in PolicyIds, RefundStarts(p)
  PROVE  Refundable(p)
<1>1. ~NoMove /\ \A q \in PolicyIds : Moves(q) => q = p
  BY DEF RefundStarts, NoMove, Moves
<1>2. Moves(p)
  BY <1>1, StepMoves DEF EscrowInv, CoreStep
<1> QED
  BY <1>2 DEF RefundStarts, Moves, Move, Creates, Funds, MovesOn, TakesProof,
     Instructs, TakesResult

\* The expiry of a policy and of its result are times.
LEMMA ExpiryTypes ==
  ASSUME EscrowInv, NEW p \in PolicyIds
  PROVE  /\ now \in Nat /\ policies[p].expiry \in Nat
         /\ policies[p].resultDigest # None => ResultOf(p).expiry \in Nat
<1>1. now \in Nat /\ policies[p] \in PolicyType
  BY DEF EscrowInv, TypeOK
<1>2. /\ policies[p].expiry \in Nat
      /\ policies[p].resultDigest
           \in {hashSettlementResult(r) : r \in SettlementResults} \cup {None}
  BY <1>1 DEF PolicyType
<1>3. ASSUME policies[p].resultDigest # None
      PROVE  ResultOf(p).expiry \in Nat
  <2>1. PICK r \in SettlementResults : policies[p].resultDigest = hashSettlementResult(r)
    BY <1>2, <1>3
  <2>2. ResultOf(p) = r
    BY <2>1 DEF ResultOf, hashSettlementResult
  <2> QED
    BY <2>2, ResultFieldTypes
<1> QED
  BY <1>1, <1>2, <1>3

\* No sequence of cancelPolicy and refundPolicy takes the escrow back before the
\* expiry once submitEvmProof has accepted a payment for the policy.
THEOREM ProvedEscrowIsCommitted == Spec => CommittedUntilExpiry
<1>1. EscrowInv /\ EvidenceInv /\ [Next]_vars
        => \A p \in PolicyIds : RefundStarts(p) /\ now < policies[p].expiry
             => policies[p].externalProofDigest = None
  <2> SUFFICES ASSUME EscrowInv, EvidenceInv, [Next]_vars, NEW p \in PolicyIds,
                      RefundStarts(p), now < policies[p].expiry
               PROVE  policies[p].externalProofDigest = None
    OBVIOUS
  <2>1. policies[p].status = "CANCELLED"
    BY RefundIsDue, ExpiryTypes DEF Refundable
  <2> QED
    BY <2>1 DEF EvidenceInv, StageEvidence
<1> QED
  BY <1>1, EscrowInvariant, EvidenceInvariant, PTL DEF Spec, CommittedUntilExpiry

\* refundPolicy cannot overtake a result that could still be settled.
THEOREM ValidResultIsNotStranded == Spec => ResultNotStranded
<1>1. EscrowInv /\ EvidenceInv /\ [Next]_vars
        => \A p \in PolicyIds : RefundStarts(p) /\ policies[p].resultDigest # None
             => now >= ResultOf(p).expiry
  <2> SUFFICES ASSUME EscrowInv, EvidenceInv, [Next]_vars, NEW p \in PolicyIds,
                      RefundStarts(p), policies[p].resultDigest # None
               PROVE  now >= ResultOf(p).expiry
    OBVIOUS
  <2>1. policies[p].status # "CANCELLED"
    BY DEF EvidenceInv, StageEvidence
  <2>2. now >= policies[p].expiry
    BY <2>1, RefundIsDue DEF Refundable
  <2>3. ResultOf(p).expiry <= policies[p].expiry
    BY DEF EvidenceInv, OwnResult
  <2> QED
    BY <2>2, <2>3, ExpiryTypes
<1> QED
  BY <1>1, EscrowInvariant, EvidenceInvariant, PTL DEF Spec, ResultNotStranded

\* No call changes the terms of a policy, replaces a proof, an instruction or a
\* result, or reopens a settled or refunded policy.
THEOREM RecordsAreWriteOnce == Spec => RecordIsWriteOnce
<1> DEFINE KeepsRecord(p) ==
      /\ \A f \in {"owner", "expiry", "targetAmount", "recipients", "sharesBps"} :
           policies'[p][f] = policies[p][f]
      /\ \A f \in {"externalProofDigest", "computationReference", "resultDigest"} :
           policies[p][f] # None => policies'[p][f] = policies[p][f]
      /\ policies[p].status \in {"SETTLED", "REFUNDED"} => policies'[p] = policies[p]
<1>1. EscrowInv /\ EvidenceInv /\ [Next]_vars
        => \A p \in PolicyIds : Exists(p) => KeepsRecord(p)
  <2> SUFFICES ASSUME EscrowInv, EvidenceInv, [Next]_vars, NEW p \in PolicyIds,
                      Exists(p)
               PROVE  KeepsRecord(p)
    OBVIOUS
  <2>1. CASE policies'[p] = policies[p]
    BY <2>1
  <2>2. CASE Moves(p)
    <3> PICK c, d : c = policies[p] /\ d = policies'[p]
      OBVIOUS
    <3>1. Move(p, c, d) /\ ~Creates(c, d)
      BY <2>2 DEF Moves, Creates, Exists
    <3>2. SameTerms(c, d) /\ c.status \notin {"SETTLED", "REFUNDED"}
      BY <3>1 DEF Move, Funds, MovesOn, TakesProof, Instructs, TakesResult, Refundable
    <3>3. /\ c.externalProofDigest # None => SameProof(c, d)
          /\ c.computationReference # None => SameReference(c, d)
          /\ c.resultDigest # None => SameResult(c, d)
      BY <3>1 DEF Move, Funds, MovesOn, TakesProof, Instructs, TakesResult,
         SameEvidence, EvidenceInv, StageEvidence
    <3> QED
      BY <3>2, <3>3 DEF SameTerms, SameProof, SameReference, SameResult
  <2> QED
    BY <2>1, <2>2, StepMoves DEF NoMove, Moves, EscrowInv, CoreStep
<1> QED
  BY <1>1, EscrowInvariant, EvidenceInvariant, PTL DEF Spec, RecordIsWriteOnce

-----------------------------------------------------------------------------
(* What the pages show. *)

\* Once a settlement's transfers are done, the recipients together hold what
\* was paid in: recipients are distinct, so summing over accounts is summing
\* over the entries of the result.
LEMMA SettledSum ==
  ASSUME EscrowInv, frame = Idle, NEW p \in PolicyIds,
         policies[p].status = "SETTLED"
  PROVE  SumFunction(received[p]) = deposited[p]
<1>1. /\ PaidByResult(p) /\ ResultFits(p) /\ ~InFlight(p)
      /\ \A i, j \in 1 .. Len(policies[p].recipients) :
           i # j => policies[p].recipients[i] # policies[p].recipients[j]
  BY DEF EscrowInv, EscrowAccounted, PolicyWellFormed, InFlight
<1>f. PICK am, rec, got :
        am = ResultOf(p).amounts /\ rec = ResultOf(p).recipients /\ got = received[p]
  OBVIOUS
<1>2. am \in Seq(Nat) /\ rec \in Seq(Accounts) /\ Len(am) = Len(rec)
  <2>1. policies[p].resultDigest \in {hashSettlementResult(r) : r \in SettlementResults}
    BY <1>1 DEF EscrowInv, TypeOK, PolicyType, ResultFits
  <2>2. PICK r \in SettlementResults : policies[p].resultDigest = hashSettlementResult(r)
    BY <2>1
  <2>3. ResultOf(p) = r
    BY <2>2 DEF ResultOf, hashSettlementResult
  <2> QED
    BY <1>1, <1>f, <2>3, CoreAssumption DEF SettlementResultType, ResultFits
<1>3. got \in [Accounts -> Nat]
  BY <1>f DEF EscrowInv, TypeOK
<1> DEFINE n == Len(rec)
           I == 1 .. n
           R == {rec[i] : i \in I}
<1>4. n \in Nat /\ IsFiniteSet(I) /\ DOMAIN am = I
  BY <1>2, FS_Interval, LenProperties
<1>5. \A i \in I : am[i] \in Nat /\ rec[i] \in Accounts
  BY <1>2, <1>4, ElementOfSeq
<1>6. \A i \in I : got[rec[i]] = am[i]
  BY <1>1, <1>4, <1>f DEF PaidByResult, TransfersDone
<1>7. \A i, j \in I : i # j => rec[i] # rec[j]
  BY <1>1, <1>f DEF PaidByResult
<1>8. \A a \in Accounts \ R : got[a] = 0
  BY <1>1, <1>f DEF PaidByResult
<1>9. R \in SUBSET Accounts
  BY <1>5
<1> HIDE DEF n, I, R
<1>10. SumFunctionOnSet(got, Accounts) = SumFunctionOnSet(got, R)
  BY <1>3, <1>8, <1>9, FiniteAssumption, SumSupport
<1>11. SumFunctionOnSet(got, R) = SumFunctionOnSet(am, I)
  BY <1>4, <1>5, <1>6, <1>7, SumReindex DEF R
<1>12. SumFunctionOnSet(am, I) = deposited[p]
  BY <1>1, <1>4, <1>f DEF PaidByResult, SumFunction
<1> QED
  BY <1>3, <1>10, <1>11, <1>12, <1>f DEF SumFunction

\* A policy that has not settled has paid nobody.
LEMMA UnsettledSum ==
  ASSUME EscrowInv, NEW p \in PolicyIds, policies[p].status # "SETTLED"
  PROVE  SumFunction(received[p]) = 0
<1>1. NothingPaid(p)
  BY DEF EscrowInv, EscrowAccounted, ReturnedInFull, HeldInFull
<1>2. received[p] \in [Accounts -> Nat]
  BY DEF EscrowInv, TypeOK
<1>f. PICK got : got = received[p]
  OBVIOUS
<1>3. \A a \in Accounts : got[a] = 0
  BY <1>1, <1>f DEF NothingPaid
<1>4. SumFunctionOnSet(got, Accounts) = SumFunctionOnSet(got, {})
  <2>1. \A a \in Accounts : got[a] \in Nat
    BY <1>3
  <2> QED
    BY <1>3, <2>1, FiniteAssumption, SumSupport
<1> QED
  BY <1>2, <1>4, <1>f, SumEmpty DEF SumFunction

\* The badge of the settlement.
LEMMA SettlementBadge ==
  ASSUME EscrowInv, frame = Idle, NEW p \in PolicyIds
  PROVE  getLifecycleStageStates(policies[p]).settlement = "COMPLETED" <=>
           /\ deposited[p] > 0 /\ refunded[p] = 0
           /\ SumFunction(received[p]) = deposited[p]
<1>0. PICK c \in PolicyType : c = policies[p]
  BY DEF EscrowInv, TypeOK
<1>1. deposited[p] \in Nat /\ c.settledAmount \in Nat
  BY DEF EscrowInv, TypeOK, PolicyType
<1>2. getLifecycleStageStates(c).settlement = "COMPLETED" <=>
        StatusNumber[c.status] = 8 /\ c.settledAmount > 0
  BY DEF getLifecycleStageStates
<1>3. StatusNumber[c.status] = 8 <=> c.status = "SETTLED"
  BY DEF StatusNumber, PolicyType, Status
<1>4. CASE c.status = "SETTLED"
  <2>1. c.settledAmount = deposited[p] /\ refunded[p] = 0
    BY <1>0, <1>4 DEF EscrowInv, EscrowAccounted, PaidByResult
  <2> QED
    BY <1>0, <1>2, <1>3, <1>4, <2>1, SettledSum
<1>5. CASE c.status # "SETTLED"
  BY <1>0, <1>1, <1>2, <1>3, <1>5, UnsettledSum
<1> QED
  BY <1>4, <1>5

\* The badges of the proof, the computation and the result.
LEMMA EvidenceBadges ==
  ASSUME EscrowInv, EvidenceInv, NEW p \in PolicyIds
  PROVE  LET shown == getLifecycleStageStates(policies[p]) IN
         /\ shown.externalEvent = shown.fdcProof
         /\ (shown.fdcProof = "VERIFIED") <=>
              policies[p].externalProofDigest \in usedProofDigests
         /\ (shown.verifiedResult = "VERIFIED") <=>
              policies[p].resultDigest \in usedResultDigests
         /\ policies[p].status # "REFUNDED" =>
              (shown.privateCompute = "VERIFIED") <=>
                policies[p].resultDigest \in usedResultDigests
<1>0. PICK c \in PolicyType : c = policies[p]
  BY DEF EscrowInv, TypeOK
<1>1. c.status \in Status
  BY DEF PolicyType
<1>2. /\ c.externalProofDigest # None => StatusNumber[c.status] >= 4
      /\ c.resultDigest # None => StatusNumber[c.status] >= 6
      /\ c.sourceTransactionHash # None <=> c.externalProofDigest # None
  <2>1. /\ c.externalProofDigest # None => c.status \in
              {"PROOF_VERIFIED", "COMPUTATION_REQUESTED", "READY_TO_SETTLE",
               "SETTLED", "REFUNDED"}
        /\ c.resultDigest # None => c.status \in {"READY_TO_SETTLE", "SETTLED", "REFUNDED"}
        /\ c.sourceTransactionHash # None <=> c.externalProofDigest # None
    BY <1>0 DEF EvidenceInv, StageEvidence
  <2> QED
    BY <1>1, <2>1 DEF StatusNumber
<1>3. c.externalProofDigest # None <=> c.externalProofDigest \in usedProofDigests
  <2>1. c.externalProofDigest # None => c.externalProofDigest \in usedProofDigests
    BY <1>0 DEF EvidenceInv, OwnProof
  <2>2. None \notin usedProofDigests
    BY CoreAssumption DEF EscrowInv, TypeOK, ProofDigests
  <2> QED
    BY <2>1, <2>2
<1>4. c.resultDigest # None <=> c.resultDigest \in usedResultDigests
  <2>1. c.resultDigest # None => c.resultDigest \in usedResultDigests
    BY <1>0 DEF EvidenceInv, OwnResult
  <2>2. None \notin usedResultDigests
    BY CoreAssumption DEF EscrowInv, TypeOK, hashSettlementResult
  <2> QED
    BY <2>1, <2>2
<1>5. c.status # "REFUNDED" =>
        (StatusNumber[c.status] >= 6 /\ c.computationReference # None <=>
           c.resultDigest # None)
  <2> SUFFICES ASSUME c.status # "REFUNDED"
               PROVE  StatusNumber[c.status] >= 6 /\ c.computationReference # None <=>
                        c.resultDigest # None
    OBVIOUS
  <2>1. /\ c.computationReference # None <=> c.status \in
              {"COMPUTATION_REQUESTED", "READY_TO_SETTLE", "SETTLED"}
        /\ c.resultDigest # None <=> c.status \in {"READY_TO_SETTLE", "SETTLED"}
    BY <1>0 DEF EvidenceInv, StageEvidence
  <2> QED
    BY <1>1, <2>1 DEF StatusNumber
<1>6. LET shown == getLifecycleStageStates(c) IN
        /\ shown.externalEvent = Badge(c.sourceTransactionHash # None)
        /\ shown.fdcProof = Badge(StatusNumber[c.status] >= 4 /\ c.externalProofDigest # None)
        /\ shown.verifiedResult = Badge(StatusNumber[c.status] >= 6 /\ c.resultDigest # None)
        /\ shown.privateCompute = "VERIFIED" <=>
             StatusNumber[c.status] >= 6 /\ c.computationReference # None
  BY DEF getLifecycleStageStates, hasHash
<1> QED
  BY <1>0, <1>2, <1>3, <1>4, <1>5, <1>6 DEF Badge

\* For every policy, whatever sequence of calls led to it, the pages show a
\* proof, a result or a settlement exactly if Core holds it.
THEOREM PagesShowTheTruth == Spec => []BadgesAreTrue
<1>1. EscrowInv /\ EvidenceInv => BadgesAreTrue
  BY EvidenceBadges, SettlementBadge DEF BadgesAreTrue
<1> QED
  BY <1>1, EscrowInvariant, EvidenceInvariant, PTL
=============================================================================
