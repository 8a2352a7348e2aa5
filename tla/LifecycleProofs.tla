--------------------------- MODULE LifecycleProofs ---------------------------
(***************************************************************************)
(* Proofs about Lifecycle, for every policy, proxy answer and number of    *)
(* crashes: whatever is interrupted and whoever else uses Core, the        *)
(* evidence file is true, only crashes repeat the attestation request, and *)
(* a settled policy has paid its recipients what the handler computes.     *)
(* Every step of the composed system is a step of Core, so the invariants  *)
(* of AurelithCoreProofs hold here as well.                                *)
(***************************************************************************)
EXTENDS Lifecycle, AurelithCoreProofs

-----------------------------------------------------------------------------
(* The script's policy and what is known of it. *)

\* The draft that createPolicy left is a record of its type.
LEMMA DraftType ==
  /\ Draft \in PolicyType /\ Draft.owner = Owner /\ Draft.status = "DRAFT"
  /\ Draft.fundedAmount = 0 /\ Draft.resultNonce = 0
  /\ Draft.externalProofDigest = None /\ Draft.sourceTransactionHash = None
  /\ Draft.computationReference = None /\ Draft.resultDigest = None
<1> PICK e, t, r, s : e = Draft.expiry /\ t = Draft.targetAmount
                      /\ r = Draft.recipients /\ s = Draft.sharesBps
  OBVIOUS
<1>1. Draft = [NoPolicy EXCEPT !.owner = Owner, !.expiry = e, !.targetAmount = t,
                 !.status = "DRAFT", !.recipients = r, !.sharesBps = s]
  BY LifecycleAssumption
<1>2. Owner \in Accounts /\ e \in Nat /\ t \in Nat /\ r \in Seq(Accounts)
        /\ s \in Seq(Nat) /\ "DRAFT" \in Status
  BY LifecycleAssumption DEF Status
<1>3. Draft \in PolicyType
  BY <1>1, <1>2, DefaultTypes DEF PolicyType
<1>4. /\ Draft.owner = Owner /\ Draft.status = "DRAFT"
      /\ Draft.fundedAmount = 0 /\ Draft.resultNonce = 0
      /\ Draft.externalProofDigest = None /\ Draft.sourceTransactionHash = None
      /\ Draft.computationReference = None /\ Draft.resultDigest = None
  BY <1>1, DefaultTypes DEF NoPolicy
<1> QED
  BY <1>3, <1>4

\* No deposit is ever taken back from the history.
LEMMA DepositsGrow ==
  ASSUME TypeOK, CoreStep, NEW p \in PolicyIds
  PROVE  deposited[p] \in Nat /\ deposited'[p] >= deposited[p]
<1>1. deposited \in [PolicyIds -> Nat]
  BY DEF TypeOK
<1>2. ASSUME NEW q \in PolicyIds, NEW value \in Nat, fundPolicy(q, value)
      PROVE  deposited'[p] >= deposited[p]
  BY <1>1, <1>2 DEF fundPolicy
<1>3. ASSUME NEW q \in PolicyIds, NEW sender \in Accounts, PolicyStep(q, sender)
      PROVE  deposited' = deposited
  BY <1>3 DEF PolicyStep, createPolicy, requestProof, submitEvmProof,
     sendComputationInstruction, cancelPolicy, refundPolicy, ledgerVars
<1>4. ASSUME NEW result \in SettlementResults, NEW id \in InstructionIds,
             NEW s \in {0, 1}, NEW signer \in Tees,
             authenticateActionResult(result, id, s, signer)
      PROVE  deposited' = deposited
  BY <1>4 DEF authenticateActionResult, ledgerVars
<1>5. ASSUME NEW sender \in Accounts, NEW result \in SettlementResults,
             settle(sender, result)
      PROVE  deposited' = deposited
  BY <1>5 DEF settle, ledgerVars
<1>6. TransferNext \/ CallReturns \/ Tick \/ UNCHANGED coreVars => deposited' = deposited
  BY DEF TransferNext, CallReturns, Tick, coreVars, ledgerVars
<1> QED
  BY <1>1, <1>2, <1>3, <1>4, <1>5, <1>6, CoreAssumption DEF CoreStep, Next, vars

\* The policy keeps its terms, and an instructed policy its instruction and the
\* evidence that was sent with it.
LEMMA RecordKept ==
  ASSUME EscrowInv, EvidenceInv, RecordOfDraft, CoreStep
  PROVE  /\ SameTerms(thePolicy, thePolicy')
         /\ thePolicy'.fundedAmount <= thePolicy'.targetAmount
         /\ thePolicy'.resultNonce =
              IF thePolicy'.computationReference = None THEN 0 ELSE 1
         /\ thePolicy'.computationReference # None =>
              thePolicy'.externalProofDigest # None /\ thePolicy'.privateInputHash # None
         /\ thePolicy.computationReference # None =>
              /\ SameReference(thePolicy, thePolicy')
              /\ thePolicy'.externalProofDigest = thePolicy.externalProofDigest
<1> PICK c, d : c = thePolicy /\ d = thePolicy'
  OBVIOUS
<1>p. POLICY_ID \in PolicyIds
  BY LifecycleAssumption
<1>1. /\ c.owner # ZeroAddress
      /\ c.resultNonce = IF c.computationReference = None THEN 0 ELSE 1
      /\ c.computationReference # None =>
           c.externalProofDigest # None /\ c.privateInputHash # None
      /\ c.fundedAmount <= c.targetAmount
  BY DraftType, LifecycleAssumption, CoreAssumption DEF RecordOfDraft
<1>2. /\ c.status # "REFUNDED" =>
           /\ c.externalProofDigest # None <=>
                c.status \in {"PROOF_VERIFIED", "COMPUTATION_REQUESTED",
                              "READY_TO_SETTLE", "SETTLED"}
           /\ c.computationReference # None <=>
                c.status \in {"COMPUTATION_REQUESTED", "READY_TO_SETTLE", "SETTLED"}
  BY <1>p DEF EvidenceInv, StageEvidence, thePolicy
<1>3. CASE c = d
  BY <1>1, <1>3 DEF SameTerms, SameReference
<1>4. CASE c # d
  <2>1. \A q \in PolicyIds : Moves(q) => q = POLICY_ID
    BY <1>4, <1>p DEF Moves, thePolicy
  <2>2. ~NoMove
    BY <1>4 DEF NoMove, thePolicy
  <2>3. Move(POLICY_ID, c, d)
    BY <2>1, <2>2, StepMoves DEF EscrowInv, Moves, thePolicy
  <2>4. ~Creates(c, d)
    BY <1>1 DEF Creates
  <2>5. SameTerms(c, d)
    BY <2>3, <2>4 DEF Move, Funds, MovesOn, TakesProof, Instructs, TakesResult
  <2>6. c \in PolicyType /\ d \in PolicyType
    <3>1. TypeOK /\ TypeOK'
      BY EscrowNext DEF EscrowInv
    <3> QED
      BY <1>p, <3>1 DEF TypeOK, thePolicy
  <2>7. d.fundedAmount <= d.targetAmount
    BY <1>1, <2>3, <2>5, <2>6 DEF Move, Books, SameTerms, PolicyType
  <2>8. CASE Funds(c, d) \/ MovesOn(POLICY_ID, c, d) \/ TakesResult(POLICY_ID, c, d)
    BY <1>1, <2>5, <2>7, <2>8 DEF Funds, MovesOn, TakesResult, SameEvidence,
       SameProof, SameReference
  <2>9. CASE TakesProof(c, d)
    BY <1>1, <1>2, <2>5, <2>7, <2>9 DEF TakesProof, SameReference
  <2>10. CASE Instructs(c, d)
    BY <1>1, <1>2, <2>5, <2>7, <2>10, CoreAssumption DEF Instructs, SameProof
  <2> QED
    BY <2>3, <2>4, <2>8, <2>9, <2>10 DEF Move
<1> QED
  BY <1>3, <1>4

-----------------------------------------------------------------------------
(* Every step is a step of Core. *)

\* Authentication of an answer with data is a step of Core.
LEMMA AuthenticateStep ==
  ASSUME NEW answer \in AnswerType, NEW signer \in Tees, answer.result # None,
         authenticateActionResult(answer.result, answer.id, answer.status, signer)
  PROVE  CoreStep
<1>1. answer.status = 1
  BY DEF authenticateActionResult
<1>2. answer.status \in {0, 1}
  BY <1>1
<1>3. answer.id \in InstructionIds /\ answer.result \in SettlementResults
  BY DEF AnswerType
<1> QED
  BY <1>2, <1>3 DEF CoreStep, Next

\* What a call of the script takes from memory is there when it is made.
LEMMA DueFacts ==
  /\ Due("attest") => mem.fdc = None
  /\ Due("submit") => mem.response # None
  /\ Due("authenticate") => mem.action # None
  BY DEF Due

\* Every action of the script is a step of Core or leaves Core alone.
LEMMA ScriptCoreStep ==
  ASSUME LifecycleInv, Script
  PROVE  CoreStep
<1>p. POLICY_ID \in PolicyIds /\ Owner \in Accounts
  BY LifecycleAssumption
<1>t. mem \in EvidenceType /\ snapshot \in PolicyType
        /\ snapshot.fundedAmount <= snapshot.targetAmount
  BY DEF LifecycleInv, LifecycleTypeOK, ReadOfDraft
<1>1. CASE Rerun \/ PassOver \/ Save \/ RequestAttestation \/ RetrieveProof \/ FetchResult
  BY <1>1 DEF Rerun, PassOver, Save, RequestAttestation, RetrieveProof, FetchResult,
     CoreStep
<1>2. CASE Throw
  BY <1>2 DEF Throw, CoreStep
<1>3. CASE Fund
  <2>1. snapshot.targetAmount - snapshot.fundedAmount \in Nat
    BY <1>t DEF PolicyType
  <2> QED
    BY <1>3, <1>p, <2>1 DEF Fund, CoreStep
<1>4. CASE RequestProof
  BY <1>4, <1>p DEF RequestProof, CoreStep, Next, PolicyStep
<1>5. CASE SubmitProof
  <2>1. mem.response \in EvmProofs
    BY <1>5, <1>t, DueFacts DEF SubmitProof, Call, EvidenceType
  <2> QED
    BY <1>5, <1>p, <2>1 DEF SubmitProof, CoreStep, Next, PolicyStep
<1>6. CASE Instruct
  BY <1>6, <1>p, LifecycleAssumption DEF Instruct, CoreStep, Next, PolicyStep
<1>7. CASE Authenticate
  <2>1. mem.action \in AnswerType /\ mem.action.result # None
    BY <1>7, <1>t, DueFacts DEF Authenticate, Call, EvidenceType
  <2> QED
    BY <1>7, <2>1, AuthenticateStep DEF Authenticate
<1>8. CASE Settle
  <2>1. mem.action \in AnswerType /\ mem.action.result # None
    BY <1>8, <1>t DEF Settle, EvidenceType
  <2>2. mem.action.result \in SettlementResults
    BY <2>1 DEF AnswerType
  <2> QED
    BY <1>8, <1>p, <2>2 DEF Settle, CoreStep, Next
<1> QED
  BY <1>1, <1>2, <1>3, <1>4, <1>5, <1>6, <1>7, <1>8 DEF Script, ScriptCall

\* Whatever the script, the services, a crash or another user does, Core takes
\* one of its own steps or none.
LEMMA LifecycleCoreStep ==
  ASSUME LifecycleInv, [LifecycleNext]_lifecycleVars
  PROVE  CoreStep
<1>p. POLICY_ID \in PolicyIds /\ Owner \in Accounts
  BY LifecycleAssumption
<1>1. CASE Script
  BY <1>1, ScriptCoreStep
<1>2. CASE Crash \/ FinalizeRound \/ PublishAnswer \/ UNCHANGED lifecycleVars
  BY <1>2 DEF Crash, FinalizeRound, PublishAnswer, lifecycleVars, CoreStep
<1>3. CASE OtherUsers
  <2>1. ASSUME NEW signer \in Tees, proxy # None, proxy.result # None,
               authenticateActionResult(proxy.result, proxy.id, proxy.status, signer)
        PROVE  CoreStep
    <3>1. proxy \in AnswerType
      BY <2>1 DEF LifecycleInv, LifecycleTypeOK
    <3> QED
      BY <2>1, <3>1, AuthenticateStep
  <2>2. ASSUME NEW value \in FundingValues, fundPolicy(POLICY_ID, value)
        PROVE  CoreStep
    BY <1>p, <2>2, CoreAssumption DEF CoreStep
  <2>3. PolicyStep(POLICY_ID, Owner) => CoreStep
    BY <1>p DEF CoreStep, Next
  <2>4. cancelPolicy(POLICY_ID, Owner) \/ refundPolicy(POLICY_ID, Owner)
          \/ requestProof(POLICY_ID, Owner)
          \/ (\E proof \in EvmProofs : submitEvmProof(POLICY_ID, Owner, proof))
          => PolicyStep(POLICY_ID, Owner)
    BY DEF PolicyStep
  <2>5. InstructElsewhere => PolicyStep(POLICY_ID, Owner)
    BY DEF InstructElsewhere, PolicyStep
  <2>6. ASSUME NEW result \in SettlementResults, settle(Owner, result)
        PROVE  CoreStep
    BY <1>p, <2>6 DEF CoreStep, Next
  <2> QED
    BY <1>3, <2>1, <2>2, <2>3, <2>4, <2>5, <2>6 DEF OtherUsers, CallElsewhere
<1>4. CASE Chain
  BY <1>4 DEF Chain, CoreStep, Next
<1> QED
  BY <1>1, <1>2, <1>3, <1>4 DEF LifecycleNext

-----------------------------------------------------------------------------
(* What is true of an instructed policy stays true. *)

\* A policy is instructed once: what its instruction says stays.
InstructionStays ==
  thePolicy.computationReference # None => instructed' = instructed

\* An instructed policy is past the stage in which Core takes an instruction.
LEMMA InstructedOnce ==
  ASSUME LifecycleInv, [LifecycleNext]_lifecycleVars
  PROVE  InstructionStays
<1>p. POLICY_ID \in PolicyIds
  BY LifecycleAssumption
<1>1. thePolicy.computationReference # None => thePolicy.status # "PROOF_VERIFIED"
  BY <1>p DEF LifecycleInv, EvidenceInv, StageEvidence, thePolicy
<1>2. \A h, id : sendComputationInstruction(POLICY_ID, Owner, h, id)
                 => thePolicy.status = "PROOF_VERIFIED"
  BY DEF sendComputationInstruction, _requireState, thePolicy
<1>3. Instruct \/ InstructElsewhere => thePolicy.status = "PROOF_VERIFIED"
  BY <1>2 DEF Instruct, InstructElsewhere
<1>4. Instruct \/ InstructElsewhere \/ instructed' = instructed
  BY DEF LifecycleNext, lifecycleVars, Script, Crash, FinalizeRound, PublishAnswer,
     OtherUsers, Chain, serviceVars, Rerun, PassOver, Save, Throw, ScriptCall, Fund,
     RequestAttestation, RequestProof, RetrieveProof, SubmitProof, FetchResult,
     Authenticate, Settle
<1> QED
  BY <1>1, <1>3, <1>4 DEF InstructionStays

\* The handler's answer to an instruction never changes.
LEMMA ComputedKept ==
  ASSUME LifecycleInv, CoreStep, InstructionStays,
         thePolicy.computationReference # None
  PROVE  /\ thePolicy'.computationReference = thePolicy.computationReference
         /\ instructed' = instructed
         /\ ComputedResult' = ComputedResult
         /\ \A answer : AnswersInstruction(answer) => AnswersInstruction(answer)'
<1>1. thePolicy'.computationReference = thePolicy.computationReference
  BY RecordKept DEF LifecycleInv, SameReference
<1>2. instructed' = instructed
  BY DEF InstructionStays
<1>3. ComputedResult' = ComputedResult
  BY <1>1, <1>2 DEF ComputedResult
<1> QED
  BY <1>1, <1>2, <1>3 DEF AnswersInstruction

\* What is true of the chain stays true of it.
LEMMA EvidenceKept ==
  ASSUME LifecycleInv, CoreStep, InstructionStays,
         requests' \in Nat, requests' >= requests,
         NEW evidence \in EvidenceType, TrueEvidence(evidence)
  PROVE  TrueEvidence(evidence)'
<1>p. POLICY_ID \in PolicyIds
  BY LifecycleAssumption
<1>1. evidence.funding # None => deposited'[POLICY_ID] >= evidence.funding
  <2>1. deposited[POLICY_ID] \in Nat /\ deposited'[POLICY_ID] >= deposited[POLICY_ID]
    BY <1>p, DepositsGrow DEF LifecycleInv, EscrowInv
  <2>2. deposited'[POLICY_ID] \in Nat
    BY <1>p, EscrowNext DEF LifecycleInv, EscrowInv, TypeOK
  <2>3. evidence.funding # None => evidence.funding \in Nat
    BY DEF EvidenceType
  <2> QED
    BY <2>1, <2>2, <2>3 DEF TrueEvidence
<1>2. evidence.instruction # None => evidence.instruction \in InstructionIds
  BY DEF EvidenceType
<1>3. evidence.instruction # None => thePolicy.computationReference # None
  BY <1>2, CoreAssumption DEF TrueEvidence
<1>4. evidence.fdc # None => evidence.fdc.round \in 1 .. requests'
  <2>1. requests \in Nat
    BY DEF LifecycleInv, LifecycleTypeOK
  <2>2. evidence.fdc # None => evidence.fdc.round \in 1 .. requests
    BY DEF TrueEvidence
  <2> QED
    BY <2>1, <2>2
<1>5. evidence.instruction # None =>
        thePolicy'.computationReference = evidence.instruction
  BY <1>3, ComputedKept DEF TrueEvidence
<1>6. evidence.action # None =>
        thePolicy'.computationReference # None /\ AnswersInstruction(evidence.action)'
  <2> PICK answer : answer = evidence.action
    OBVIOUS
  <2>1. answer # None =>
          thePolicy'.computationReference # None /\ AnswersInstruction(answer)'
    BY ComputedKept DEF TrueEvidence
  <2> QED
    BY <2>1
<1> QED
  BY <1>1, <1>4, <1>5, <1>6 DEF TrueEvidence

\* What the handler computes from a message it does not throw on is a result
\* Core takes as an argument.
LEMMA ComputedResultType ==
  ASSUME LifecycleInv, thePolicy.computationReference # None,
         Compute!ValidRequest(instructed.message)
  PROVE  ComputedResult \in SettlementResults
<1>p. POLICY_ID \in PolicyIds
  BY LifecycleAssumption
<1> PICK message, id : message = instructed.message /\ id = thePolicy.computationReference
  OBVIOUS
<1>1. message \in ScriptMessages \cup OtherMessages
  BY DEF LifecycleInv, InstructionOfPolicy, InstructedType
<1>2. id \in InstructionIds
  <2>1. thePolicy \in PolicyType
    BY <1>p DEF LifecycleInv, EscrowInv, TypeOK, thePolicy
  <2> QED
    BY <2>1 DEF PolicyType
<1>3. Compute!decodeAndComputeSettlement(message, id) \in HandlerResults
  BY <1>1, <1>2 DEF HandlerResults
<1>4. ComputedResult = Compute!decodeAndComputeSettlement(message, id)
  BY DEF ComputedResult
<1> QED
  BY <1>3, <1>4, LifecycleAssumption

\* Only authentication writes the digest of a result.
LEMMA ResultUntouched ==
  ASSUME TypeOK, NEW p \in PolicyIds
  PROVE  /\ \A value : fundPolicy(p, value)
               => policies'[p].resultDigest = policies[p].resultDigest
         /\ \A sender :
              \/ requestProof(p, sender) \/ cancelPolicy(p, sender)
              \/ refundPolicy(p, sender)
              \/ \E proof : submitEvmProof(p, sender, proof)
              \/ \E h, id : sendComputationInstruction(p, sender, h, id)
              \/ \E result : settle(sender, result)
              => policies'[p].resultDigest = policies[p].resultDigest
<1>1. policies \in [PolicyIds -> PolicyType]
  BY DEF TypeOK
<1>2. policies[p] \in PolicyType
  BY <1>1
<1>3. ASSUME NEW value, fundPolicy(p, value)
      PROVE  policies'[p].resultDigest = policies[p].resultDigest
  BY <1>1, <1>2, <1>3 DEF fundPolicy, Store, PolicyType
<1>4. ASSUME NEW sender, requestProof(p, sender) \/ cancelPolicy(p, sender)
                         \/ refundPolicy(p, sender)
      PROVE  policies'[p].resultDigest = policies[p].resultDigest
  BY <1>1, <1>2, <1>4 DEF requestProof, cancelPolicy, refundPolicy, Store, PolicyType
<1>5. ASSUME NEW sender, NEW proof, submitEvmProof(p, sender, proof)
      PROVE  policies'[p].resultDigest = policies[p].resultDigest
  BY <1>1, <1>2, <1>5 DEF submitEvmProof, Store, PolicyType
<1>6. ASSUME NEW sender, NEW h, NEW id, sendComputationInstruction(p, sender, h, id)
      PROVE  policies'[p].resultDigest = policies[p].resultDigest
  BY <1>1, <1>2, <1>6 DEF sendComputationInstruction, Store, PolicyType
<1>7. ASSUME NEW sender, NEW result, settle(sender, result)
      PROVE  policies'[p].resultDigest = policies[p].resultDigest
  <2>1. CASE result.policyId = p
    BY <1>1, <1>2, <1>7, <2>1 DEF settle, Store, PolicyType
  <2>2. CASE result.policyId # p
    BY <1>1, <1>7, <2>2 DEF settle, Store
  <2> QED
    BY <2>1, <2>2
<1> QED
  BY <1>3, <1>4, <1>5, <1>6, <1>7

\* Only an instruction writes the reference of a computation.
LEMMA ReferenceUntouched ==
  ASSUME TypeOK, NEW p \in PolicyIds
  PROVE  /\ \A value : fundPolicy(p, value)
               => policies'[p].computationReference = policies[p].computationReference
         /\ \A sender :
              \/ requestProof(p, sender) \/ cancelPolicy(p, sender)
              \/ refundPolicy(p, sender)
              \/ \E proof : submitEvmProof(p, sender, proof)
              \/ \E result : settle(sender, result)
              \/ \E result, id, s : authenticateActionResult(result, id, s, sender)
              => policies'[p].computationReference = policies[p].computationReference
<1>1. policies \in [PolicyIds -> PolicyType]
  BY DEF TypeOK
<1>2. policies[p] \in PolicyType
  BY <1>1
<1>3. ASSUME NEW value, fundPolicy(p, value)
      PROVE  policies'[p].computationReference = policies[p].computationReference
  BY <1>1, <1>2, <1>3 DEF fundPolicy, Store, PolicyType
<1>4. ASSUME NEW sender, requestProof(p, sender) \/ cancelPolicy(p, sender)
                         \/ refundPolicy(p, sender)
      PROVE  policies'[p].computationReference = policies[p].computationReference
  BY <1>1, <1>2, <1>4 DEF requestProof, cancelPolicy, refundPolicy, Store, PolicyType
<1>5. ASSUME NEW sender, NEW proof, submitEvmProof(p, sender, proof)
      PROVE  policies'[p].computationReference = policies[p].computationReference
  BY <1>1, <1>2, <1>5 DEF submitEvmProof, Store, PolicyType
<1>6. ASSUME NEW sender, NEW result, settle(sender, result)
      PROVE  policies'[p].computationReference = policies[p].computationReference
  <2>1. CASE result.policyId = p
    BY <1>1, <1>2, <1>6, <2>1 DEF settle, Store, PolicyType
  <2>2. CASE result.policyId # p
    BY <1>1, <1>6, <2>2 DEF settle, Store
  <2> QED
    BY <2>1, <2>2
<1>7. ASSUME NEW sender, NEW result, NEW id, NEW s,
             authenticateActionResult(result, id, s, sender)
      PROVE  policies'[p].computationReference = policies[p].computationReference
  <2>1. CASE result.policyId = p
    BY <1>1, <1>2, <1>7, <2>1 DEF authenticateActionResult, Store, PolicyType
  <2>2. CASE result.policyId # p
    BY <1>1, <1>7, <2>2 DEF authenticateActionResult, Store
  <2> QED
    BY <2>1, <2>2
<1> QED
  BY <1>3, <1>4, <1>5, <1>6, <1>7

\* The result Core authenticated is the handler's.
AuthenticResult ==
  thePolicy.resultDigest # None => ResultOf(POLICY_ID) = ComputedResult

\* A step that does not touch the digest keeps the authenticated result.
LEMMA AuthenticKept ==
  ASSUME LifecycleInv, CoreStep, InstructionStays,
         thePolicy'.resultDigest = thePolicy.resultDigest
  PROVE  AuthenticResult'
<1>p. POLICY_ID \in PolicyIds
  BY LifecycleAssumption
<1>1. thePolicy.resultDigest # None => thePolicy.computationReference # None
  <2>1. OwnResult(POLICY_ID)
    BY <1>p DEF LifecycleInv, EvidenceInv
  <2>2. thePolicy \in PolicyType
    BY <1>p DEF LifecycleInv, EscrowInv, TypeOK, thePolicy
  <2>3. thePolicy.resultDigest # None =>
          ResultOf(POLICY_ID) \in SettlementResults
    BY <2>2 DEF PolicyType, hashSettlementResult, ResultOf, thePolicy
  <2>4. \A r \in SettlementResults : r.computationReference # None
    BY ResultFieldTypes, CoreAssumption DEF SettlementResultType
  <2> QED
    BY <2>1, <2>3, <2>4 DEF OwnResult, thePolicy
<1>2. ResultOf(POLICY_ID)' = ResultOf(POLICY_ID)
  BY DEF ResultOf, thePolicy
<1> QED
  BY <1>1, <1>2, ComputedKept DEF AuthenticResult, LifecycleInv

\* Authentication of the handler's answer makes it the authenticated result.
LEMMA AuthenticTaken ==
  ASSUME LifecycleInv, CoreStep, InstructionStays,
         thePolicy.computationReference # None,
         NEW id, NEW s, NEW signer,
         authenticateActionResult(ComputedResult, id, s, signer)
  PROVE  AuthenticResult'
<1>p. POLICY_ID \in PolicyIds
  BY LifecycleAssumption
<1>1. policies \in [PolicyIds -> PolicyType]
  BY DEF LifecycleInv, EscrowInv, TypeOK
<1>r. PICK r, q : r = ComputedResult /\ q = r.policyId
  OBVIOUS
<1>2. policies' = [policies EXCEPT ![q] = [policies[q] EXCEPT
         !.resultDigest = hashSettlementResult(r), !.status = "READY_TO_SETTLE"]]
  BY <1>r DEF authenticateActionResult, Store
<1>3. CASE q = POLICY_ID
  <2>1. policies'[POLICY_ID].resultDigest = hashSettlementResult(r)
    BY <1>p, <1>1, <1>2, <1>3 DEF PolicyType
  <2>2. ResultOf(POLICY_ID)' = r
    BY <2>1 DEF ResultOf, hashSettlementResult
  <2> QED
    BY <2>2, <1>r, ComputedKept DEF AuthenticResult
<1>4. CASE q # POLICY_ID
  <2>1. thePolicy' = thePolicy
    BY <1>p, <1>1, <1>2, <1>4 DEF thePolicy
  <2> QED
    BY <2>1, AuthenticKept
<1> QED
  BY <1>3, <1>4

-----------------------------------------------------------------------------
(* The authenticated result and the proxy's answer. *)

\* Whoever relays an answer, what Core authenticates is the handler's result.
LEMMA AuthenticNext ==
  ASSUME LifecycleInv, [LifecycleNext]_lifecycleVars
  PROVE  AuthenticResult'
<1>p. POLICY_ID \in PolicyIds /\ TypeOK /\ CoreStep /\ InstructionStays
  BY LifecycleAssumption, LifecycleCoreStep, InstructedOnce DEF LifecycleInv, EscrowInv
<1> DEFINE Untouched == thePolicy'.resultDigest = thePolicy.resultDigest
<1>1. Untouched => AuthenticResult'
  BY <1>p, AuthenticKept
<1>2. UNCHANGED vars \/ TransferNext \/ CallReturns \/ Tick => Untouched
  BY DEF vars, coreVars, TransferNext, CallReturns, Tick, thePolicy
<1>3. CASE Rerun \/ PassOver \/ Save \/ RequestAttestation \/ RetrieveProof \/ FetchResult
           \/ Throw \/ Crash \/ FinalizeRound \/ PublishAnswer \/ UNCHANGED lifecycleVars
  BY <1>1, <1>2, <1>3 DEF Rerun, PassOver, Save, RequestAttestation, RetrieveProof,
     FetchResult, Throw, Crash, FinalizeRound, PublishAnswer, lifecycleVars
<1>4. CASE Fund \/ RequestProof \/ SubmitProof \/ Instruct
  BY <1>1, <1>4, <1>p, ResultUntouched DEF Fund, RequestProof, SubmitProof, Instruct,
     thePolicy
<1>5. CASE Authenticate
  <2>1. mem.action # None /\ mem.action.result # None
    BY <1>5, DueFacts DEF Authenticate, Call
  <2>2. thePolicy.computationReference # None /\ mem.action.result = ComputedResult
    BY <2>1 DEF LifecycleInv, TrueEvidence, AnswersInstruction
  <2> QED
    BY <1>5, <1>p, <2>2, AuthenticTaken DEF Authenticate
<1>6. CASE Settle
  BY <1>1, <1>6, <1>p, ResultUntouched DEF Settle, thePolicy
<1>7. CASE OtherUsers
  <2>1. ASSUME NEW signer \in Tees, proxy # None, proxy.result # None,
               authenticateActionResult(proxy.result, proxy.id, proxy.status, signer)
        PROVE  AuthenticResult'
    <3>1. thePolicy.computationReference # None /\ proxy.result = ComputedResult
      BY <2>1 DEF LifecycleInv, AnswersInstruction
    <3> QED
      BY <1>p, <2>1, <3>1, AuthenticTaken
  <2>2. (\E value \in FundingValues : fundPolicy(POLICY_ID, value))
          \/ cancelPolicy(POLICY_ID, Owner) \/ refundPolicy(POLICY_ID, Owner)
          \/ requestProof(POLICY_ID, Owner)
          \/ (\E proof \in EvmProofs : submitEvmProof(POLICY_ID, Owner, proof))
          \/ (\E result \in SettlementResults : settle(Owner, result)) => Untouched
    BY <1>p, ResultUntouched DEF thePolicy
  <2>3. InstructElsewhere => Untouched
    BY <1>p, ResultUntouched DEF InstructElsewhere, thePolicy
  <2> HIDE DEF Untouched
  <2> QED
    BY <1>1, <1>7, <2>1, <2>2, <2>3 DEF OtherUsers, CallElsewhere
<1>8. CASE Chain
  BY <1>1, <1>2, <1>8 DEF Chain
<1> QED
  BY <1>3, <1>4, <1>5, <1>6, <1>7, <1>8 DEF LifecycleNext, Script, ScriptCall

\* What the proxy publishes, when it has anything to publish.
ProxyAnswers ==
  /\ proxy \in AnswerType \cup {None}
  /\ proxy # None => thePolicy.computationReference # None /\ AnswersInstruction(proxy)

\* The proxy answers with the handler's result, now and later.
LEMMA ProxyNext ==
  ASSUME LifecycleInv, [LifecycleNext]_lifecycleVars
  PROVE  ProxyAnswers'
<1>p. POLICY_ID \in PolicyIds
  BY LifecycleAssumption
<1>1. CoreStep /\ InstructionStays
  BY LifecycleCoreStep, InstructedOnce
<1>2. CASE proxy' = proxy
  <2> PICK answer : answer = proxy
    OBVIOUS
  <2>1. answer # None =>
          /\ thePolicy'.computationReference # None
          /\ AnswersInstruction(answer)'
    BY <1>1, ComputedKept DEF LifecycleInv
  <2>2. proxy' = answer
    BY <1>2
  <2>3. proxy' # None =>
          thePolicy'.computationReference # None /\ AnswersInstruction(proxy)'
    BY <2>1, <2>2 DEF AnswersInstruction
  <2> QED
    BY <1>2, <2>3 DEF LifecycleInv, LifecycleTypeOK, ProxyAnswers
<1>3. CASE PublishAnswer
  <2>1. PICK s \in AnswerStatuses :
          /\ s = 1 => Compute!ValidRequest(instructed.message)
          /\ proxy' = [status |-> s, id |-> thePolicy.computationReference,
                       result |-> IF s = 1 THEN ComputedResult ELSE None]
    BY <1>3 DEF PublishAnswer
  <2>2. thePolicy.computationReference # None
    BY <1>3 DEF PublishAnswer
  <2>3. thePolicy.computationReference \in InstructionIds
    <3>1. thePolicy \in PolicyType
      BY <1>p DEF LifecycleInv, EscrowInv, TypeOK, thePolicy
    <3> QED
      BY <2>2, <3>1 DEF PolicyType
  <2>4. s = 1 => ComputedResult \in SettlementResults
    BY <2>1, <2>2, ComputedResultType
  <2>5. proxy' \in AnswerType
    BY <2>1, <2>3, <2>4 DEF AnswerType
  <2>6. /\ thePolicy'.computationReference = thePolicy.computationReference
        /\ ComputedResult' = ComputedResult
    BY <1>1, <2>2, ComputedKept
  <2>7. AnswersInstruction(proxy)'
    BY <2>1, <2>6 DEF AnswersInstruction
  <2> QED
    BY <2>2, <2>5, <2>6, <2>7 DEF ProxyAnswers
<1>4. PublishAnswer \/ proxy' = proxy
  BY DEF LifecycleNext, lifecycleVars, Script, Crash, FinalizeRound, OtherUsers, Chain,
     serviceVars, Rerun, PassOver, Save, Throw, ScriptCall, Fund, RequestAttestation,
     RequestProof, RetrieveProof, SubmitProof, Instruct, FetchResult, Authenticate, Settle
<1> QED
  BY <1>2, <1>3, <1>4

-----------------------------------------------------------------------------
(* The instruction. *)

\* The message the script puts together copies the draft and the proof.
LEMMA MessageOfScript ==
  ASSUME LifecycleInv, snapshot.status = "PROOF_VERIFIED"
  PROVE  Message \in ScriptMessages
<1>1. /\ snapshot.externalProofDigest # None /\ snapshot.resultNonce = 0
      /\ snapshot.targetAmount = Draft.targetAmount /\ snapshot.expiry = Draft.expiry
  BY DEF LifecycleInv, ReadOfDraft
<1>2. snapshot.externalProofDigest \in ProofDigests
  BY <1>1 DEF LifecycleInv, LifecycleTypeOK, PolicyType
<1>3. thePolicy.recipients = Draft.recipients /\ thePolicy.sharesBps = Draft.sharesBps
  BY DEF LifecycleInv, RecordOfDraft
<1>4. Message = [schemaVersion |-> SCHEMA_VERSION, policyId |-> POLICY_ID,
        externalProofDigest |-> snapshot.externalProofDigest,
        privateInputHash |-> PRIVATE_INPUT_HASH,
        recipients |-> Draft.recipients, sharesBps |-> Draft.sharesBps,
        total |-> Draft.targetAmount, nonce |-> 1, expiry |-> Draft.expiry]
  BY <1>1, <1>3 DEF Message
<1> QED
  BY <1>2, <1>4 DEF ScriptMessages

\* An instruction is known with its sender, and the script's copies the policy.
LEMMA InstructionNext ==
  ASSUME LifecycleInv, [LifecycleNext]_lifecycleVars
  PROVE  instructed' \in InstructedType \cup {None} /\ InstructionOfPolicy'
<1>p. POLICY_ID \in PolicyIds /\ TypeOK
  BY LifecycleAssumption DEF LifecycleInv, EscrowInv
<1>1. CASE Instruct
  <2>1. snapshot.status = "PROOF_VERIFIED"
    BY <1>1 DEF Instruct, Call, Due
  <2>2. instructed' = [by |-> "script", message |-> Message]
    BY <1>1 DEF Instruct
  <2>3. Message \in ScriptMessages
    BY <2>1, MessageOfScript
  <2> QED
    BY <2>2, <2>3 DEF InstructedType, InstructionOfPolicy
<1>2. CASE InstructElsewhere
  <2>1. PICK message \in OtherMessages :
          instructed' = [by |-> "client", message |-> message]
    BY <1>2 DEF InstructElsewhere
  <2> QED
    BY <2>1 DEF InstructedType, InstructionOfPolicy
<1>3. CASE /\ instructed' = instructed
           /\ thePolicy'.computationReference = thePolicy.computationReference
  BY <1>3 DEF LifecycleInv, LifecycleTypeOK, InstructionOfPolicy
<1> DEFINE Untouched == thePolicy'.computationReference = thePolicy.computationReference
<1>4. UNCHANGED vars \/ TransferNext \/ CallReturns \/ Tick => Untouched
  BY DEF vars, coreVars, TransferNext, CallReturns, Tick, thePolicy
<1>5. \/ Rerun \/ PassOver \/ Save \/ RequestAttestation \/ RetrieveProof
      \/ FetchResult \/ Throw \/ Crash \/ FinalizeRound \/ PublishAnswer \/ Chain
      \/ UNCHANGED lifecycleVars
      => Untouched
  BY <1>4 DEF Rerun, PassOver, Save, RequestAttestation, RetrieveProof,
     FetchResult, Throw, Crash, FinalizeRound, PublishAnswer, Chain, lifecycleVars
<1>6. Fund \/ RequestProof \/ SubmitProof \/ Authenticate \/ Settle => Untouched
  BY <1>p, ReferenceUntouched DEF Fund, RequestProof, SubmitProof, Authenticate, Settle,
     thePolicy
<1>7. CallElsewhere => Untouched
  BY <1>p, ReferenceUntouched DEF CallElsewhere, thePolicy
<1> HIDE DEF Untouched
<1>8. Instruct \/ InstructElsewhere \/ Untouched
  BY <1>5, <1>6, <1>7 DEF LifecycleNext, Script, ScriptCall, OtherUsers
<1>9. Instruct \/ InstructElsewhere \/ instructed' = instructed
  BY DEF LifecycleNext, lifecycleVars, Script, Crash, FinalizeRound, PublishAnswer,
     OtherUsers, Chain, serviceVars, Rerun, PassOver, Save, Throw, ScriptCall, Fund,
     RequestAttestation, RequestProof, RetrieveProof, SubmitProof, FetchResult,
     Authenticate, Settle
<1> QED
  BY <1>1, <1>2, <1>3, <1>8, <1>9 DEF Untouched

-----------------------------------------------------------------------------
(* The script's own state. *)

\* The part of the invariant that is about the script's variables.
ScriptState ==
  /\ stage \in {Stages[i] : i \in 1 .. 10} /\ unsaved \in BOOLEAN
  /\ snapshot \in PolicyType /\ ReadOfDraft(snapshot)
  /\ mem \in EvidenceType /\ disk \in EvidenceType
  /\ requests \in Nat /\ crashes \in Nat /\ finalized \in Nat
  /\ TrueEvidence(mem) /\ TrueEvidence(disk)
  /\ NotesCalls

\* The next stage is a stage.
LEMMA AfterType ==
  ASSUME NEW s \in {Stages[i] : i \in 1 .. 10}, s # "stopped"
  PROVE  After(s) \in {Stages[i] : i \in 1 .. 10}
<1>1. \E i \in 1 .. 9 : Stages[i] = s
  BY DEF Stages
<1>2. PICK i \in 1 .. 9 : After(s) = Stages[i + 1]
  BY <1>1 DEF After
<1> QED
  BY <1>2

\* Notes that claim nothing are true.
LEMMA NoEvidenceIsTrue ==
  NoEvidence \in EvidenceType /\ TrueEvidence(NoEvidence) /\ TrueEvidence(NoEvidence)'
  BY DEF NoEvidence, EvidenceType, TrueEvidence

\* The policy as it is on the chain has bounded books, and when its proof is
\* verified it has the proof and no instruction yet.
LEMMA PolicyRead ==
  ASSUME LifecycleInv
  PROVE  thePolicy \in PolicyType /\ ReadOfDraft(thePolicy)
<1>1. POLICY_ID \in PolicyIds
  BY LifecycleAssumption
<1>2. thePolicy.status = "PROOF_VERIFIED" =>
        thePolicy.externalProofDigest # None /\ thePolicy.computationReference = None
  BY <1>1 DEF LifecycleInv, EvidenceInv, StageEvidence, thePolicy
<1>3. thePolicy \in PolicyType
  BY <1>1 DEF LifecycleInv, EscrowInv, TypeOK, thePolicy
<1> QED
  BY <1>2, <1>3 DEF LifecycleInv, RecordOfDraft, ReadOfDraft

\* Noting one fact leaves the other notes alone.
LEMMA LearnEffect ==
  ASSUME mem \in EvidenceType, NEW v
  PROVE  /\ Learn("funding", v) =>
              /\ mem'.funding = v /\ mem'.fdc = mem.fdc /\ mem'.response = mem.response
              /\ mem'.instruction = mem.instruction /\ mem'.action = mem.action
              /\ v \in Nat => mem' \in EvidenceType
         /\ Learn("fdc", v) =>
              /\ mem'.funding = mem.funding /\ mem'.fdc = v /\ mem'.response = mem.response
              /\ mem'.instruction = mem.instruction /\ mem'.action = mem.action
              /\ v \in RequestType => mem' \in EvidenceType
         /\ Learn("response", v) =>
              /\ mem'.funding = mem.funding /\ mem'.fdc = mem.fdc
              /\ mem'.instruction = mem.instruction /\ mem'.action = mem.action
              /\ v \in EvmProofs => mem' \in EvidenceType
         /\ Learn("instruction", v) =>
              /\ mem'.funding = mem.funding /\ mem'.fdc = mem.fdc
              /\ mem'.instruction = v /\ mem'.action = mem.action
              /\ v \in InstructionIds => mem' \in EvidenceType
         /\ Learn("action", v) =>
              /\ mem'.funding = mem.funding /\ mem'.fdc = mem.fdc
              /\ mem'.instruction = mem.instruction /\ mem'.action = v
              /\ v \in AnswerType => mem' \in EvidenceType
<1>1. ASSUME Learn("funding", v)
      PROVE  /\ mem'.funding = v /\ mem'.fdc = mem.fdc /\ mem'.response = mem.response
             /\ mem'.instruction = mem.instruction /\ mem'.action = mem.action
             /\ v \in Nat => mem' \in EvidenceType
  BY <1>1 DEF Learn, EvidenceType
<1>2. ASSUME Learn("fdc", v)
      PROVE  /\ mem'.funding = mem.funding /\ mem'.fdc = v /\ mem'.response = mem.response
             /\ mem'.instruction = mem.instruction /\ mem'.action = mem.action
             /\ v \in RequestType => mem' \in EvidenceType
  BY <1>2 DEF Learn, EvidenceType
<1>3. ASSUME Learn("response", v)
      PROVE  /\ mem'.funding = mem.funding /\ mem'.fdc = mem.fdc
             /\ mem'.instruction = mem.instruction /\ mem'.action = mem.action
             /\ v \in EvmProofs => mem' \in EvidenceType
  BY <1>3 DEF Learn, EvidenceType
<1>4. ASSUME Learn("instruction", v)
      PROVE  /\ mem'.funding = mem.funding /\ mem'.fdc = mem.fdc
             /\ mem'.instruction = v /\ mem'.action = mem.action
             /\ v \in InstructionIds => mem' \in EvidenceType
  BY <1>4 DEF Learn, EvidenceType
<1>5. ASSUME Learn("action", v)
      PROVE  /\ mem'.funding = mem.funding /\ mem'.fdc = mem.fdc
             /\ mem'.instruction = mem.instruction /\ mem'.action = v
             /\ v \in AnswerType => mem' \in EvidenceType
  BY <1>5 DEF Learn, EvidenceType
<1> QED
  BY <1>1, <1>2, <1>3, <1>4, <1>5

-----------------------------------------------------------------------------
(* Every action keeps the script's state. *)

\* What every step keeps of the notes in memory and in the file.
LEMMA NotesKept ==
  ASSUME LifecycleInv, CoreStep, InstructionStays,
         requests' \in Nat, requests' >= requests
  PROVE  /\ mem' = mem => TrueEvidence(mem)'
         /\ disk' = disk => TrueEvidence(disk)'
         /\ disk' = mem => TrueEvidence(disk)'
         /\ mem' = disk => TrueEvidence(mem)'
<1> PICK m, d : m = mem /\ d = disk
  OBVIOUS
<1>1. /\ m \in EvidenceType /\ d \in EvidenceType
      /\ TrueEvidence(m) /\ TrueEvidence(d)
  BY DEF LifecycleInv, LifecycleTypeOK
<1>2. TrueEvidence(m)' /\ TrueEvidence(d)'
  BY <1>1, EvidenceKept
<1>3. mem' \in {m, d} => TrueEvidence(mem)'
  BY <1>2 DEF TrueEvidence, AnswersInstruction
<1>4. disk' \in {m, d} => TrueEvidence(disk)'
  BY <1>2 DEF TrueEvidence, AnswersInstruction
<1> QED
  BY <1>3, <1>4

\* A call of another stage than attest, noted as it happened.
LEMMA CallKeeps ==
  ASSUME LifecycleInv, CoreStep, InstructionStays,
         stage # "stopped", ~unsaved, unsaved' = TRUE, stage # "attest", UNCHANGED scriptOthers,
         UNCHANGED <<requests, finalized>>,
         mem' \in EvidenceType, TrueEvidence(mem)', mem'.fdc = mem.fdc
  PROVE  ScriptState'
<1>1. NotesCalls'
  BY DEF LifecycleInv, NotesCalls, scriptOthers, historyVars
<1>2. TrueEvidence(disk)'
  BY NotesKept DEF scriptOthers, LifecycleInv, LifecycleTypeOK
<1> QED
  BY <1>1, <1>2 DEF LifecycleInv, LifecycleTypeOK, ReadOfDraft, ScriptState, scriptOthers,
     historyVars

\* A step that leaves the script alone.
LEMMA OthersKeep ==
  ASSUME LifecycleInv, CoreStep, InstructionStays,
         UNCHANGED <<scriptVars, requests, crashes>>, finalized' \in Nat
  PROVE  ScriptState'
<1>1. TrueEvidence(mem)' /\ TrueEvidence(disk)'
  BY NotesKept DEF scriptVars, LifecycleInv, LifecycleTypeOK
<1>2. NotesCalls'
  BY DEF LifecycleInv, NotesCalls, scriptVars
<1> QED
  BY <1>1, <1>2 DEF LifecycleInv, LifecycleTypeOK, ReadOfDraft, ScriptState, scriptVars

\* Starting, ending and moving from stage to stage.
LEMMA StagesKeep ==
  ASSUME LifecycleInv, CoreStep, InstructionStays,
         Rerun \/ PassOver \/ Save \/ Throw \/ Crash
  PROVE  ScriptState'
<1>t. /\ LifecycleTypeOK /\ NotesCalls /\ ReadOfDraft(snapshot)
      /\ thePolicy \in PolicyType /\ ReadOfDraft(thePolicy)
      /\ NoPolicy \in PolicyType /\ ReadOfDraft(NoPolicy)
  BY PolicyRead, DefaultTypes DEF LifecycleInv, ReadOfDraft, NoPolicy
<1>r. requests' = requests /\ requests' \in Nat /\ requests' >= requests
  BY <1>t DEF Rerun, PassOver, Save, Throw, Crash, serviceVars, LifecycleTypeOK
<1>s. snapshot' \in {snapshot, thePolicy, NoPolicy}
        => snapshot' \in PolicyType /\ ReadOfDraft(snapshot)'
  BY <1>t DEF LifecycleTypeOK, ReadOfDraft
<1>1. CASE Rerun
  <2>1. stage' \in {Stages[i] : i \in 1 .. 10}
    BY <1>1 DEF Rerun, Stages
  <2>2. TrueEvidence(mem)' /\ TrueEvidence(disk)'
    BY <1>1, <1>r, NotesKept DEF Rerun
  <2>3. NotesCalls'
    BY <1>1, <1>t, <1>r DEF Rerun, NotesCalls, historyVars, LifecycleTypeOK
  <2> QED
    BY <1>1, <1>t, <1>s, <2>1, <2>2, <2>3 DEF Rerun, ScriptState, LifecycleTypeOK,
       serviceVars, historyVars
<1>2. CASE PassOver
  <2>1. stage' \in {Stages[i] : i \in 1 .. 10}
    BY <1>2, <1>t, AfterType DEF PassOver, LifecycleTypeOK
  <2>2. TrueEvidence(mem)' /\ TrueEvidence(disk)'
    BY <1>2, <1>r, NotesKept DEF PassOver
  <2>3. NotesCalls'
    BY <1>2, <1>t, <1>r DEF PassOver, NotesCalls, historyVars
  <2>4. snapshot' \in PolicyType /\ ReadOfDraft(snapshot)'
    BY <1>2, <1>s DEF PassOver
  <2> QED
    BY <1>2, <1>t, <2>1, <2>2, <2>3, <2>4 DEF PassOver, ScriptState, LifecycleTypeOK,
       serviceVars, historyVars
<1>3. CASE Save
  <2>1. stage # "stopped"
    BY <1>3, <1>t DEF Save, NotesCalls
  <2>2. stage' \in {Stages[i] : i \in 1 .. 10}
    BY <1>3, <1>t, <2>1, AfterType DEF Save, LifecycleTypeOK
  <2>3. TrueEvidence(mem)' /\ TrueEvidence(disk)'
    BY <1>3, <1>r, NotesKept DEF Save
  <2>4. NotesCalls'
    BY <1>3, <1>t, <1>r DEF Save, NotesCalls, historyVars
  <2> QED
    BY <1>3, <1>t, <1>s, <2>2, <2>3, <2>4 DEF Save, ScriptState, LifecycleTypeOK,
       serviceVars, historyVars
<1>4. CASE Throw \/ Crash
  <2>1. /\ ProcessEnds /\ disk' = disk /\ crashes' \in Nat /\ finalized' = finalized
        /\ stage # "stopped"
        /\ (crashes' = crashes /\ ~unsaved) \/ crashes' = crashes + 1
    BY <1>4, <1>t DEF Throw, Crash, serviceVars, historyVars, LifecycleTypeOK
  <2>2. stage' \in {Stages[i] : i \in 1 .. 10}
    BY <2>1 DEF ProcessEnds, Stages
  <2>3. TrueEvidence(mem)' /\ TrueEvidence(disk)' /\ mem' \in EvidenceType
    <3>1. mem' = NoEvidence
      BY <2>1 DEF ProcessEnds
    <3>2. TrueEvidence(mem)'
      BY <3>1, NoEvidenceIsTrue DEF TrueEvidence, AnswersInstruction
    <3> QED
      BY <1>r, <2>1, <3>1, <3>2, NoEvidenceIsTrue, NotesKept
  <2>4. NotesCalls'
    <3>1. requests \in Nat /\ crashes \in Nat
      BY <1>t DEF LifecycleTypeOK
    <3>2. CASE crashes' = crashes /\ ~unsaved
      BY <1>t, <1>r, <2>1, <3>2 DEF ProcessEnds, NotesCalls
    <3>3. CASE crashes' = crashes + 1
      <4>1. requests <= crashes + 1
        BY <1>t, <3>1 DEF NotesCalls
      <4>2. requests' <= crashes'
                + IF disk'.fdc # None \/ (unsaved' /\ stage' = "attest") THEN 1 ELSE 0
        BY <1>r, <2>1, <3>1, <3>3, <4>1 DEF ProcessEnds
      <4> QED
        BY <2>1, <4>2 DEF ProcessEnds, NotesCalls
    <3> QED
      BY <2>1, <3>2, <3>3
  <2> QED
    BY <1>t, <1>r, <1>s, <2>1, <2>2, <2>3, <2>4 DEF ProcessEnds, ScriptState,
       LifecycleTypeOK
<1> QED
  BY <1>1, <1>2, <1>3, <1>4

\* The calls note what happened: the money that was paid in, the request, the
\* attestation, the instruction and the answer.
LEMMA CallsKeep ==
  ASSUME LifecycleInv, CoreStep, InstructionStays, ScriptCall
  PROVE  ScriptState'
<1>p. POLICY_ID \in PolicyIds
  BY LifecycleAssumption
<1>t. /\ LifecycleTypeOK /\ NotesCalls /\ TypeOK /\ mem \in EvidenceType
      /\ snapshot \in PolicyType /\ snapshot.fundedAmount <= snapshot.targetAmount
      /\ requests \in Nat
  BY DEF LifecycleInv, LifecycleTypeOK, ReadOfDraft, EscrowInv
<1>e. PICK e : e = mem
  OBVIOUS
<1>k. requests' \in Nat /\ requests' >= requests => TrueEvidence(e)'
  BY <1>e, <1>t, EvidenceKept DEF LifecycleInv
<1>n. requests' = requests => requests' \in Nat /\ requests' >= requests
  BY <1>t
<1>1. CASE RequestProof \/ SubmitProof \/ Authenticate \/ Settle
  <2>1. /\ stage \in {"prove", "submit", "authenticate", "settle"}
        /\ ~unsaved /\ unsaved' = TRUE /\ UNCHANGED scriptOthers
        /\ mem' = mem /\ UNCHANGED <<requests, finalized>>
    BY <1>1 DEF RequestProof, SubmitProof, Authenticate, Settle, Call, serviceVars
  <2>2. TrueEvidence(mem)'
    BY <1>n, <2>1, NotesKept
  <2> QED
    BY <1>t, <2>1, <2>2, CallKeeps
<1>2. CASE Fund
  <2> PICK missing : missing = snapshot.targetAmount - snapshot.fundedAmount
    OBVIOUS
  <2>1. /\ stage = "fund" /\ ~unsaved /\ unsaved' = TRUE /\ UNCHANGED scriptOthers
        /\ UNCHANGED <<requests, finalized>>
        /\ Learn("funding", missing) /\ fundPolicy(POLICY_ID, missing)
    BY <1>2 DEF Fund, Call, serviceVars
  <2>2. missing \in Nat
    BY <1>t DEF PolicyType
  <2>3. deposited'[POLICY_ID] >= missing
    <3>1. deposited \in [PolicyIds -> Nat]
      BY <1>t DEF TypeOK
    <3>2. deposited' = [deposited EXCEPT ![POLICY_ID] = @ + missing]
      BY <2>1 DEF fundPolicy
    <3> QED
      BY <1>p, <2>2, <3>1, <3>2
  <2>4. /\ mem' \in EvidenceType /\ mem'.funding = missing /\ mem'.fdc = e.fdc
        /\ mem'.instruction = e.instruction /\ mem'.action = e.action
    BY <1>t, <1>e, <2>1, <2>2, LearnEffect
  <2>5. TrueEvidence(mem)'
    BY <1>k, <1>n, <2>1, <2>3, <2>4 DEF TrueEvidence, AnswersInstruction
  <2> QED
    BY <1>e, <2>1, <2>4, <2>5, CallKeeps
<1>3. CASE RequestAttestation
  <2> PICK request : request = [value |-> mem.funding, round |-> requests']
    OBVIOUS
  <2>1. /\ stage = "attest" /\ ~unsaved /\ unsaved' = TRUE /\ UNCHANGED scriptOthers
        /\ requests' = requests + 1 /\ finalized' = finalized
        /\ Learn("fdc", request) /\ mem.funding # None /\ mem.fdc = None
    BY <1>3, DueFacts DEF RequestAttestation, Call
  <2>2. requests \in Nat /\ crashes \in Nat /\ mem.funding \in Nat
    BY <1>t, <2>1 DEF LifecycleTypeOK, EvidenceType
  <2>r. request \in RequestType /\ request # None /\ request.round \in 1 .. requests'
    BY <2>1, <2>2, LifecycleAssumption DEF RequestType
  <2>3. /\ mem' \in EvidenceType /\ mem'.funding = e.funding /\ mem'.fdc = request
        /\ mem'.instruction = e.instruction /\ mem'.action = e.action
    BY <1>t, <1>e, <2>1, <2>r, LearnEffect
  <2>4. requests' \in Nat /\ requests' >= requests
    BY <2>1, <2>2
  <2>6. TrueEvidence(mem)'
    BY <1>k, <2>r, <2>3, <2>4 DEF TrueEvidence, AnswersInstruction
  <2>7. TrueEvidence(disk)'
    BY <2>1, <2>4, NotesKept DEF scriptOthers
  <2>8. requests <= crashes
    BY <1>t, <2>1, <2>2 DEF NotesCalls
  <2>9. NotesCalls'
    BY <2>1, <2>2, <2>r, <2>3, <2>8 DEF NotesCalls, scriptOthers, historyVars
  <2>10. ReadOfDraft(snapshot)'
    BY <2>1 DEF LifecycleInv, ReadOfDraft, scriptOthers
  <2> QED
    BY <1>t, <2>1, <2>2, <2>3, <2>4, <2>6, <2>7, <2>9, <2>10 DEF ScriptState,
       LifecycleTypeOK, scriptOthers, historyVars
<1>4. CASE RetrieveProof
  <2>1. PICK proof \in EvmProofs : Learn("response", proof)
    BY <1>4 DEF RetrieveProof
  <2>2. /\ stage = "retrieve" /\ ~unsaved /\ unsaved' = TRUE /\ UNCHANGED scriptOthers
        /\ UNCHANGED <<requests, finalized>>
    BY <1>4 DEF RetrieveProof, Call, serviceVars
  <2>3. /\ mem' \in EvidenceType /\ mem'.funding = e.funding /\ mem'.fdc = e.fdc
        /\ mem'.instruction = e.instruction /\ mem'.action = e.action
    BY <1>t, <1>e, <2>1, LearnEffect
  <2>4. TrueEvidence(mem)'
    BY <1>k, <1>n, <2>2, <2>3 DEF TrueEvidence, AnswersInstruction
  <2> QED
    BY <1>e, <2>2, <2>3, <2>4, CallKeeps
<1>5. CASE Instruct
  <2>1. PICK id \in InstructionIds :
          sendComputationInstruction(POLICY_ID, Owner, PRIVATE_INPUT_HASH, id)
            /\ Learn("instruction", id)
    BY <1>5 DEF Instruct
  <2>2. /\ stage = "instruct" /\ ~unsaved /\ unsaved' = TRUE /\ UNCHANGED scriptOthers
        /\ UNCHANGED <<requests, finalized>>
    BY <1>5 DEF Instruct, Call
  <2>3. thePolicy'.computationReference = id
    <3>1. policies \in [PolicyIds -> PolicyType]
      BY <1>t DEF TypeOK
    <3> QED
      BY <1>p, <2>1, <3>1 DEF sendComputationInstruction, Store, PolicyType, thePolicy
  <2>4. /\ mem' \in EvidenceType /\ mem'.funding = e.funding /\ mem'.fdc = e.fdc
        /\ mem'.instruction = id /\ mem'.action = e.action
    BY <1>t, <1>e, <2>1, LearnEffect
  <2>5. TrueEvidence(mem)'
    BY <1>k, <1>n, <2>2, <2>3, <2>4 DEF TrueEvidence, AnswersInstruction
  <2> QED
    BY <1>e, <2>2, <2>4, <2>5, CallKeeps
<1>6. CASE FetchResult
  <2>1. /\ stage = "fetch" /\ ~unsaved /\ unsaved' = TRUE /\ UNCHANGED scriptOthers
        /\ UNCHANGED <<requests, finalized, vars>>
        /\ proxy # None /\ Learn("action", proxy)
    BY <1>6 DEF FetchResult, Call, serviceVars
  <2> PICK answer : answer = proxy
    OBVIOUS
  <2>2. /\ answer \in AnswerType /\ thePolicy.computationReference # None
        /\ AnswersInstruction(answer) /\ Learn("action", answer)
    BY <1>t, <2>1 DEF LifecycleInv, LifecycleTypeOK, AnswersInstruction
  <2>3. /\ mem' \in EvidenceType /\ mem'.funding = e.funding /\ mem'.fdc = e.fdc
        /\ mem'.instruction = e.instruction /\ mem'.action = answer
    BY <1>t, <1>e, <2>2, LearnEffect
  <2>4. thePolicy'.computationReference # None /\ AnswersInstruction(answer)'
    BY <2>2, ComputedKept
  <2>5. TrueEvidence(mem)'
    BY <1>k, <1>n, <2>1, <2>3, <2>4 DEF TrueEvidence, AnswersInstruction
  <2> QED
    BY <1>e, <2>1, <2>3, <2>5, CallKeeps
<1> QED
  BY <1>1, <1>2, <1>3, <1>4, <1>5, <1>6 DEF ScriptCall

-----------------------------------------------------------------------------
(* The invariant. *)

\* The state createPolicy leaves, before the script runs for the first time,
\* accounts for the escrow and holds no evidence.
LEMMA DraftIsSound == LifecycleInit => EscrowInv /\ EvidenceInv
<1> SUFFICES ASSUME LifecycleInit
             PROVE  EscrowInv /\ EvidenceInv
  OBVIOUS
<1>1. BindingTypeOK
  <2>1. PICK adapter \in Adapters :
          /\ fccInstructionSender = adapter /\ extensions = <<adapter>>
          /\ extensionId = [a \in Adapters |-> IF a = adapter THEN 1 ELSE 0]
    BY DEF LifecycleInit
  <2>2. MaxExtensions \in Nat /\ MaxExtensions >= 1
    BY BindingAssumption
  <2>3. extensions \in Seq(Adapters) /\ Len(extensions) = 1
    BY <2>1
  <2>4. extensionId \in [Adapters -> 0 .. MaxExtensions]
    BY <2>1, <2>2
  <2>5. activeTees \in [ExtensionIds -> SUBSET Tees]
    BY DEF LifecycleInit
  <2> QED
    BY <2>1, <2>2, <2>3, <2>4, <2>5, BindingAssumption DEF LifecycleInit, BindingTypeOK
<1>2. \A p \in PolicyIds : policies[p] \in {Draft, NoPolicy}
  BY DEF LifecycleInit
<1>3. policies \in [PolicyIds -> PolicyType]
  BY DraftType, DefaultTypes DEF LifecycleInit
<1>4. TypeOK
  BY <1>1, <1>3 DEF LifecycleInit, TypeOK
<1>5. \A p \in PolicyIds : PolicyWellFormed(p)
  <2>1. ASSUME NEW p \in PolicyIds, policies[p] = Draft
        PROVE  PolicyWellFormed(p)
    <3>1. Draft.owner # ZeroAddress
      BY DraftType, LifecycleAssumption, CoreAssumption
    <3>2. \A i, j \in 1 .. Len(Draft.recipients) :
            i # j => Draft.recipients[i] # Draft.recipients[j]
      BY LifecycleAssumption DEF _validateParticipants
    <3> QED
      BY <2>1, <3>1, <3>2, DraftType DEF PolicyWellFormed
  <2>2. ASSUME NEW p \in PolicyIds, policies[p] = NoPolicy
        PROVE  PolicyWellFormed(p)
    BY <2>2 DEF PolicyWellFormed, NoPolicy
  <2> QED
    BY <1>2, <2>1, <2>2
<1>6. EscrowAccounted
  BY <1>2, DraftType
     DEF LifecycleInit, EscrowAccounted, HeldInFull, NothingPaid, InFlight, NoPolicy
<1>7. FrameWellFormed
  BY DEF LifecycleInit, FrameWellFormed
<1>8. EvidenceInv
  BY <1>2, DraftType DEF EvidenceInv, StageEvidence, OwnProof, OwnInstruction, OwnResult,
     NoPolicy
<1> QED
  BY <1>4, <1>5, <1>6, <1>7, <1>8 DEF EscrowInv

\* The invariant in the parts the lemmas are about.
LEMMA LifecycleInvByParts ==
  LifecycleInv <=>
    /\ EscrowInv /\ EvidenceInv /\ ScriptState /\ ProxyAnswers /\ AuthenticResult
    /\ instructed \in InstructedType \cup {None} /\ InstructionOfPolicy
    /\ \A f \in {"owner", "expiry", "targetAmount", "recipients", "sharesBps"} :
         thePolicy[f] = Draft[f]
    /\ thePolicy.resultNonce = IF thePolicy.computationReference = None THEN 0 ELSE 1
    /\ thePolicy.computationReference # None =>
         thePolicy.externalProofDigest # None /\ thePolicy.privateInputHash # None
    /\ thePolicy.fundedAmount <= thePolicy.targetAmount
  BY DEF LifecycleInv, LifecycleTypeOK, RecordOfDraft, ScriptState, ProxyAnswers,
     AuthenticResult

\* Nothing has happened yet, and nothing is on file.
LEMMA LifecycleInvInit == LifecycleInit => LifecycleInv
<1> SUFFICES ASSUME LifecycleInit
             PROVE  LifecycleInv
  OBVIOUS
<1>1. thePolicy = Draft
  BY LifecycleAssumption DEF LifecycleInit, thePolicy
<1>2. ScriptState
  <2>1. stage \in {Stages[i] : i \in 1 .. 10}
    BY DEF LifecycleInit, Stages
  <2>2. mem = NoEvidence /\ disk = NoEvidence /\ snapshot = NoPolicy /\ requests = 0
          /\ crashes = 0 /\ finalized = 0 /\ unsaved = FALSE /\ stage = "stopped"
    BY DEF LifecycleInit
  <2>3. snapshot \in PolicyType /\ ReadOfDraft(snapshot)
    BY <2>2, DefaultTypes DEF NoPolicy, ReadOfDraft
  <2>4. NotesCalls
    BY <2>2 DEF NotesCalls
  <2> QED
    BY <2>1, <2>2, <2>3, <2>4, NoEvidenceIsTrue DEF ScriptState
<1>3. ProxyAnswers
  BY DEF LifecycleInit, ProxyAnswers
<1>4. AuthenticResult
  BY <1>1, DraftType DEF AuthenticResult
<1>5. thePolicy.fundedAmount <= thePolicy.targetAmount
  BY <1>1, DraftType DEF PolicyType
<1>6. instructed = None /\ InstructionOfPolicy
  BY <1>1, DraftType DEF LifecycleInit, InstructionOfPolicy
<1> QED
  BY <1>1, <1>2, <1>3, <1>4, <1>5, <1>6, DraftIsSound, DraftType, LifecycleInvByParts

\* Every step keeps the invariant.
LEMMA LifecycleInvNext == LifecycleInv /\ [LifecycleNext]_lifecycleVars => LifecycleInv'
<1> SUFFICES ASSUME LifecycleInv, [LifecycleNext]_lifecycleVars
             PROVE  LifecycleInv'
  OBVIOUS
<1>1. CoreStep /\ InstructionStays
  BY LifecycleCoreStep, InstructedOnce
<1>2. EscrowInv' /\ EvidenceInv'
  BY <1>1, EscrowNext, EvidenceNext DEF LifecycleInv
<1>3. /\ ProxyAnswers' /\ AuthenticResult'
      /\ instructed' \in InstructedType \cup {None} /\ InstructionOfPolicy'
  BY ProxyNext, AuthenticNext, InstructionNext
<1>4. ScriptState'
  <2>1. CASE Script
    BY <1>1, <2>1, CallsKeep, StagesKeep DEF Script
  <2>2. CASE Crash
    BY <1>1, <2>2, StagesKeep
  <2>3. CASE FinalizeRound \/ PublishAnswer \/ OtherUsers \/ Chain
             \/ UNCHANGED lifecycleVars
    <3>1. UNCHANGED <<scriptVars, requests, crashes>>
      BY <2>3 DEF FinalizeRound, PublishAnswer, OtherUsers, Chain, lifecycleVars,
         serviceVars, historyVars
    <3>2. finalized' = finalized \/ finalized' \in finalized + 1 .. requests
      BY <2>3 DEF FinalizeRound, PublishAnswer, OtherUsers, Chain, lifecycleVars,
         serviceVars
    <3>3. finalized' \in Nat
      BY <3>2 DEF LifecycleInv, LifecycleTypeOK
    <3> QED
      BY <1>1, <3>1, <3>3, OthersKeep
  <2> QED
    BY <2>1, <2>2, <2>3 DEF LifecycleNext
<1>5. \A f \in {"owner", "expiry", "targetAmount", "recipients", "sharesBps"} :
        thePolicy'[f] = Draft[f]
  BY <1>1, RecordKept DEF LifecycleInv, RecordOfDraft, SameTerms
<1>6. /\ thePolicy'.resultNonce =
           IF thePolicy'.computationReference = None THEN 0 ELSE 1
      /\ thePolicy'.computationReference # None =>
           thePolicy'.externalProofDigest # None /\ thePolicy'.privateInputHash # None
      /\ thePolicy'.fundedAmount <= thePolicy'.targetAmount
  BY <1>1, RecordKept DEF LifecycleInv
<1>7. LifecycleInv' <=>
        /\ EscrowInv' /\ EvidenceInv' /\ ScriptState' /\ ProxyAnswers' /\ AuthenticResult'
        /\ instructed' \in InstructedType \cup {None} /\ InstructionOfPolicy'
        /\ \A f \in {"owner", "expiry", "targetAmount", "recipients", "sharesBps"} :
             thePolicy'[f] = Draft[f]
        /\ thePolicy'.resultNonce =
             IF thePolicy'.computationReference = None THEN 0 ELSE 1
        /\ thePolicy'.computationReference # None =>
             thePolicy'.externalProofDigest # None /\ thePolicy'.privateInputHash # None
        /\ thePolicy'.fundedAmount <= thePolicy'.targetAmount
  BY DEF LifecycleInv, LifecycleTypeOK, RecordOfDraft, ScriptState, ProxyAnswers,
     AuthenticResult
<1> QED
  BY <1>2, <1>3, <1>4, <1>5, <1>6, <1>7

\* For every policy, attestation, message of the owner's other client, proxy
\* answer and number of crashes: what complete-lifecycle.ts has in memory and on
\* file, and what the proxy publishes, is true of the chain, and an
\* authenticated result is what the handler computed from the message of the
\* policy's one instruction, whoever sent it.
THEOREM LifecycleInvariant == LifecycleSpec => []LifecycleInv
<1> QED
  BY LifecycleInvInit, LifecycleInvNext, PTL DEF LifecycleSpec

\* The evidence file never claims what did not happen: saveEvidence writes only
\* what a receipt or an answer said, and nobody can make it untrue afterwards.
THEOREM EvidenceFileIsTrue == LifecycleSpec => []EvidenceIsTrue
<1>1. LifecycleInv => EvidenceIsTrue
  BY DEF LifecycleInv, TrueEvidence, EvidenceIsTrue, AnswersInstruction
<1> QED
  BY <1>1, LifecycleInvariant, PTL

\* However often the script is rerun, FdcHub is asked and paid once, and once
\* more at most for every crash.
THEOREM OnlyCrashesRepeatRequests == LifecycleSpec => []RequestPerCrash
<1>1. LifecycleInv => RequestPerCrash
  BY DEF LifecycleInv, LifecycleTypeOK, NotesCalls, RequestPerCrash
<1> QED
  BY <1>1, LifecycleInvariant, PTL

\* A settled policy has paid the amounts of the handler's computation.
LEMMA SettledPays ==
  ASSUME LifecycleInv, Settled
  PROVE  PaidAs(Compute!Allocation(instructed.message))
<1>p. POLICY_ID \in PolicyIds
  BY LifecycleAssumption
<1> DEFINE due == Compute!Allocation(instructed.message)
           rec == thePolicy.recipients
<1>1. /\ PaidByResult(POLICY_ID) /\ OwnResult(POLICY_ID) /\ ~InFlight(POLICY_ID)
      /\ ResultFits(POLICY_ID)
      /\ ResultOf(POLICY_ID) = ComputedResult /\ thePolicy.resultDigest # None
  BY <1>p DEF Settled, LifecycleInv, EscrowInv, EscrowAccounted, EvidenceInv,
     StageEvidence, InFlight, thePolicy, PolicyWellFormed
<1>2. ResultOf(POLICY_ID).amounts = due
  BY <1>1 DEF ComputedResult, Compute!decodeAndComputeSettlement
<1>3. ResultOf(POLICY_ID).recipients = rec
  BY <1>1 DEF PaidByResult, thePolicy
<1> HIDE DEF due, rec
<1>4. SumFunction(due) = thePolicy.targetAmount
  BY <1>1, <1>2 DEF PaidByResult, OwnResult, thePolicy
<1>5. \A i \in 1 .. Len(rec) : received[POLICY_ID][rec[i]] = due[i]
  BY <1>1, <1>2, <1>3 DEF PaidByResult, TransfersDone
<1>6. \A a \in Accounts : received[POLICY_ID][a] # 0 =>
        \E i \in 1 .. Len(rec) : rec[i] = a
  BY <1>1, <1>3 DEF PaidByResult
<1>7. ASSUME NEW a \in Accounts
      PROVE  received[POLICY_ID][a] =
               IF \E i \in 1 .. Len(rec) : rec[i] = a
               THEN LET i == CHOOSE i \in 1 .. Len(rec) : rec[i] = a IN due[i]
               ELSE 0
  <2>1. CASE \E i \in 1 .. Len(rec) : rec[i] = a
    <3> DEFINE j == CHOOSE i \in 1 .. Len(rec) : rec[i] = a
    <3>1. j \in 1 .. Len(rec) /\ rec[j] = a
      BY <2>1
    <3> HIDE DEF j
    <3>2. received[POLICY_ID][a] = due[j]
      BY <1>5, <3>1
    <3> QED
      BY <2>1, <3>2 DEF j
  <2>2. CASE ~\E i \in 1 .. Len(rec) : rec[i] = a
    BY <1>6, <2>2
  <2> QED
    BY <2>1, <2>2
<1> QED
  BY <1>4, <1>7 DEF PaidAs, due, rec

\* Whoever sent the instruction and whatever results were offered: once the
\* policy has settled and its transfers are through, every recipient holds what
\* the handler computed from the instruction's message, and nobody else holds
\* anything: through the result's digest and settle's loop.
THEOREM PaysWhatWasComputed == LifecycleSpec => []SettledAsComputed
<1>1. LifecycleInv => SettledAsComputed
  BY SettledPays DEF SettledAsComputed
<1> QED
  BY <1>1, LifecycleInvariant, PTL

\* Once a policy that the script instructed has settled, every recipient holds
\* its share as createPolicy stored it, the last one the rounding as well,
\* whatever the owner's other client, anyone who relays results, and crashes
\* did on the way: through the script's message, the handler, the result's
\* digest and settle's loop.
THEOREM PaysTheShares == LifecycleSpec => []SettledByShares
<1>1. LifecycleInv => SettledByShares
  <2> SUFFICES ASSUME LifecycleInv, Settled, instructed.by = "script"
               PROVE  PaidAs(CommittedShares)
    BY DEF SettledByShares
  <2>p. POLICY_ID \in PolicyIds
    BY LifecycleAssumption
  <2>1. thePolicy.computationReference # None
    BY <2>p DEF Settled, LifecycleInv, EvidenceInv, StageEvidence, thePolicy
  <2>2. instructed.message \in ScriptMessages
    BY <2>1 DEF LifecycleInv, InstructionOfPolicy
  <2>3. /\ instructed.message.sharesBps = Draft.sharesBps
        /\ instructed.message.total = Draft.targetAmount
    BY <2>2 DEF ScriptMessages
  <2>4. /\ thePolicy.sharesBps = Draft.sharesBps
        /\ thePolicy.targetAmount = Draft.targetAmount
    BY DEF LifecycleInv, RecordOfDraft
  <2>5. Compute!Allocation(instructed.message) = CommittedShares
    BY <2>3, <2>4 DEF CommittedShares, Compute!Allocation, Compute!Portion
  <2> QED
    BY <2>5, SettledPays
<1> QED
  BY <1>1, LifecycleInvariant, PTL

\* In the composed system, too, the escrow is accounted for and the policy
\* settles on its own evidence.
THEOREM CoreHoldsUnderTheScript ==
  LifecycleSpec => [](EscrowAccounted /\ SettlesOnOwnEvidence)
<1>1. LifecycleInv => EscrowAccounted /\ SettlesOnOwnEvidence
  BY DEF LifecycleInv, EscrowInv, EvidenceInv, StageEvidence, OwnProof, OwnInstruction,
     OwnResult, SettlesOnOwnEvidence
<1> QED
  BY <1>1, LifecycleInvariant, PTL

\* The script, the services and the other users act on Core only through its
\* own functions: every step of the composed system is a step of Core, with any
\* value paid in, or leaves Core alone.
THEOREM LifecycleTakesCoreSteps == LifecycleSpec => [][CoreStep]_vars
<1>1. LifecycleInv /\ [LifecycleNext]_lifecycleVars => [CoreStep]_vars
  BY LifecycleCoreStep
<1> QED
  BY <1>1, LifecycleInvariant, PTL DEF LifecycleSpec
=============================================================================
