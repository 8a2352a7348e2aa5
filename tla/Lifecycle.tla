------------------------------ MODULE Lifecycle ------------------------------
(***************************************************************************)
(* The off-chain orchestrator complete-lifecycle.ts driving one policy of  *)
(* AurelithCore from DRAFT to SETTLED, with crashes and reruns.            *)
(*                                                                         *)
(* The script is a sequence of stages.  A stage whose condition holds      *)
(* makes one call (a transaction, or a request to a service), notes what   *)
(* it learned in `mem', saves it to the evidence file `disk' and reads the *)
(* policy again; otherwise it is passed over.  Everything it knows between *)
(* two runs is the evidence file and the chain.  Transactions are Core's   *)
(* own actions; other accounts use Core at the same time.                  *)
(*                                                                         *)
(* The FDC voting rounds and the FCC proxy belong to Flare: the round of a *)
(* request is final at some time after it, and the proxy publishes the     *)
(* handler's answer (SettlementCompute), possibly `pending' first.         *)
(*                                                                         *)
(* The message of an instruction is opaque to Core: the handler computes   *)
(* from the message alone.  The script's message copies the policy; the    *)
(* owner's other clients may send any of OtherMessages.                    *)
(***************************************************************************)
EXTENDS AurelithCore

CONSTANTS
  POLICY_ID, Owner,       \* the policy the script completes, and its signer
  Draft,                  \* the policy as createPolicy left it
  PRIVATE_INPUT_HASH,
  AnswerStatuses,         \* statuses the proxy publishes: 0, 1, 2 (pending)
  OtherMessages,          \* what the owner's other clients instruct with
  MaxCrashes,             \* bound on crashes
  Interference            \* whether other accounts act on the policy

Compute == INSTANCE SettlementCompute

SCHEMA_VERSION == "AURELITH_SETTLEMENT_V1"

\* An instruction's message, as the handler decodes it.
MessageType ==
  [schemaVersion: STRING, policyId: PolicyIds, externalProofDigest: ProofDigests,
   privateInputHash: PrivateInputHashes, recipients: Seq(Accounts),
   sharesBps: Seq(Nat), total: Nat, nonce: Nat, expiry: Nat]

\* The messages the script can come to send.
ScriptMessages ==
  {[schemaVersion |-> SCHEMA_VERSION, policyId |-> POLICY_ID,
    externalProofDigest |-> digest, privateInputHash |-> PRIVATE_INPUT_HASH,
    recipients |-> Draft.recipients, sharesBps |-> Draft.sharesBps,
    total |-> Draft.targetAmount, nonce |-> 1, expiry |-> Draft.expiry] :
   digest \in ProofDigests}

\* What the handler can answer.
HandlerResults ==
  {Compute!decodeAndComputeSettlement(message, id) :
   message \in {m \in ScriptMessages \cup OtherMessages : Compute!ValidRequest(m)},
   id \in InstructionIds}

\* A noted request: the value attested to and the request's voting round.
RequestType == [value: Nat, round: Nat]

ASSUME LifecycleAssumption ==
  /\ POLICY_ID \in PolicyIds /\ Owner \in Accounts
  /\ Draft = [NoPolicy EXCEPT !.owner = Owner, !.expiry = Draft.expiry,
                !.targetAmount = Draft.targetAmount, !.status = "DRAFT",
                !.recipients = Draft.recipients, !.sharesBps = Draft.sharesBps]
  /\ Draft.expiry \in Nat \ {0} /\ Draft.targetAmount \in Nat \ {0}
  /\ Draft.recipients \in Seq(Accounts) /\ Draft.sharesBps \in Seq(Nat)
  /\ _validateParticipants(Draft.recipients, Draft.sharesBps)
  /\ PRIVATE_INPUT_HASH \in PrivateInputHashes
  /\ AnswerStatuses \subseteq {0, 1, 2}
  /\ OtherMessages \subseteq MessageType
  /\ None \notin RequestType
  /\ HandlerResults \subseteq SettlementResults
  /\ MaxCrashes \in Nat
  /\ Interference \in BOOLEAN

VARIABLES
  stage,       \* the stage the script is in, or "stopped"
  unsaved,     \* the stage's call was made and is not saved yet
  snapshot,    \* the policy as last read from the chain
  mem, disk,   \* evidence in memory and in the file
  requests,    \* attestation requests FdcHub accepted
  finalized,   \* the last request whose voting round is final
  instructed,  \* the message of the policy's instruction and its sender, or None
  proxy,       \* the answer the FCC proxy publishes, or None
  crashes,
  undisturbed  \* history: nobody interfered, no crash lost an unrepeatable call

scriptVars  == <<stage, unsaved, snapshot, mem, disk>>
serviceVars == <<requests, finalized, instructed, proxy>>
historyVars == <<crashes, undisturbed>>
lifecycleVars == <<vars, scriptVars, serviceVars, historyVars>>

Stages == <<"fund", "attest", "prove", "retrieve", "submit", "instruct",
            "fetch", "authenticate", "settle", "stopped">>
After(s) == LET i == CHOOSE i \in 1 .. 9 : Stages[i] = s IN Stages[i + 1]

\* funding: value of the funding transaction; fdc: the attestation request for
\* it; response: the attestation; instruction: the instruction id; action: the
\* proxy's answer.
NoEvidence == [funding |-> None, fdc |-> None, response |-> None,
               instruction |-> None, action |-> None]

Pending(answer) == answer # None /\ answer.status = 2

thePolicy == policies[POLICY_ID]

\* Core deployed and bound to its extension, the policy created.
LifecycleInit ==
  /\ \E adapter \in Adapters :
       /\ fccInstructionSender = adapter
       /\ extensions = <<adapter>>
       /\ extensionId = [a \in Adapters |-> IF a = adapter THEN 1 ELSE 0]
  /\ resultAuthorizer = Deployer
  /\ pendingResultAuthorizer = ZeroAddress /\ nominator = ZeroAddress
  /\ teeExtensionId = 1
  /\ activeTees = [e \in ExtensionIds |-> IF e = 1 THEN Tees ELSE {}]
  /\ now = 0
  /\ policies = [p \in PolicyIds |-> IF p = POLICY_ID THEN Draft ELSE NoPolicy]
  /\ usedProofDigests = {} /\ usedResultDigests = {} /\ issued = {}
  /\ balance = 0 /\ frame = Idle
  /\ deposited = [p \in PolicyIds |-> 0]
  /\ received = [p \in PolicyIds |-> [a \in Accounts |-> 0]]
  /\ refunded = [p \in PolicyIds |-> 0]
  /\ stage = "stopped" /\ unsaved = FALSE /\ snapshot = NoPolicy
  /\ mem = NoEvidence /\ disk = NoEvidence
  /\ requests = 0 /\ finalized = 0 /\ instructed = None /\ proxy = None
  /\ crashes = 0 /\ undisturbed = TRUE

-----------------------------------------------------------------------------
(* Running through the stages. *)

\* The condition under which a stage makes its call.
Due(s) ==
  CASE s = "fund"         -> snapshot.status = "DRAFT"
    [] s = "attest"       -> snapshot.status = "FUNDED" /\ mem.fdc = None
    [] s = "prove"        -> snapshot.status = "FUNDED"
    [] s = "retrieve"     -> snapshot.status = "PROOF_REQUESTED" /\ mem.response = None
    [] s = "submit"       -> snapshot.status = "PROOF_REQUESTED" /\ mem.response # None
    [] s = "instruct"     -> snapshot.status = "PROOF_VERIFIED"
    [] s = "fetch"        -> snapshot.status = "COMPUTATION_REQUESTED" /\ mem.action = None
    [] s = "authenticate" -> snapshot.status = "COMPUTATION_REQUESTED" /\ mem.action # None
    [] s = "settle"       -> snapshot.status = "READY_TO_SETTLE"

Rerun ==
  /\ stage = "stopped"
  /\ thePolicy.owner = Owner
  /\ mem' = disk
  /\ snapshot' = thePolicy
  /\ stage' = "fund" /\ unsaved' = FALSE
  /\ UNCHANGED <<vars, disk, serviceVars, historyVars>>

\* The policy is read again after attest, retrieve and fetch in any case.
PassOver ==
  /\ stage # "stopped" /\ ~unsaved
  /\ ~Due(stage)
  /\ stage' = After(stage)
  /\ snapshot' = IF stage \in {"attest", "retrieve", "fetch"} THEN thePolicy
                 ELSE snapshot
  /\ UNCHANGED <<vars, unsaved, mem, disk, serviceVars, historyVars>>

\* A bug to rule out: the evidence is saved only when the whole run is through.
SaveAtEnd ==
  /\ unsaved
  /\ disk' = IF stage = "settle" THEN mem ELSE disk
  /\ snapshot' = thePolicy
  /\ stage' = After(stage) /\ unsaved' = FALSE
  /\ UNCHANGED <<vars, mem, serviceVars, historyVars>>

\* A bug to rule out: the attestation request is noted with the next stage only.
SaveRequestLate ==
  /\ unsaved
  /\ disk' = IF stage = "attest" THEN disk ELSE mem
  /\ snapshot' = thePolicy
  /\ stage' = After(stage) /\ unsaved' = FALSE
  /\ UNCHANGED <<vars, mem, serviceVars, historyVars>>

\* saveEvidence, once the receipt is there.
Save ==
  /\ unsaved
  /\ disk' = mem
  /\ snapshot' = thePolicy
  /\ stage' = After(stage) /\ unsaved' = FALSE
  /\ UNCHANGED <<vars, mem, serviceVars, historyVars>>

Call(s) == stage = s /\ ~unsaved /\ Due(s) /\ unsaved' = TRUE

Learn(f, value) == mem' = [mem EXCEPT ![f] = value]

scriptOthers == <<stage, snapshot, disk, historyVars>>

-----------------------------------------------------------------------------
(* The calls. *)

\* A bug to rule out: the receipt is not awaited, so a reverted transaction is
\* noted as funding.
FundUnconfirmed ==
  /\ Call("fund")
  /\ LET missing == snapshot.targetAmount - snapshot.fundedAmount IN
       (fundPolicy(POLICY_ID, missing) \/ UNCHANGED vars) /\ Learn("funding", missing)
  /\ UNCHANGED <<scriptOthers, serviceVars>>

Fund ==
  /\ Call("fund")
  /\ LET missing == snapshot.targetAmount - snapshot.fundedAmount IN
       fundPolicy(POLICY_ID, missing) /\ Learn("funding", missing)
  /\ UNCHANGED <<scriptOthers, serviceVars>>

\* evidence.funding is read here: without it the script throws.  Rounds are
\* numbered by the requests that fall into them.
RequestAttestation ==
  /\ Call("attest")
  /\ mem.funding # None
  /\ requests' = requests + 1
  /\ Learn("fdc", [value |-> mem.funding, round |-> requests'])
  /\ UNCHANGED <<vars, scriptOthers, finalized, instructed, proxy>>

RequestProof ==
  /\ Call("prove")
  /\ mem.fdc # None
  /\ requestProof(POLICY_ID, Owner)
  /\ UNCHANGED <<scriptOthers, mem, serviceVars>>

RetrieveProof ==
  /\ Call("retrieve")
  /\ mem.fdc # None
  /\ mem.fdc.round <= finalized
  /\ \E proof \in EvmProofs :
       proof.verified /\ proof.value = mem.fdc.value /\ Learn("response", proof)
  /\ UNCHANGED <<vars, scriptOthers, serviceVars>>

SubmitProof ==
  /\ Call("submit")
  /\ mem.response.value >= snapshot.targetAmount
  /\ submitEvmProof(POLICY_ID, Owner, mem.response)
  /\ UNCHANGED <<scriptOthers, mem, serviceVars>>

\* The message is put together from the policy as it was last read.
Message ==
  [schemaVersion |-> SCHEMA_VERSION, policyId |-> POLICY_ID,
   externalProofDigest |-> snapshot.externalProofDigest,
   privateInputHash |-> PRIVATE_INPUT_HASH,
   recipients |-> thePolicy.recipients, sharesBps |-> thePolicy.sharesBps,
   total |-> snapshot.targetAmount, nonce |-> snapshot.resultNonce + 1,
   expiry |-> snapshot.expiry]

Instruct ==
  /\ Call("instruct")
  /\ \E id \in InstructionIds :
       /\ sendComputationInstruction(POLICY_ID, Owner, PRIVATE_INPUT_HASH, id)
       /\ Learn("instruction", id)
  /\ instructed' = [by |-> "script", message |-> Message]
  /\ UNCHANGED <<scriptOthers, requests, finalized, proxy>>

\* Whatever the proxy answers is kept, whether it is final or not.
FetchResult ==
  /\ Call("fetch")
  /\ mem.instruction # None
  /\ proxy # None /\ proxy.id = mem.instruction
  /\ Learn("action", proxy)
  /\ UNCHANGED <<vars, scriptOthers, serviceVars>>

\* An answer without data does not decode.
Authenticate ==
  /\ Call("authenticate")
  /\ mem.action.result # None
  /\ \E signer \in Tees :
       authenticateActionResult(mem.action.result, mem.action.id,
                                mem.action.status, signer)
  /\ UNCHANGED <<scriptOthers, mem, serviceVars>>

Settle ==
  /\ Call("settle")
  /\ mem.action # None /\ mem.action.result # None
  /\ settle(Owner, mem.action.result)
  /\ UNCHANGED <<scriptOthers, mem, serviceVars>>

ScriptCall ==
  \/ Fund \/ RequestAttestation \/ RequestProof \/ RetrieveProof \/ SubmitProof
  \/ Instruct \/ FetchResult \/ Authenticate \/ Settle

ProcessEnds ==
  /\ stage' = "stopped" /\ unsaved' = FALSE
  /\ mem' = NoEvidence /\ snapshot' = NoPolicy

\* A call that cannot be made throws: a reverted transaction, a service that is
\* not ready, or evidence that is missing.  The script ends.
Throw ==
  /\ stage # "stopped" /\ ~unsaved /\ Due(stage)
  /\ ~ENABLED ScriptCall
  /\ ProcessEnds
  /\ UNCHANGED <<vars, disk, serviceVars, historyVars>>

\* The calls of these stages revert when they are made again.
Unrepeatable == {"fund", "instruct"}

\* The process dies.
Crash ==
  /\ stage # "stopped"
  /\ crashes < MaxCrashes
  /\ crashes' = crashes + 1
  /\ undisturbed' = (undisturbed /\ ~(unsaved /\ stage \in Unrepeatable))
  /\ ProcessEnds
  /\ UNCHANGED <<vars, disk, serviceVars>>

\* The script acts between transactions, never inside one.
Script ==
  frame = Idle /\ (Rerun \/ PassOver \/ ScriptCall \/ Save \/ Throw)

-----------------------------------------------------------------------------
(* Flare's services and the other users of Core. *)

\* Rounds become final in their order.
FinalizeRound ==
  /\ \E n \in finalized + 1 .. requests : finalized' = n
  /\ UNCHANGED <<vars, scriptVars, requests, instructed, proxy, historyVars>>

\* What the handler computes for the policy's instruction.
ComputedResult ==
  Compute!decodeAndComputeSettlement(instructed.message,
                                     thePolicy.computationReference)

\* The proxy publishes an answer, and replaces one that was pending.  Only a
\* computation that succeeded has data, and the handler fails on a message it
\* throws on.
PublishAnswer ==
  /\ thePolicy.computationReference # None
  /\ proxy # None => Pending(proxy)
  /\ \E s \in AnswerStatuses :
       /\ proxy # None => s # 2
       /\ s = 1 => Compute!ValidRequest(instructed.message)
       /\ proxy' = [status |-> s, id |-> thePolicy.computationReference,
                    result |-> IF s = 1 THEN ComputedResult ELSE None]
       /\ undisturbed' = (undisturbed /\ s = 1)
  /\ UNCHANGED <<vars, scriptVars, requests, finalized, instructed, crashes>>

\* The owner's other client sends the instruction, with a message of its own.
InstructElsewhere ==
  \E hash \in PrivateInputHashes, id \in InstructionIds, message \in OtherMessages :
    /\ sendComputationInstruction(POLICY_ID, Owner, hash, id)
    /\ instructed' = [by |-> "client", message |-> message]

\* Anyone funds, anyone relays a published result, and the owner's other client
\* makes every call that an owner can make.
CallElsewhere ==
  \/ \E value \in FundingValues : fundPolicy(POLICY_ID, value)
  \/ requestProof(POLICY_ID, Owner)
  \/ \E proof \in EvmProofs : submitEvmProof(POLICY_ID, Owner, proof)
  \/ proxy # None /\ proxy.result # None /\ \E signer \in Tees :
       authenticateActionResult(proxy.result, proxy.id, proxy.status, signer)
  \/ \E result \in SettlementResults : settle(Owner, result)
  \/ cancelPolicy(POLICY_ID, Owner)
  \/ refundPolicy(POLICY_ID, Owner)

OtherUsers ==
  /\ InstructElsewhere \/ (CallElsewhere /\ UNCHANGED instructed)
  /\ Interference /\ undisturbed' = FALSE
  /\ UNCHANGED <<scriptVars, requests, finalized, proxy, crashes>>

Chain == (TransferNext \/ CallReturns \/ Tick)
           /\ UNCHANGED <<scriptVars, serviceVars, historyVars>>

LifecycleNext == Script \/ Crash \/ FinalizeRound \/ PublishAnswer \/ OtherUsers \/ Chain

LifecycleSpec == LifecycleInit /\ [][LifecycleNext]_lifecycleVars

-----------------------------------------------------------------------------
(* The evidence file. *)

AnswerType ==
  [status: AnswerStatuses, id: InstructionIds, result: SettlementResults \cup {None}]

EvidenceType ==
  [funding: Nat \cup {None}, fdc: RequestType \cup {None},
   response: EvmProofs \cup {None}, instruction: InstructionIds \cup {None},
   action: AnswerType \cup {None}]

InstructedType ==
  [by: {"script", "client"}, message: ScriptMessages \cup OtherMessages]

\* The script's variables and those of the services have their types.
LifecycleTypeOK ==
  /\ stage \in {Stages[i] : i \in 1 .. 10} /\ unsaved \in BOOLEAN
  /\ snapshot \in PolicyType
  /\ mem \in EvidenceType /\ disk \in EvidenceType
  /\ requests \in Nat /\ crashes \in Nat /\ finalized \in Nat
  /\ instructed \in InstructedType \cup {None}
  /\ proxy \in AnswerType \cup {None}

\* What the evidence file says happened did happen, for this policy, whatever
\* was interrupted and whoever else used Core: the money was paid in, the
\* attestation was requested, an instruction on file is the policy's own, and
\* an answer on file is the answer to it (saveEvidence after the receipt).
EvidenceIsTrue ==
  /\ disk.funding # None => deposited[POLICY_ID] >= disk.funding
  /\ disk.fdc # None => disk.fdc.round \in 1 .. requests
  /\ disk.instruction # None => thePolicy.computationReference = disk.instruction
  /\ disk.action # None => disk.action.id = thePolicy.computationReference

\* Every recipient has received its part, and nobody else anything.
PaidAs(parts) ==
  /\ SumFunction(parts) = thePolicy.targetAmount
  /\ \A a \in Accounts :
       received[POLICY_ID][a] =
         IF \E i \in 1 .. Len(thePolicy.recipients) : thePolicy.recipients[i] = a
         THEN LET i == CHOOSE i \in 1 .. Len(thePolicy.recipients) :
                         thePolicy.recipients[i] = a
              IN  parts[i]
         ELSE 0

Settled == thePolicy.status = "SETTLED" /\ frame = Idle

\* The split that createPolicy stored.
CommittedShares ==
  Compute!Allocation([total |-> thePolicy.targetAmount,
                      sharesBps |-> thePolicy.sharesBps])

\* End to end, through the script, the handler, Core and the payout loop: when
\* a policy the script instructed has settled, every recipient has received its
\* basis-point share of the target, the last one the rounding as well, and
\* nobody else anything, whatever the owner's other client did meanwhile.
SettledByShares ==
  Settled /\ instructed.by = "script" => PaidAs(CommittedShares)

\* Whoever sent the instruction: a settled policy has paid what the handler
\* computed from that instruction's message, in full and once, and no result
\* that anybody offered to authenticateActionResult or settle instead.
SettledAsComputed ==
  Settled => PaidAs(Compute!Allocation(instructed.message))

\* README.md: "AURELITH binds six things into one contract-enforced lifecycle
\* ... Ordered recipients and shares are committed before computation": a
\* settled policy has paid the shares that createPolicy stored.
SharesAreEnforced == Settled => PaidAs(CommittedShares)

\* Only a crash makes the script ask FdcHub, and pay its fee, again: one more
\* request per crash at most, and none for a rerun after a failed stage.
RequestPerCrash == requests <= 1 + crashes

\* An answer is to the policy's instruction, and if it has data, they are what
\* the handler computed.
AnswersInstruction(answer) ==
  /\ answer.id = thePolicy.computationReference
  /\ answer.result # None => answer.result = ComputedResult

\* A piece of evidence is what happened: an answer is the handler's, for the
\* instruction that the policy has now and for ever.
TrueEvidence(evidence) ==
  /\ evidence.funding # None => deposited[POLICY_ID] >= evidence.funding
  /\ evidence.fdc # None => evidence.fdc.round \in 1 .. requests
  /\ evidence.instruction # None =>
       thePolicy.computationReference = evidence.instruction
  /\ evidence.action # None =>
       /\ thePolicy.computationReference # None
       /\ AnswersInstruction(evidence.action)

\* What Core's record of the policy keeps of the draft, and what an instructed
\* policy has.
RecordOfDraft ==
  /\ \A f \in {"owner", "expiry", "targetAmount", "recipients", "sharesBps"} :
       thePolicy[f] = Draft[f]
  /\ thePolicy.resultNonce = IF thePolicy.computationReference = None THEN 0 ELSE 1
  /\ thePolicy.computationReference # None =>
       thePolicy.externalProofDigest # None /\ thePolicy.privateInputHash # None
  /\ thePolicy.fundedAmount <= thePolicy.targetAmount

\* What the policy says at the time the script reads it to instruct.
ReadOfDraft(policy) ==
  /\ policy.fundedAmount <= policy.targetAmount
  /\ policy.status = "PROOF_VERIFIED" =>
       /\ policy.externalProofDigest # None /\ policy.resultNonce = 0
       /\ policy.targetAmount = Draft.targetAmount
       /\ policy.expiry = Draft.expiry

\* The instruction of an instructed policy is known, and the script's copies
\* the policy.
InstructionOfPolicy ==
  thePolicy.computationReference # None =>
    /\ instructed \in InstructedType
    /\ instructed.by = "script" => instructed.message \in ScriptMessages

\* Between two calls memory and file agree; the request for an attestation is
\* the one call whose note is counted.
NotesCalls ==
  /\ unsaved => stage # "stopped"
  /\ stage # "stopped" /\ ~unsaved => mem = disk
  /\ unsaved =>
       IF stage = "attest" THEN mem.fdc # None ELSE mem.fdc = disk.fdc
  /\ requests <= crashes
       + IF disk.fdc # None \/ (unsaved /\ stage = "attest") THEN 1 ELSE 0

\* The inductive invariant behind the three invariants of the script: whatever
\* memory, file and proxy say is true of the chain, an authenticated result is
\* what the handler computed from the instruction's message, whoever sent it,
\* and a request that is neither on file nor about to be saved was lost in a
\* crash.
LifecycleInv ==
  /\ LifecycleTypeOK
  /\ EscrowInv /\ EvidenceInv
  /\ RecordOfDraft /\ ReadOfDraft(snapshot) /\ InstructionOfPolicy
  /\ TrueEvidence(mem) /\ TrueEvidence(disk)
  /\ proxy # None =>
       thePolicy.computationReference # None /\ AnswersInstruction(proxy)
  /\ thePolicy.resultDigest # None => ResultOf(POLICY_ID) = ComputedResult
  /\ NotesCalls

-----------------------------------------------------------------------------
(* Progress. *)

\* The operator reruns the script until it is through; services answer.
LifecycleFairness ==
  /\ WF_lifecycleVars(Script)
  /\ WF_lifecycleVars(FinalizeRound)
  /\ WF_lifecycleVars(PublishAnswer)
  /\ WF_lifecycleVars((TransferNext \/ CallReturns)
                        /\ UNCHANGED <<scriptVars, serviceVars, historyVars>>)

LiveLifecycle == LifecycleSpec /\ LifecycleFairness

\* Rerun after every failure and crash, the script settles the policy unless it
\* expires first, as long as nobody else uses the policy, the TEE succeeds, and
\* no crash comes between a call that cannot be repeated and its save (the
\* conditions of the stages, saveEvidence after each of them).
Completes ==
  <>(thePolicy.status = "SETTLED" \/ now >= thePolicy.expiry \/ ~undisturbed)

\* docs/ARCHITECTURE.md: "A crash may delay progress": rerun after any crash,
\* the script gets the policy settled, unless it expires first.
CrashOnlyDelays == <>(thePolicy.status = "SETTLED" \/ now >= thePolicy.expiry)

\* docs/PROTOCOL-SPEC.md: of a result that is not yet there "retry remains
\* possible": an answer fetched while it was pending is replaced, unless the
\* policy expires first.
PendingIsRetried ==
  Pending(disk.action) ~> ~Pending(disk.action) \/ now >= thePolicy.expiry
=============================================================================
