# Aurelith: a TLA+ verification project

Aurelith escrows native tokens in a contract and releases them only on two
pieces of evidence: a Flare Data Connector (FDC) attestation of an external
payment, and a settlement result that a Flare Confidential Compute (FCC) machine
computed and signed.  This directory models the parts that carry that promise,
model-checks them with TLC on small instances and proves the central results
with TLAPS for every instance.  Paths are relative to the repository.

1. [The system](#1-the-system)
2. [Modules](#2-modules-and-how-they-correspond-to-the-code)
3. [Runs](#3-runs-what-each-asks-and-what-it-shows)
4. [Disagreements found](#4-where-code-and-documentation-disagree)
5. [Proofs](#5-proofs)
6. [Abstractions, bounds, fairness](#6-abstractions-bounds-and-fairness)
7. [Not modelled](#7-not-modelled)
8. [Plan](#8-plan)

## 1. The system

| Part | State it keeps | Operations | Talks to |
|---|---|---|---|
| **Core**, `contracts/src/AurelithProtocol.sol` | policies, used proof and result digests, its balance; authorizer role; TEE registry and instruction sender | createPolicy, fundPolicy, requestProof, submitEvmProof, sendComputationInstruction, authenticateActionResult, settle, cancelPolicy, refundPolicy; role handover; two one-time configuration calls | FDC verification, the adapter, the active-TEE registry, the accounts it pays (which may call back) |
| **Adapter**, `contracts/src/AurelithFccInstructionSender.sol` | `extensionId` | setExtensionId, sendSettlementInstruction | Flare's extension registry |
| **Settlement handler**, `fcc-extension/typescript/src/app` | `processed`, `lastPolicyId` | handleSettlement (resetState is for tests only) | called by the extension server |
| **Extension servers**, `fcc-extension/{go,python,typescript}` | application state, a lock or a promise chain | POST /action, GET /state | tee-node, which calls them |
| **Orchestrator**, `contracts/scripts/complete-lifecycle.ts` | an evidence file; in memory the last policy read | nine stages from funding to settlement, rerun after a failure | Core, FdcHub, the DA layer, the FCC proxy |
| **Deployment scripts**, `contracts/scripts/deploy.ts`, `configure-fcc.ts` | the manifest `contracts/deployments/coston2.json` | deploy Core and an adapter, configure both, write and complete the manifest | Core, the adapter, the active-TEE registry |
| **Set-up tooling**, `fcc-extension/scripts/pre-build.sh`, `tools/` | `config/extension.env` | deploy a sender, register an extension, grant roles and key types, write the config; start and stop services; run-test | Flare's registries, `InstructionSender.sol`, the TEE node |
| **Validation**, `fcc-extension/tools/cmd/verify-deploy`, `tools/pkg/validate` | a report | the checks of each step, a filter, an exit code | reads the config file and Flare's registries |
| **Registration tooling**, `fcc-extension/scripts/post-build.sh`, `tools/pkg/fccutils/registration.go` | `config/register-tee.state` | allow the image, set governance, steps r, R, a, p of register-tee | Flare's registries, the TEE node, FTDC providers |
| **Web application**, `src/` | a selection and a history in the browser | shows a policy's stages; sends a wallet's calls | Core |

What is hard here:

* **Re-entrancy.** `settle` pays up to 32 accounts in a loop.  Each may call any
  function of Core that is not `nonReentrant`, on the same or another policy.
* **Races between ways out.** Settlement, cancellation and refund compete for one
  escrow, around the exact second of the expiry.
* **Evidence and its owner.** Proofs, instructions and results travel through
  anybody's hands and must count only once and only for their policy.
* **Crashes between a transaction and the note of it**, in the orchestrator and in
  register-tee; transactions that are mined although the tool gave up waiting.
* **Stale values**: cached answers, expired challenges, a state file about a TEE
  that no longer exists, a config file written for another chain, a check whose
  answer is acted on later.
* **Configuration in several places.** Core's and the adapter's extension ids, the
  manifest, the sender's own id and the config file are written by separate steps
  that nothing makes atomic or compares.
* **Concurrency in the extension servers**: goroutines, threads, suspended handlers.

`PROJECT.json` lists these as hazards, each at its line with the properties that
would catch it going wrong.

## 2. Modules and how they correspond to the code

`PROJECT.json` maps each definition to the lines it models.  Definitions keep the
source's names.  Definitions introduced by "A bug to rule out" are mutations used to
show that a property can fail; they are part of no specification.

**`FccBinding`** - Core's role handover and configuration, the adapter's
`setExtensionId`, and Flare's registry of extensions, which anybody may extend.
One action per function.

**`ContractDeployment`** (extends FccBinding) - deploy.ts once and configure-fcc.ts
any number of times at once.  Each question a script asks and each transaction it
sends is a step, the transactions *are* FccBinding's actions by the deployer, and
between two steps anybody may do anything FccBinding allows.  A transaction that is
mined after its script stopped is the same call made by hand.

**`AurelithCore`** (extends FccBinding) - the rest of Core.  A function that pays
nobody is one step.  `settle` and `refundPolicy` are several: checks and state
update, one `TransferNext` per payment, `CallReturns`.  `frame` is the open call
and at the same time the reentrancy guard: between these steps every action
without `nonReentrant` may happen, as if a paid account called back.  A reverted
transaction is no step, so a call with a failing transfer never starts.
`deposited`, `received` and `refunded` are history variables.

**`PolicyPages`** (extends AurelithCore) - the five stage badges the web pages compute
from a policy read from Core (`getLifecycleStageStates`).

**`Escrow`**, **`AurelithEscrow`** - the abstract promise: value is paid in and
leaves in one indivisible step, all of it and once.  `AurelithEscrow` gives the
refinement mapping: while a call is open its policy's escrow counts as not moved.

**`SettlementCompute`** - the settlement handler's arithmetic: each share rounded
down, the last recipient takes the rest.  The handler itself, with its two state
variables, runs in the TypeScript server and is modelled there.

**`Lifecycle`** (extends AurelithCore, uses SettlementCompute) - the orchestrator.
`stage` is the position in `main`; a stage does its call, then saves (`unsaved` lies
in between and is where a crash hurts).  The transactions *are* Core's actions.
Meanwhile anybody may fund the policy or relay a result, and the owner's other client
may make every call an owner can (`OtherUsers`).  Among them is the instruction, whose
message Core passes on without reading it: `instructed` is the message the policy was
instructed with and who sent it, and the handler computes from it alone.

**`ExtensionContract`** - what `docs/extension-contract.md` promises for every
language: the HTTP status table, dispatch (exact pair, then wildcard), actions and
state reads that take effect one at a time, an answer to every request.
**`GoExtension`**, **`PythonExtension`**, **`TypeScriptExtension`** - the three
servers, each with its own concurrency: an RWMutex and a step per field read or
written; a lock held around the handler; a promise chain around a handler that may
suspend between its two assignments.  Each is shown to implement
`ExtensionContract`: a count that is raised before its text is stored counts as
not yet raised.  A request's `body` says how far it decodes; a value of an unexpected
JSON type is refused by the Go server, drops the request in the Python server (`Drop`)
and, if it is the opType or opCommand, ends the TypeScript process (`LookupThrows`).
That process may also be told to stop at any time: it takes no new request and exits
when the open ones are answered.  **`ExtensionContainer`** is
the container start-services.sh builds in the language `.env` selects: one of the
three servers, chosen initially.

**`TeeRegistration`** - post-build.sh's three tools.  `tool` is the running process
with the variables of `RegisterNode`, `file` its state file.  Around it the node (a
new identity per launch), the registry's one-shot, expiring challenges, and the
providers that prove availability of the node that is running.  A transaction may
be mined without the tool seeing it; the file may be left half written.
**`ExtensionSetup`** - several runs of pre-build.sh, of register-extension by itself
and of run-test at once, each of which may stop anywhere, the TEE node that
start-services.sh starts, and several chains: a command works on the chain `.env`
selects when it starts, while `config/extension.env` does not say which chain it is
about.  Senders of two chains have the same addresses, because addresses follow from
the deployer's nonce.
**`VerifyDeploy`** (extends ExtensionSetup) - verify-deploy beside all of that.  Each
check reads the file or the chain when its turn comes, any lookup may fail, and the
exit code is computed from what the `--checks` filter left.  The `--step` values
`tee-version` and `tee-machine` are `version` and `machine` here.

**`FccBindingProofs`**, **`ContractDeploymentProofs`**, **`AurelithCoreProofs`** (also
about `AurelithEscrow` and `PolicyPages`), **`LifecycleProofs`**,
**`ExtensionContainerProofs`**, **`TeeRegistrationProofs`**, **`VerifyDeployProofs`** -
lemmas and theorems (section 5).  **`SumProofs`** - lemmas about sums over functions
and sequences, and about splitting a total by rounded shares.
**`MC...`** - the instances TLC checks.

## 3. Runs: what each asks and what it shows

All passing runs are exhaustive for their instance.

| Run | States | Question and answer |
|---|---|---|
| `core` | 191,768 | Two policies, two accounts, four attestations (usable, too small, unverified, two of one transaction), 96 results that differ from the evidence in each compared field.  The escrow is in exactly one place (`EscrowAccounted`, `Solvent`), is released on the policy's own evidence (`SettlesOnOwnEvidence`), cannot be taken back before the expiry once a payment is proved (`CommittedUntilExpiry`), an authenticated result is not stranded by a refund (`ResultNotStranded`), and the record is write-once (`RecordIsWriteOnce`).  A badge says verified only if the policy's evidence is there, whichever way it ended (`BadgesAreTrue`; the computation of a refunded policy is the exception it names).  Core implements `Escrow` (`ImplementsEscrow`).  `EscrowInv` and `EvidenceInv` are the inductive invariants of the proofs. |
| `core_live` | 96,288 | With a recipient that rejects every payment, no escrow is locked for ever (`EscrowEventuallyLeaves`). |
| `contract_deployment` | 1,329,072 | deploy.ts, two runs of configure-fcc.ts, three operators handing the role around, two adapters, three extensions.  The manifest names the adapter Core uses, and a complete one an adapter with its extension and a Core with its registry (`ManifestIsBound`).  Core accepts results of the extension it instructs, unless it was configured by hand with another id or the hard-coded id is not the adapter's oldest extension (`CoreAndAdapterShareTheirExtension`).  Nominations are current, the adapter resolves the oldest extension that names it, bindings are write-once. |
| `lifecycle` | 1,193,897 | Two crashes anywhere, all answers of the proxy, other users, among them the owner's other client with three instruction messages of its own: the evidence file tells the truth (`EvidenceIsTrue`), a request is repeated only after a crash (`RequestPerCrash`), a settled policy that the script instructed has paid every recipient its share, end to end (`SettledByShares`), and any settled policy has paid what the handler computed from its instruction's message (`SettledAsComputed`).  If no crash falls between an unrepeatable call and its save and nobody interferes, the policy settles or expires (`Completes`).  `LifecycleInv` is the inductive invariant of the proofs. |
| `extension` | 92,157 | For each language, three concurrent requests drawn from every way of being routed, refused, failed or answered: the server keeps the safety part of the contract, and answers (`GoKeepsContract`, `PythonKeepsContract`, `TypeScriptKeepsContract`).  The Go server answers every request.  The Python server answers a client unless that client's own values have the wrong JSON type.  The TypeScript server answers all as long as nobody sends an opType or opCommand that is no string.  A computed settlement pays out exactly the total, and every recipient its share up to rounding (`AllocationIsExact`).  `ContainerInv` is the inductive invariant of the proofs. |
| `registration` | 627,354 | Two failures, one relaunch with another image, a challenge that expires, runs with and without -resume: the state file is true (`FileIsTrue`); a run without -resume that reports success put the machine it names into production (`FreshReportIsTrue`); rerunning post-build.sh gets the machine that is live in the end into production (`RerunsRegister`).  `RegInv` is the inductive invariant of the proofs. |
| `deployment` | 4,004,313 | Two builds, a test, a verification and the services on two chains, each cut short anywhere, one failed lookup.  The config names an extension that is complete on some chain (`ConfigIsReady`); a test passes only if a node executed both its instructions for the sender's own extension (`PassedTestWasServed`); a verification that exits with 0 and shows the registration checks saw an extension that has every role, also the one it never looks up (`CleanReportIsReady`); instructions sent with a config whose sender was reported as matching and unique, by a scan that reached the extension the config names, go to that extension (`VerifiedInstructionsReachTheirExtension`).  `VerifyInv`, which includes `SetupInv`, is the inductive invariant of the proofs. |

Each property of a passing run has a mutant in `PROJECT.json`: a plausible mistake in
the code under which TLC refutes it.

## 4. Where code and documentation disagree

Each of these is a run that TLC ends with a counterexample.

* `core_stale` - `settle` does not look at the result's own expiry, which may be
  earlier than the policy's; FAILURE-MODES.md says stale results are rejected.
* `lifecycle_crash` - a crash between a confirmed `fundPolicy` (or
  `sendComputationInstruction`) and the save stops the orchestrator for good.
* `lifecycle_pending` - a pending answer is saved as the result and never replaced.
* `lifecycle_shares` - Core compares the recipients and the sum of a result with the
  policy, but no amount with a share.  The split is that of the instruction's message,
  which the owner's client chooses: one with other shares is computed, authenticated
  and settled, although README.md says that shares are committed before computation.
* `registration_relaunch` - a run resumed after a relaunch promotes the old machine
  and reports the new one.

Also seen while modelling, and not kept as runs:

* A small share of a small total rounds to zero.  The handler answers with that
  amount and Core rejects the result (PROTOCOL-SPEC.md:56), so the escrow of a policy
  that Core accepted waits for its expiry.
* A crash between the confirmed attestation request and its save makes the rerun
  pay for another one (PROTOCOL-SPEC.md:70).  `RequestPerCrash` bounds the waste.
* Once the saved challenge has expired, every -resume fails; only a run without it
  helps, which is what `RerunsRegister` relies on.
* `-command` accepts any letters.  `Ra` leaves a state file with a check but no
  pre-registration; resumed with `r` on a relaunched machine, the file would hold the
  attestation of one machine and the check of another.  `PreRegistersFirst` excludes
  such commands: post-build.sh uses `rRap`, the default is `rap`, and single letters
  are what deployment-steps.md offers.
* deployment-steps.md:192 offers the steps of register-tee one by one, but `a` alone
  has no attestation id; and `r` does issue a challenge for a registered machine
  (deployment-steps.md:194 is older than the code).
* configure-fcc.ts writes its hard-coded extension id to the manifest even if Core was
  configured with another one before; only the exceptions named in
  `CoreAndAdapterShareTheirExtension` allow that.
* A policy refunded while its computation was only requested shows its private
  computation as verified: the badge looks at the status number, and a refund's is the
  highest.  `BadgesAreTrue` excepts this case and no other.
* In the TypeScript server an opType or opCommand that is not a string makes `serve` reject
  and ends the process, where extension-contract.md:40 says 400; the requests under way
  are lost with it.  The model does that, too (`LookupThrows`), and
  `TypeScriptKeepsContract` promises answers only as long as nobody sends such a value.
  tee-node always sends strings.
* verify-deploy: R7 passes over failed lookups and then reports the sender as unique
  (checks.go:481), which `VerifiedInstructionsReachTheirExtension` excepts; it also scans
  only the extensions R1 counted.  With a config of another chain whose
  id is registered on this chain between R1 and R2, R2 passes and R7 reports the
  sender as unique although it never looked at that extension.  R1's message gives
  the counter away, and `VerifiedInstructionsReachTheirExtension` asks for an id
  within it;
  the `--checks` filter is applied before the exit code, so a hidden FAIL exits with 0;
  an empty or truncated config file makes all registration checks SKIP, with exit
  code 0 (`parseExtensionEnv` never returns an error, so the FAIL at checks.go:300
  cannot happen).
* The id of the first extension that others can register is 65536, so R1's warning
  cannot happen either, and R7 asks for tens of thousands of ids that do not exist.
* start-services.sh and its siblings source `.env` after they parsed their flags: a
  chain set there wins over `--chain`.
* The Python server raises an AttributeError on a DataFixed that is JSON but no object, and
  on a data.message, opType or opCommand of another type: the connection closes without
  the contract's 400.  `PythonKeepsContract` shows that others are served nevertheless.
* `LifecycleProvider` shows the server's evidence when its answer is late, although
  the user has selected another policy meanwhile; the browser's storage keeps the
  selection.

## 5. Proofs

Theorems hold for every value of the constants under the assumptions of the modules:
`BindingAssumption`, `CoreAssumption`, `DeploymentAssumption` and
`RegistrationAssumption` (types of the constants; the zero address is no account;
digests are not the zero word; the result hash is injective by construction; the
hard-coded extension id is a possible id), `FiniteAssumption` and `SetupAssumption`
(finitely many policies, accounts and builds, so that sums and counts exist) and
`VerifyAssumption` (`--step` has one of its documented values; main.go ends on others),
`ComputeAssumption` (the basis-point denominator is positive), `LifecycleAssumption`
(the policy is a draft that `createPolicy` accepts, other clients' messages have the
ABI's types, and what the handler can answer to them and to the script's is among the
results a relayer may submit) and `ContainerAssumption` (a
request is not the absence of one, a message that decodes has the ABI's types, the
registered handlers exist).
`RegInvariant` and `StateFileIsTrue` have one hypothesis more, `PreRegistersFirst`:
the commands of register-tee that ask for a check pre-register, too.  TLC evaluates
all of them, `PreRegistersFirst` for the commands of its instance.

| Module | Theorem | Says |
|---|---|---|
| `AurelithCoreProofs` | `TypeCorrect` | `Spec => []TypeOK`.  No amount is ever negative: the checked subtractions of the code cannot underflow. |
| | `EscrowInvariant` | `Spec => []EscrowInv` |
| | `EscrowIsAccounted` | `Spec => []EscrowAccounted` |
| | `RefinesEscrow` | `Spec => ImplementsEscrow` |
| | `CoreIsSolvent` | `Spec => []Solvent` |
| | `EvidenceInvariant` | `Spec => []EvidenceInv` |
| | `PoliciesSettleOnOwnEvidence` | `Spec => []SettlesOnOwnEvidence` |
| | `ProvedEscrowIsCommitted` | `Spec => CommittedUntilExpiry` |
| | `ValidResultIsNotStranded` | `Spec => ResultNotStranded` |
| | `RecordsAreWriteOnce` | `Spec => RecordIsWriteOnce` |
| | `PagesShowTheTruth` | `Spec => []BadgesAreTrue` |
| `LifecycleProofs` | `LifecycleInvariant` | `LifecycleSpec => []LifecycleInv` |
| | `EvidenceFileIsTrue`, `OnlyCrashesRepeatRequests` | `LifecycleSpec => []EvidenceIsTrue`, `LifecycleSpec => []RequestPerCrash` |
| | `PaysTheShares` | `LifecycleSpec => []SettledByShares` |
| | `PaysWhatWasComputed` | `LifecycleSpec => []SettledAsComputed` |
| | `CoreHoldsUnderTheScript` | `LifecycleSpec => [](EscrowAccounted /\ SettlesOnOwnEvidence)` |
| | `LifecycleTakesCoreSteps` | `LifecycleSpec => [][CoreStep]_vars` |
| `ExtensionContainerProofs` | `ContainerInvariant` | `ContainerSpec => []ContainerInv` |
| | `SettlementsAreExact` | `ContainerSpec => []AllocationIsExact` |
| | `GoTakesContractSteps`, `PythonTakesContractSteps`, `TypeScriptTakesContractSteps` | `ContainerSpec => Go!Contract!ContractSafety`, and the same for `Python` and `TypeScript` |
| `ContractDeploymentProofs` | `DeploymentInvariant` | `DeploymentSpec => []DeploymentInv` |
| | `BindingIsTyped`, `NominationStaysCurrent`, `AdapterResolvesOldestClaim` | the three invariants of FccBinding, with the scripts running |
| | `BindingIsWriteOnce` | `DeploymentSpec => BindingWriteOnce` |
| | `ManifestStaysBound` | `DeploymentSpec => []ManifestIsBound` |
| | `ResultsComeFromInstructedExtension` | `DeploymentSpec => []CoreAndAdapterShareTheirExtension` |
| `TeeRegistrationProofs` | `RegTypeCorrect`, `FreshReportsAreTrue` | `RegSpec => []RegTypeOK`, `RegSpec => []FreshReportIsTrue` |
| | `RegInvariant`, `StateFileIsTrue` | `RegSpec => []RegInv`, `RegSpec => []FileIsTrue`, for the documented commands |
| `VerifyDeployProofs` | `VerifyInvariant` | `VerifySpec => []VerifyInv` |
| | `WrittenConfigsAreReady`, `PassedTestsWereServed` | `VerifySpec => []ConfigIsReady`, `VerifySpec => []PassedTestWasServed` |
| | `CleanReportsAreTrue` | `VerifySpec => []CleanReportIsReady` |
| | `VerifiedInstructionsArrive` | `VerifySpec => []VerifiedInstructionsReachTheirExtension` |

**Why a strengthening is needed.**  `EscrowAccounted` says what recipients of a
settled policy have received; it is not inductive.  `settle` makes it true only if
the authenticated result fits the policy (same recipients, amounts adding up to the
deposit), which was established two calls earlier by `_authenticateResult`; the next
transfer preserves it only if recipients are distinct (`_validateParticipants`) and
the open call pays what the stored result says, whatever was called meanwhile.
`EscrowInv` adds these facts: `PolicyWellFormed` (results fit, recipients distinct,
only created policies hold value), `FrameWellFormed` (the open call agrees with the
policy's new status) and `TypeOK`.  The proof has a lemma per function of the
contract; calls made while another call is open are not a special case, because the
lemmas assume nothing about `frame` beyond `FrameWellFormed`.

**Refinement.**  Initial states map to initial states.  Deposits map to `Deposit`,
`CallReturns` to `PayOut` or `Return` of the whole escrow, and every other action to
a stutter; the step of `CallReturns` uses `PaidByResult` and `ReturnedInFull` of
`EscrowInv` at the moment the loop is done.

**Deployment.**  `FccBindingProofs` holds what a step of the contracts preserves: types,
nominations, and that a resolved id is the oldest claim, because the registry only
grows at its end and the scan stops at the first match.  `ManifestIsBound` is not
inductive: the manifest is written long after the script learned what it writes, and
others act in between.  `DeploymentInv` therefore says what each running script
knows at each of its stages (`DeployKnows`, `ConfigureKnows`: from "ask core" on the
adapter of the run has its extension, from "ask machines" on Core has its registry).
Each such fact is about a binding that is written once.  Scripts change contracts only
by steps of `BindingNext`, so one lemma (`KnowledgeLasts`) carries all of them over every
step of every other process, and each action has to be looked at only for the
script that takes it.

**Evidence.**  That a policy settles on evidence of its own was established several
calls earlier, by other callers, and must survive everything in between.
`EvidenceInv` says per status which evidence a policy has (`StageEvidence`), and of
each piece that it is in the set of used digests or issued instructions and in no
other policy (`OwnProof`, `OwnInstruction`, `OwnResult`).  Each action is first reduced
to one of a few moves of a policy record from `c` to `d` (`LiveStatusMove`,
`EvidenceIsLiveMove` and the effect lemmas); the invariant and the four
properties are read off the moves, re-entrant ones included.  The refunded
status is the exception everywhere: it is reached from several stages, which is also
why the badge of a refunded policy's computation cannot be relied on.

**Solvency.**  A sum over all policies is an induction over data, but one that can be
stated with sets: `SumProofs` proves by well-founded induction over the proper-subset
order of a finite set that the fold of the community modules is the only solution of
its recursion, and from there that a sum changes by what one member changes, and that
it is that of another function if they agree.  `CoreIsSolvent` then has one
step per kind of payment; with `BadgesAreTrue` the sums are those over the recipients
of a settled policy (`SettledSum`, `UnsettledSum`).

**Registration.**  `RunInv`: a run without -resume that holds a check holds one of its own
machine, because it forgot the file when it began.  `FileInv` is about the file and the
tool together: the tool knows what the file says and perhaps more (a save may fail), the
attestation in the file is that of the last machine that was registered, and a check
in it is that machine's.  Preserving the last clause when `a` is confirmed after a
relaunch needs that `r` was done by the same file, which the code does not enforce:
hence `PreRegistersFirst`.

**Set-up and verification.**  No build, test or report holds a lock, and each acts on what
it saw before.  `SetupInv` and `VerifyInv` say what each of them knows at each of its
stages (`BuildIsTrue`, `TestIsTrue`, `SentIsTrue`, `ReportIsTrue`).  It stays true because
a chain's registry only grows and an entry keeps its sender and its roles
(`ChainsGrow`), and because a sender's id is written once (`IdsStay`).  `CleanReportIsReady`
needs one fact more: the report looks at the key type but not at the wallet project
owner, and pre-build.sh grants them in that order (`KeysComeLast`).
`VerifiedInstructionsReachTheirExtension` joins two facts about different moments: the id
of a sender is its oldest extension when it is bound (`BoundToOldest`), and R7 found
one extension of it at most among those counted before.  `OwnSenders` counts: no more
senders than builds that started.

**Orchestrator.**  The script acts on what it read or was told earlier, and others use
the policy in between.  `LifecycleInv` says that each piece of evidence, in memory as
on file, is true (`TrueEvidence`), which lasts because deposits, requests and Core's
record only grow (`DepositsGrow`, `RecordKept`); that the policy keeps the terms of the
draft (`RecordOfDraft`), also as the script read it (`ReadOfDraft`); that what the proxy
publishes, and what Core authenticated, is what the handler computed from the
instruction's message (`ComputedResult`), and that the message copies the draft if the
script sent it (`InstructionOfPolicy`); and which call is noted where
(`NotesCalls`): a request that is neither on file nor about to be saved was lost in a
crash, which is `RequestPerCrash`.  Each stage of the script is a step of Core or leaves it
alone (`LifecycleCoreStep`), so `EscrowInv` and `EvidenceInv` are taken over from Core
instead of proved again.  `PaysWhatWasComputed` joins three facts: the transfers follow
the authenticated result (`EscrowInv`), that result is the handler's for the
instruction's message (`LifecycleInv`), and each recipient occurs once in it.  It holds
whoever sent the instruction.  `PaysTheShares` adds that the script's message has the
policy's shares; without that the conclusion is false, as `lifecycle_shares` shows.

**Rounded shares.**  That parts rounded down, with the rest given to the last, add up to
the total and stay within bounds holds for lists of every length, which is again
an induction.  `SumProofs` bounds the sum of the remainders (`SumOfRemainders`,
`SumBounded`), and `RoundedShares` states the result with products instead of fractions
(`Over`: what a recipient gets above its exact share, times the denominator).
`SettlementsAreExact` then needs only that an answer on its way out is the one that
was computed from the client's own request (`AnswersAreComputed`, part of `TsInv`).

**Servers.**  The state the contract speaks of is not a variable of a server: it is
the application's state without the call that is under way.  So a step maps to the
contract only if at most one call is under way and no read overlaps it.  That is what
each server's invariant says in terms of its own mechanism: `GoInv` of the RWMutex (a
writer is alone, readers have copied fields that still have these values), `PyInv` of
the lock, `TsInv` of the promise chain (only its head is suspended).  Then the
effective step of an action is the one that stores its text and answers (`GoStores`,
`PyStores`, `TsResolves`), that of a read the one that answers, and counting, locking,
queueing and copying map to stutters.  `ContainerSteps` takes this to the container,
where the servers that do not run stutter.

**Only model-checked.**  Liveness under fairness (`core_live`, `Completes` in
`lifecycle`, `RerunsRegister` in `registration`, and in `extension` which requests
are answered), which is beyond this prover, as is ENABLED, on which `Lifecycle`'s guard
of a thrown error rests.  `GoKeepsContract`, `PythonKeepsContract` and
`TypeScriptKeepsContract` include liveness: proved is their safety part,
`ContractSafety`.  Every invariant and every action property of the passing runs is proved.

## 6. Abstractions, bounds and fairness

Abstractions common to all modules:

* A hash is the tagged tuple of what is hashed (injective).  Signatures are the name
  of the signer.  Encoding and decoding is an outcome: it works or it does not.
* Timestamps that are only written, events, log lines and error texts are left out.
* A transaction takes effect in one step or, if it reverts, not at all; the mempool
  is the freedom of when.  A receipt that is missed is modelled where a tool waits
  for it with a limit (TeeRegistration, ExtensionSetup); the orchestrator waits
  without one, and is modelled by crashes.
* Amounts need no width: `fundPolicy` rejects what exceeds `targetAmount`, so no
  sum leaves the range of its type.
* The call to the instruction sender in `sendComputationInstruction` is one step
  with it; the sender is the adapter, which calls only Flare's registry.
* Extension servers: requests use GET and POST.  A data.message, DataFixed, opType or
  opCommand may be of any JSON type; an originalMessage is a string.  A handler of the
  TypeScript server may suspend but does not reject, because the one it registers
  catches whatever its computation throws.
* Configuration: configureTeeRegistry's address and its check against zero are left out;
  no property speaks of the address.
* The evidence file is written in one step: a crash within writeFile, which would leave a
  file that does not parse, is not modelled.
* What pre-build.sh writes as EXTENSION_ID has the form verify-deploy asks for, so the
  early return of R2 for a malformed one (checks.go:355) is never taken.
* A manifest is written in one step; a run that finds it half written stops before it
  does anything.  Another run of deploy.ts deploys another Core and is another instance.
* Set-up: the chain is chosen per command; start-services.sh takes the extension id
  from the config file (an EXTENSION_ID in `.env` is not modelled).
* Registration: removing the state file works; promoting a machine that is in
  production with a valid proof succeeds; the two tools before register-tee run
  with -resume, too (they do nothing if there is nothing to do); `-i` is not used.

Bounds and why they suffice for what is asked:

* Two policies are enough for one to use another's evidence or escrow, two
  recipients for a transfer loop to be interrupted half way, and times up to an
  expiry of 2 to have a before, an at and an after.  Four basis points allow even
  and uneven splits.  Every compared field of a result has a wrong value in some
  result.
* Two crashes, so that a rerun is interrupted again.  Three messages of another client:
  one with other shares, one with a nonce Core does not wait for, one the handler
  throws on.
* Two runs of configure-fcc.ts, so that one acts on what the other changed; two adapters
  and three extensions, so that an adapter has two claims and a foreign one lies between.
* Three clients: a writer, a second writer and a reader inside a server at once.
  One client sends anything, the other two what reads or changes the state.
* The handler splits seven basis points and totals up to nine: every remainder of
  the division occurs, and totals below, at and above the denominator.
* Two launches and a challenge that can expire as soon as it is issued: every saved
  id can go stale.  Two failures: a lost receipt followed by a failed rerun.
* Two builds on two chains: a config can be replaced between its reading and use, one
  sender can get two extensions, and the same sender address can mean different
  extensions.  Another party's extension on a chain shifts its ids.  One failed lookup
  per verification, in any of its checks.  The step `all` is the concatenation of the
  others and not among the flags of the run.

Symmetry is used only in runs without liveness, over policy ids, instruction ids and
proof digests, which the specification treats alike.

CHECK_DEADLOCK is FALSE where the system really stops: clients that send one request
each, and tools that are finished.

Fairness:

* `LiveSpec` (Core): time passes; a started call runs to its end (it is one
  transaction); the owner of an expired policy keeps asking for its refund.  Strong
  fairness of `refundPolicy`, because a call of another policy may be open whenever
  it is looked at.  Nothing is assumed of settlement, the TEE or the recipients.
* `LiveLifecycle`: the script runs, and is rerun by its operator when it stopped; the
  FDC round becomes final; the proxy answers.  Time need not pass.
* Servers: weak fairness of each request's steps, which the Go scheduler, the
  operating system and the event loop give.  With one request per client a lock is
  not taken again and again, so weak fairness is enough.
* `RegFairSpec`: the tool runs, providers answer for a running node, and the operator
  starts it without -resume again and again (strong fairness, because other runs
  come in between); failures and relaunches are finitely many.

## 7. Not modelled

* Checks of verify-deploy that never fail a report (S5 to S10, V2, V6, T1 to T10, E3, E6):
  they look at ports, environment variables and proxies.  audit-deploy only lists what
  is on chain.
* `LifecycleProvider.tsx` and the pages: the browser's selection and history, and calls a
  wallet sends, which are Core's actions and covered there for any caller.
  `validation.ts` checks a form before Core checks the same.
* `generate-frontend-abi.ts` copies an ABI.
* Service scripts beyond which extension and chain they serve, Docker entry points,
  start-proxy, query-tee: process management.
* Encoding helpers, revert decoding, generated bindings and ABIs: byte formats.
* Mock contracts, tests and conformance data.
* Flare's own contracts and services, except for what the code above relies on.  In
  particular, an instruction sender other than the adapter, which could call back
  into `sendComputationInstruction`: Core is configured with the adapter once.

## 8. Plan

Done, in this order:

* **A. Core** - `FccBinding`, `AurelithCore`, `Escrow`, `AurelithEscrow`, and their
  proofs.
* **B. What drives Core** - `SettlementCompute`, `Lifecycle`.
* **C. The FCC extension** - `ExtensionContract` and three implementations,
  composed in `ExtensionContainer`; `TeeRegistration`, `ExtensionSetup`.
* **D. Deployment** - `ContractDeployment` and its proofs; `VerifyDeploy` composed with
  `ExtensionSetup`, services and several chains.
* **E. Web application** - `PolicyPages`.
* **F. Shutdown and rejecting handlers** in `TypeScriptExtension`.
* **G. Proofs** of evidence, solvency, registration, set-up and verification (section 5).
* **H. Proofs of `Lifecycle`**: the evidence file, repeated requests and the shares, from
  an inductive invariant of the script composed with Core.
* **I. Proofs of the servers**: one call at a time, the safety part of
  `ExtensionContract` for each language, and the exactness of every allocation.
* **J. What others send**: instructions of the owner's other client, and with them what a
  settlement promises in general (`SettledAsComputed`); requests whose JSON values have
  another type.

Left: the two hazards of `PROJECT.json` without a property, which lie in an instruction
sender that calls back and in the browser's state (section 7).
