----------------------------- MODULE FccBinding -----------------------------
(***************************************************************************)
(* How AURELITH Core is bound to Flare Confidential Compute: the           *)
(* result-authorizer role and the two one-time configuration calls of      *)
(* AurelithProtocol.sol, and the adapter AurelithFccInstructionSender.sol, *)
(* which finds its own extension id in Flare's extension registry.         *)
(*                                                                         *)
(* The registry and the active TEE set belong to Flare and are modelled    *)
(* from how the two contracts read them: extension ids are handed out in   *)
(* order, each with the instruction sender named at registration, and the  *)
(* set of active machines of an extension changes at any time.             *)
(*                                                                         *)
(* Extension id k stands for the on-chain id 0x10000 + k - 1; 0 is "none". *)
(***************************************************************************)
EXTENDS Integers, Sequences

CONSTANTS
  Operators,      \* accounts that may hold or be offered the authorizer role
  Deployer,       \* the account that deploys Core
  ZeroAddress,    \* address(0)
  Adapters,       \* deployed AurelithFccInstructionSender contracts
  Tees,           \* TEE signing keys
  MaxExtensions   \* bound on registered extensions

ASSUME BindingAssumption ==
  /\ Deployer \in Operators
  /\ ZeroAddress \notin Operators \cup Adapters \cup Tees
  /\ MaxExtensions \in Nat \ {0}

ExtensionIds == 1 .. MaxExtensions

VARIABLES
  resultAuthorizer,
  pendingResultAuthorizer,
  nominator,             \* history: who made the pending nomination
  teeExtensionId,        \* 0 until configureTeeRegistry
  fccInstructionSender,  \* ZeroAddress until configureInstructionSender
  extensionId,           \* each adapter's own extension id, 0 until resolved
  extensions,            \* the registry: instruction sender of every extension
  activeTees             \* the registry: active machines of every extension

bindingVars == <<resultAuthorizer, pendingResultAuthorizer, nominator,
                 teeExtensionId, fccInstructionSender, extensionId,
                 extensions, activeTees>>
roleVars     == <<resultAuthorizer, pendingResultAuthorizer, nominator>>
configVars   == <<teeExtensionId, fccInstructionSender>>
registryVars == <<extensionId, extensions, activeTees>>

teeRegistryConfigured == teeExtensionId # 0

\* Every role, configuration and registry variable has its type.
BindingTypeOK ==
  /\ resultAuthorizer \in Operators
  /\ pendingResultAuthorizer \in Operators \cup {ZeroAddress}
  /\ nominator \in Operators \cup {ZeroAddress}
  /\ teeExtensionId \in 0 .. MaxExtensions
  /\ fccInstructionSender \in Adapters \cup {ZeroAddress}
  /\ extensionId \in [Adapters -> 0 .. MaxExtensions]
  /\ extensions \in Seq(Adapters) /\ Len(extensions) <= MaxExtensions
  /\ activeTees \in [ExtensionIds -> SUBSET Tees]

BindingInit ==
  /\ resultAuthorizer = Deployer
  /\ pendingResultAuthorizer = ZeroAddress
  /\ nominator = ZeroAddress
  /\ teeExtensionId = 0
  /\ fccInstructionSender = ZeroAddress
  /\ extensionId = [a \in Adapters |-> 0]
  /\ extensions = <<>>
  /\ activeTees = [e \in ExtensionIds |-> {}]

-----------------------------------------------------------------------------
(* The authorizer role of Core, handed over in two steps. *)

startResultAuthorizerTransfer(sender, newAuthorizer) ==
  /\ sender = resultAuthorizer
  /\ newAuthorizer # ZeroAddress
  /\ pendingResultAuthorizer' = newAuthorizer
  /\ nominator' = sender
  /\ UNCHANGED <<resultAuthorizer, configVars, registryVars>>

\* A bug to rule out: the nomination survives the handover.
acceptKeepsNomination(sender) ==
  /\ sender = pendingResultAuthorizer
  /\ resultAuthorizer' = sender
  /\ UNCHANGED <<pendingResultAuthorizer, nominator, configVars, registryVars>>

acceptResultAuthorizerRole(sender) ==
  /\ sender = pendingResultAuthorizer
  /\ resultAuthorizer' = sender
  /\ pendingResultAuthorizer' = ZeroAddress
  /\ nominator' = ZeroAddress
  /\ UNCHANGED <<configVars, registryVars>>

-----------------------------------------------------------------------------
(* One-time configuration of Core. *)

\* A bug to rule out: the registry can be pointed elsewhere later.
configureTeeRegistryAgain(sender, id) ==
  /\ sender = resultAuthorizer
  /\ id # 0
  /\ teeExtensionId' = id
  /\ UNCHANGED <<roleVars, fccInstructionSender, registryVars>>

configureTeeRegistry(sender, id) ==
  /\ sender = resultAuthorizer
  /\ ~teeRegistryConfigured
  /\ id # 0
  /\ teeExtensionId' = id
  /\ UNCHANGED <<roleVars, fccInstructionSender, registryVars>>

\* The adapter is accepted before it has resolved its extension id.
configureInstructionSender(sender, adapter) ==
  /\ sender = resultAuthorizer
  /\ fccInstructionSender = ZeroAddress
  /\ adapter # ZeroAddress
  /\ fccInstructionSender' = adapter
  /\ UNCHANGED <<roleVars, teeExtensionId, registryVars>>

-----------------------------------------------------------------------------
(* The adapter. *)

Claims(adapter) == {i \in 1 .. Len(extensions) : extensions[i] = adapter}

\* Bugs to rule out: the ids are counted from one too high; the scan keeps the
\* last match instead of the first.
setExtensionIdShifted(adapter) ==
  /\ extensionId[adapter] = 0
  /\ \E i \in Claims(adapter) :
       /\ \A j \in Claims(adapter) : i <= j
       /\ extensionId' = [extensionId EXCEPT ![adapter] = i + 1]
  /\ UNCHANGED <<roleVars, configVars, extensions, activeTees>>
setExtensionIdLast(adapter) ==
  /\ extensionId[adapter] = 0
  /\ \E i \in Claims(adapter) :
       /\ \A j \in Claims(adapter) : j <= i
       /\ extensionId' = [extensionId EXCEPT ![adapter] = i]
  /\ UNCHANGED <<roleVars, configVars, extensions, activeTees>>

\* Anyone may call it; the first extension naming this adapter wins.
setExtensionId(adapter) ==
  /\ extensionId[adapter] = 0
  /\ \E i \in Claims(adapter) :
       /\ \A j \in Claims(adapter) : i <= j
       /\ extensionId' = [extensionId EXCEPT ![adapter] = i]
  /\ UNCHANGED <<roleVars, configVars, extensions, activeTees>>

-----------------------------------------------------------------------------
(* Flare's registries (external). *)

RegisterExtension(adapter) ==
  /\ Len(extensions) < MaxExtensions
  /\ extensions' = Append(extensions, adapter)
  /\ UNCHANGED <<roleVars, configVars, extensionId, activeTees>>

ChangeActiveTees(e, active) ==
  /\ e <= Len(extensions)
  /\ activeTees' = [activeTees EXCEPT ![e] = active]
  /\ UNCHANGED <<roleVars, configVars, extensionId, extensions>>

BindingNext ==
  \/ \E s \in Operators, n \in Operators \cup {ZeroAddress} :
       startResultAuthorizerTransfer(s, n)
  \/ \E s \in Operators : acceptResultAuthorizerRole(s)
  \/ \E s \in Operators, id \in 0 .. MaxExtensions :
       configureTeeRegistry(s, id)
  \/ \E s \in Operators, a \in Adapters \cup {ZeroAddress} :
       configureInstructionSender(s, a)
  \/ \E a \in Adapters : setExtensionId(a)
  \/ \E a \in Adapters : RegisterExtension(a)
  \/ \E e \in ExtensionIds, active \in SUBSET Tees : ChangeActiveTees(e, active)

BindingSpec == BindingInit /\ [][BindingNext]_bindingVars

-----------------------------------------------------------------------------
(* What the binding promises. *)

\* A pending nomination was made by the account that holds the authorizer role
\* now: no handover leaves a former authorizer's nomination behind
\* (startResultAuthorizerTransfer / acceptResultAuthorizerRole).
NominationIsCurrent ==
  pendingResultAuthorizer # ZeroAddress => nominator = resultAuthorizer

\* The extension an adapter sends its instructions to is one that names this
\* adapter, and the oldest such extension, however many are registered later
\* (setExtensionId's scan from the first public id).
ResolvedExtensionIsOldestClaim ==
  \A a \in Adapters : extensionId[a] # 0 =>
    /\ extensionId[a] \in Claims(a)
    /\ \A i \in Claims(a) : extensionId[a] <= i

\* Core's registry id, Core's adapter and an adapter's extension id are each
\* written once and never change (configureTeeRegistry,
\* configureInstructionSender, setExtensionId), whoever holds the role.
BindingWriteOnce ==
  [][ /\ teeExtensionId # 0 => teeExtensionId' = teeExtensionId
      /\ fccInstructionSender # ZeroAddress
           => fccInstructionSender' = fccInstructionSender
      /\ \A a \in Adapters :
           extensionId[a] # 0 => extensionId'[a] = extensionId[a]
    ]_bindingVars
=============================================================================
