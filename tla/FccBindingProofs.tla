-------------------------- MODULE FccBindingProofs --------------------------
(***************************************************************************)
(* What every step of FccBinding keeps, for any number of operators,       *)
(* adapters, extensions and machines.  The modules that embed the binding  *)
(* in their own specification (AurelithCore, ContractDeployment) take      *)
(* their theorems from these lemmas.                                       *)
(***************************************************************************)
EXTENDS FccBinding, TLAPS

-----------------------------------------------------------------------------
(* The binding to FCC keeps its types. *)

\* The constructor leaves a well-typed binding.
LEMMA BindingInitType == BindingInit => BindingTypeOK
  BY BindingAssumption DEF BindingInit, BindingTypeOK, ExtensionIds

\* Every role, configuration, adapter and registry step keeps the types.
LEMMA BindingNextType == BindingTypeOK /\ [BindingNext]_bindingVars => BindingTypeOK'
<1> SUFFICES ASSUME BindingTypeOK, [BindingNext]_bindingVars
             PROVE  BindingTypeOK'
  OBVIOUS
<1> USE BindingAssumption DEF BindingTypeOK, ExtensionIds, roleVars, configVars,
        registryVars
<1>1. ASSUME NEW s \in Operators, NEW n \in Operators \cup {ZeroAddress},
             startResultAuthorizerTransfer(s, n)
      PROVE  BindingTypeOK'
  BY <1>1 DEF startResultAuthorizerTransfer
<1>2. ASSUME NEW s \in Operators, acceptResultAuthorizerRole(s)
      PROVE  BindingTypeOK'
  BY <1>2 DEF acceptResultAuthorizerRole
<1>3. ASSUME NEW s \in Operators, NEW id \in 0 .. MaxExtensions,
             configureTeeRegistry(s, id)
      PROVE  BindingTypeOK'
  BY <1>3 DEF configureTeeRegistry
<1>4. ASSUME NEW s \in Operators, NEW a \in Adapters \cup {ZeroAddress},
             configureInstructionSender(s, a)
      PROVE  BindingTypeOK'
  BY <1>4 DEF configureInstructionSender
<1>5. ASSUME NEW a \in Adapters, setExtensionId(a)
      PROVE  BindingTypeOK'
  <2>1. PICK i \in Claims(a) : extensionId' = [extensionId EXCEPT ![a] = i]
    BY <1>5 DEF setExtensionId
  <2>2. extensionId' \in [Adapters -> 0 .. MaxExtensions]
    BY <2>1 DEF Claims
  <2> QED
    BY <1>5, <2>2 DEF setExtensionId
<1>6. ASSUME NEW a \in Adapters, RegisterExtension(a)
      PROVE  BindingTypeOK'
  BY <1>6 DEF RegisterExtension
<1>7. ASSUME NEW e \in ExtensionIds, NEW active \in SUBSET Tees,
             ChangeActiveTees(e, active)
      PROVE  BindingTypeOK'
  BY <1>7 DEF ChangeActiveTees
<1>8. CASE UNCHANGED bindingVars
  BY <1>8 DEF bindingVars
<1> QED
  BY <1>1, <1>2, <1>3, <1>4, <1>5, <1>6, <1>7, <1>8 DEF BindingNext

-----------------------------------------------------------------------------
(* Role, registry search and write-once configuration. *)

\* The invariant of the binding: a nomination is the current authorizer's, and
\* a resolved extension is the oldest claim of its adapter.
BindingInv == BindingTypeOK /\ NominationIsCurrent /\ ResolvedExtensionIsOldestClaim

\* Nothing is nominated or resolved at first.
LEMMA BindingInitInv == BindingInit => BindingInv
<1> SUFFICES ASSUME BindingInit PROVE BindingInv
  OBVIOUS
<1>1. NominationIsCurrent
  BY DEF BindingInit, NominationIsCurrent
<1>2. ResolvedExtensionIsOldestClaim
  BY DEF BindingInit, ResolvedExtensionIsOldestClaim
<1> QED
  BY <1>1, <1>2, BindingInitType DEF BindingInv

\* What setExtensionId stores is the oldest claim.
LEMMA setExtensionIdFindsOldest ==
  ASSUME BindingTypeOK, NEW a \in Adapters, setExtensionId(a)
  PROVE  /\ extensionId[a] = 0
         /\ extensionId'[a] \in Claims(a)
         /\ \A j \in Claims(a) : extensionId'[a] <= j
         /\ \A b \in Adapters \ {a} : extensionId'[b] = extensionId[b]
         /\ UNCHANGED <<roleVars, configVars, extensions, activeTees>>
<1>1. PICK i \in Claims(a) : /\ \A j \in Claims(a) : i <= j
                             /\ extensionId' = [extensionId EXCEPT ![a] = i]
  BY DEF setExtensionId
<1>2. extensionId'[a] = i /\ \A b \in Adapters \ {a} : extensionId'[b] = extensionId[b]
  BY <1>1 DEF BindingTypeOK
<1> QED
  BY <1>1, <1>2 DEF setExtensionId

\* A new extension is no older claim than those already there.
LEMMA RegisterKeepsClaims ==
  ASSUME BindingTypeOK, NEW a \in Adapters, RegisterExtension(a), NEW b \in Adapters
  PROVE  /\ Claims(b) \subseteq Claims(b)'
         /\ \A i \in Claims(b)' : i \in Claims(b) \/ i = Len(extensions) + 1
<1>1. extensions \in Seq(Adapters) /\ extensions' = Append(extensions, a)
  BY DEF RegisterExtension, BindingTypeOK
<1>2. /\ Len(extensions') = Len(extensions) + 1 /\ Len(extensions) \in Nat
      /\ \A i \in 1 .. Len(extensions) : extensions'[i] = extensions[i]
  BY <1>1
<1> QED
  BY <1>2 DEF Claims

\* Every step of the binding keeps the nomination current: both are overwritten
\* together.
LEMMA BindingNextNomination ==
  BindingTypeOK /\ NominationIsCurrent /\ [BindingNext]_bindingVars => NominationIsCurrent'
<1> SUFFICES ASSUME BindingTypeOK, NominationIsCurrent, [BindingNext]_bindingVars
             PROVE  NominationIsCurrent'
  OBVIOUS
<1>1. CASE UNCHANGED roleVars
  BY <1>1 DEF NominationIsCurrent, roleVars
<1>2. ASSUME NEW s, NEW n, startResultAuthorizerTransfer(s, n)
      PROVE  NominationIsCurrent'
  BY <1>2 DEF startResultAuthorizerTransfer, NominationIsCurrent
<1>3. ASSUME NEW s, acceptResultAuthorizerRole(s)
      PROVE  NominationIsCurrent'
  BY <1>3 DEF acceptResultAuthorizerRole, NominationIsCurrent
<1> QED
  BY <1>1, <1>2, <1>3 DEF BindingNext, configureTeeRegistry, configureInstructionSender,
     setExtensionId, RegisterExtension, ChangeActiveTees, bindingVars, roleVars

\* Every step of the binding keeps resolved extensions the oldest claims.
LEMMA BindingNextOldest ==
  BindingTypeOK /\ ResolvedExtensionIsOldestClaim /\ [BindingNext]_bindingVars
    => ResolvedExtensionIsOldestClaim'
<1> SUFFICES ASSUME BindingTypeOK, ResolvedExtensionIsOldestClaim,
                    [BindingNext]_bindingVars
             PROVE  ResolvedExtensionIsOldestClaim'
  OBVIOUS
<1>1. CASE UNCHANGED <<extensionId, extensions>>
  BY <1>1 DEF ResolvedExtensionIsOldestClaim, Claims
<1>2. ASSUME NEW a \in Adapters, setExtensionId(a)
      PROVE  ResolvedExtensionIsOldestClaim'
  <2>1. \A b \in Adapters : Claims(b)' = Claims(b)
    BY <1>2, setExtensionIdFindsOldest DEF Claims
  <2> QED
    BY <1>2, <2>1, setExtensionIdFindsOldest DEF ResolvedExtensionIsOldestClaim
<1>3. ASSUME NEW a \in Adapters, RegisterExtension(a)
      PROVE  ResolvedExtensionIsOldestClaim'
  <2> SUFFICES ASSUME NEW b \in Adapters, extensionId[b] # 0
               PROVE  /\ extensionId[b] \in Claims(b)'
                      /\ \A i \in Claims(b)' : extensionId[b] <= i
    BY <1>3 DEF ResolvedExtensionIsOldestClaim, RegisterExtension
  <2>1. extensionId[b] \in Claims(b) /\ \A i \in Claims(b) : extensionId[b] <= i
    BY DEF ResolvedExtensionIsOldestClaim
  <2>2. extensionId[b] <= Len(extensions) + 1
    BY <2>1 DEF Claims, BindingTypeOK
  <2> QED
    BY <1>3, <2>1, <2>2, RegisterKeepsClaims
<1> QED
  BY <1>1, <1>2, <1>3 DEF BindingNext, configureTeeRegistry, configureInstructionSender,
     startResultAuthorizerTransfer, acceptResultAuthorizerRole, ChangeActiveTees,
     bindingVars, registryVars

\* The invariant of the binding is inductive.
LEMMA BindingNextInv == BindingInv /\ [BindingNext]_bindingVars => BindingInv'
  BY BindingNextType, BindingNextNomination, BindingNextOldest DEF BindingInv

\* A step leaves what is configured or resolved as it is.
WrittenOnce ==
  /\ teeExtensionId # 0 => teeExtensionId' = teeExtensionId
  /\ fccInstructionSender # ZeroAddress => fccInstructionSender' = fccInstructionSender
  /\ \A a \in Adapters : extensionId[a] # 0 => extensionId'[a] = extensionId[a]

\* Every configuration call and search demands that nothing is there yet.
LEMMA BindingNextWritesOnce == BindingTypeOK /\ [BindingNext]_bindingVars => WrittenOnce
<1> SUFFICES ASSUME BindingTypeOK, [BindingNext]_bindingVars
             PROVE  WrittenOnce
  OBVIOUS
<1>1. CASE UNCHANGED <<configVars, extensionId>>
  BY <1>1 DEF WrittenOnce, configVars
<1>2. ASSUME NEW s, NEW id, configureTeeRegistry(s, id)
      PROVE  WrittenOnce
  BY <1>2 DEF WrittenOnce, configureTeeRegistry, teeRegistryConfigured, registryVars
<1>3. ASSUME NEW s, NEW a, configureInstructionSender(s, a)
      PROVE  WrittenOnce
  BY <1>3 DEF WrittenOnce, configureInstructionSender, registryVars
<1>4. ASSUME NEW a \in Adapters, setExtensionId(a)
      PROVE  WrittenOnce
  BY <1>4, setExtensionIdFindsOldest DEF WrittenOnce, configVars
<1> QED
  BY <1>1, <1>2, <1>3, <1>4 DEF BindingNext, startResultAuthorizerTransfer,
     acceptResultAuthorizerRole, RegisterExtension, ChangeActiveTees, bindingVars,
     configVars, registryVars
=============================================================================
