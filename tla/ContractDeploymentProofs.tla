---------------------- MODULE ContractDeploymentProofs ----------------------
(***************************************************************************)
(* Proofs about ContractDeployment, for any number of operators, adapters, *)
(* extensions and runs of configure-fcc.ts.                                *)
(*                                                                         *)
(* A script changes the contracts only through their own functions, so its *)
(* steps are steps of FccBinding or leave it alone.  What the manifest     *)
(* says is established several steps before it is written; ScriptsInv      *)
(* says what a script knows at each stage, and that nobody can undo it     *)
(* because every binding is written once.                                  *)
(***************************************************************************)
EXTENDS ContractDeployment, FccBindingProofs

\* Stages of a run of configure-fcc.ts that has read the manifest, at which the
\* adapter has its extension, and at which Core has its registry.
Resolved == {"ask core", "configure core", "ask machines", "write manifest"}
Bound == {"ask machines", "write manifest"}
Reading == {"ask adapter", "resolve"} \cup Resolved
DeployStages == {"deploy adapter", "configure core", "write manifest", "ended"}

ScriptTypeOK ==
  /\ deploy \in [stage: DeployStages, adapter: Adapters \cup {NoAdapter}]
  /\ manifest \in [adapter: Adapters \cup {NoAdapter}, extensionId: {0, EXTENSION_ID}]
  /\ configure \in [Configurers -> [stage: Reading \cup {"start", "ended"},
                                    adapter: Adapters \cup {NoAdapter}]]

\* The run of deploy.ts knows its adapter once it is deployed, and that Core has
\* it once the configuration is confirmed.
DeployKnows ==
  /\ deploy.stage \in {"configure core", "write manifest"} => deploy.adapter \in Adapters
  /\ deploy.stage = "write manifest" => deploy.adapter = fccInstructionSender

\* What a run of configure-fcc.ts has seen so far still holds.
ConfigureKnows(r) ==
  /\ configure[r].stage \in Reading =>
       configure[r].adapter \in Adapters /\ configure[r].adapter = fccInstructionSender
  /\ configure[r].stage \in Resolved => extensionId[configure[r].adapter] # 0
  /\ configure[r].stage \in Bound => teeRegistryConfigured

\* A complete manifest names an adapter.
ManifestHasAdapter == manifest.extensionId # 0 => manifest.adapter \in Adapters

ScriptsInv ==
  /\ ScriptTypeOK
  /\ DeployKnows
  /\ \A r \in Configurers : ConfigureKnows(r)
  /\ ManifestHasAdapter
  /\ ManifestIsBound

DeploymentInv == BindingInv /\ ScriptsInv

-----------------------------------------------------------------------------

\* No script has started and there is no manifest.
LEMMA DeploymentInitInv == DeploymentInit => DeploymentInv
<1> SUFFICES ASSUME DeploymentInit PROVE DeploymentInv
  OBVIOUS
<1>1. BindingInv
  BY BindingInitInv DEF DeploymentInit
<1>2. ScriptTypeOK
  BY DEF DeploymentInit, ScriptTypeOK, DeployStages
<1>3. DeployKnows /\ ManifestHasAdapter /\ ManifestIsBound
  BY DEF DeploymentInit, DeployKnows, ManifestHasAdapter, ManifestIsBound
<1>4. \A r \in Configurers : ConfigureKnows(r)
  BY DEF DeploymentInit, ConfigureKnows, Reading, Resolved, Bound
<1> QED
  BY <1>1, <1>2, <1>3, <1>4 DEF DeploymentInv, ScriptsInv

\* To the contracts, a step of a script is a call anybody might have made, or
\* nothing at all.
LEMMA ScriptsUseTheContracts ==
  DeploymentInv /\ [DeploymentNext]_deploymentVars => [BindingNext]_bindingVars
<1> SUFFICES ASSUME DeploymentInv, [DeploymentNext]_deploymentVars
             PROVE  [BindingNext]_bindingVars
  OBVIOUS
<1>1. ASSUME deployConfiguresCore
      PROVE  BindingNext
  <2>1. deploy.adapter \in Adapters /\ Deployer \in Operators
    BY <1>1, BindingAssumption
    DEF DeploymentInv, ScriptsInv, DeployKnows, deployConfiguresCore
  <2> QED
    BY <1>1, <2>1 DEF deployConfiguresCore, BindingNext
<1>2. ASSUME NEW r \in Configurers, resolveExtension(r)
      PROVE  BindingNext
  <2>1. configure[r].adapter \in Adapters
    BY <1>2 DEF DeploymentInv, ScriptsInv, ConfigureKnows, Reading, resolveExtension, Goes
  <2> QED
    BY <1>2, <2>1 DEF resolveExtension, BindingNext
<1>3. ASSUME NEW r \in Configurers, configureCore(r)
      PROVE  BindingNext
  <2>1. EXTENSION_ID \in 0 .. MaxExtensions /\ Deployer \in Operators
    BY DeploymentAssumption, BindingAssumption DEF ExtensionIds
  <2> QED
    BY <1>3, <2>1 DEF configureCore, BindingNext
<1> QED
  BY <1>1, <1>2, <1>3
  DEF DeploymentNext, deploymentVars, deployAdapter, deployWritesManifest, deployStops,
      readManifest, askAdapter, askCore, askMachines, completeManifest, configureStops

\* While the scripts stand still, nothing anybody does to the contracts undoes
\* what they know.
LEMMA KnowledgeLasts ==
  ASSUME DeploymentInv, [BindingNext]_bindingVars
  PROVE  /\ \A a \in Adapters : a = fccInstructionSender => a = fccInstructionSender'
         /\ \A a \in Adapters : extensionId[a] # 0 => extensionId'[a] # 0
         /\ teeRegistryConfigured => teeRegistryConfigured'
<1>1. WrittenOnce
  BY BindingNextWritesOnce DEF DeploymentInv, BindingInv
<1>2. \A a \in Adapters : a # ZeroAddress
  BY BindingAssumption
<1> QED
  BY <1>1, <1>2 DEF WrittenOnce, teeRegistryConfigured

\* The scripts keep their types.
LEMMA ScriptsType ==
  DeploymentInv /\ [DeploymentNext]_deploymentVars => ScriptTypeOK'
<1> SUFFICES ASSUME DeploymentInv, [DeploymentNext]_deploymentVars
             PROVE  ScriptTypeOK'
  OBVIOUS
<1> USE DEF ScriptTypeOK, DeployStages, Reading, Resolved
<1>0. ScriptTypeOK
  BY DEF DeploymentInv, ScriptsInv
<1>1. ASSUME NEW a \in Adapters, deployAdapter(a)
      PROVE  ScriptTypeOK'
  BY <1>0, <1>1 DEF deployAdapter
<1>2. CASE deployConfiguresCore
  BY <1>0, <1>2 DEF deployConfiguresCore
<1>3. CASE deployWritesManifest
  BY <1>0, <1>3 DEF deployWritesManifest
<1>4. CASE deployStops
  BY <1>0, <1>4 DEF deployStops
<1>5. ASSUME NEW r \in Configurers, NEW from, NEW to \in Reading, Goes(r, from, to)
      PROVE  ScriptTypeOK'
  BY <1>0, <1>5 DEF Goes
<1>6. ASSUME NEW r \in Configurers, readManifest(r)
      PROVE  ScriptTypeOK'
  BY <1>0, <1>6 DEF readManifest
<1>7. ASSUME NEW r \in Configurers, completeManifest(r)
      PROVE  ScriptTypeOK'
  BY <1>0, <1>7 DEF completeManifest
<1>8. ASSUME NEW r \in Configurers, configureStops(r)
      PROVE  ScriptTypeOK'
  BY <1>0, <1>8 DEF configureStops
<1>9. ASSUME NEW r \in Configurers, askAdapter(r) \/ askCore(r)
      PROVE  ScriptTypeOK'
  <2>1. \E from, to : to \in Reading /\ Goes(r, from, to)
    BY <1>9 DEF askAdapter, askCore
  <2> QED
    BY <1>5, <2>1
<1>10. ASSUME NEW r \in Configurers,
              resolveExtension(r) \/ configureCore(r) \/ askMachines(r)
       PROVE  ScriptTypeOK'
  <2>1. \E from, to : to \in Reading /\ Goes(r, from, to)
    BY <1>10 DEF resolveExtension, configureCore, askMachines
  <2> QED
    BY <1>5, <2>1
<1>11. CASE UNCHANGED scriptVars
  BY <1>0, <1>11 DEF scriptVars
<1> QED
  BY <1>1, <1>2, <1>3, <1>4, <1>6, <1>7, <1>8, <1>9, <1>10, <1>11
  DEF DeploymentNext, deploymentVars

\* deploy.ts goes on to the next stage only with what that stage relies on.
LEMMA DeployStillKnows ==
  DeploymentInv /\ [DeploymentNext]_deploymentVars => DeployKnows'
<1> SUFFICES ASSUME DeploymentInv, [DeploymentNext]_deploymentVars
             PROVE  DeployKnows'
  OBVIOUS
<1>0. DeployKnows /\ ScriptTypeOK
  BY DEF DeploymentInv, ScriptsInv
<1>1. ASSUME NEW a \in Adapters, deployAdapter(a)
      PROVE  DeployKnows'
  BY <1>1 DEF DeployKnows, deployAdapter
<1>2. CASE deployConfiguresCore
  BY <1>0, <1>2 DEF DeployKnows, ScriptTypeOK, deployConfiguresCore,
     configureInstructionSender
<1>3. CASE deployWritesManifest \/ deployStops
  BY <1>0, <1>3 DEF DeployKnows, ScriptTypeOK, deployWritesManifest, deployStops
<1>4. CASE UNCHANGED deploy
  BY <1>0, <1>4, ScriptsUseTheContracts, KnowledgeLasts DEF DeployKnows
<1> QED
  BY <1>1, <1>2, <1>3, <1>4
  DEF DeploymentNext, deploymentVars, scriptVars, readManifest, askAdapter,
      resolveExtension, askCore, configureCore, askMachines, completeManifest,
      configureStops, Goes

\* configure-fcc.ts goes on to the next stage only with what that stage relies
\* on: what it has read, or what its own transaction has just made so.
LEMMA ConfigureStillKnows ==
  DeploymentInv /\ [DeploymentNext]_deploymentVars
    => \A q \in Configurers : ConfigureKnows(q)'
<1> SUFFICES ASSUME DeploymentInv, [DeploymentNext]_deploymentVars,
                    NEW q \in Configurers
             PROVE  ConfigureKnows(q)'
  OBVIOUS
<1> USE DEF Reading, Resolved, Bound, teeRegistryConfigured
<1>0. ConfigureKnows(q) /\ ScriptTypeOK /\ BindingTypeOK
  BY DEF DeploymentInv, ScriptsInv, BindingInv
<1>a. /\ \A a \in Adapters : a = fccInstructionSender => a = fccInstructionSender'
      /\ \A a \in Adapters : extensionId[a] # 0 => extensionId'[a] # 0
      /\ teeRegistryConfigured => teeRegistryConfigured'
  BY ScriptsUseTheContracts, KnowledgeLasts
<1>1. CASE configure'[q] = configure[q]
  BY <1>0, <1>1, <1>a DEF ConfigureKnows
<1>2. CASE readManifest(q)
  <2>1. manifest.adapter \in Adapters /\ manifest.adapter = fccInstructionSender
    BY <1>0, <1>2 DEF readManifest, DeploymentInv, ScriptsInv, ManifestIsBound, ScriptTypeOK
  <2>2. configure'[q].stage = "ask adapter" /\ configure'[q].adapter = manifest.adapter
    BY <1>0, <1>2 DEF readManifest, ScriptTypeOK
  <2> QED
    BY <1>a, <2>1, <2>2 DEF ConfigureKnows
<1> DEFINE Moves(from, to) ==
      /\ configure[q].stage = from /\ configure'[q].stage = to
      /\ configure'[q].adapter = configure[q].adapter
<1>3. CASE askAdapter(q)
  <2>1. Moves("ask adapter", IF extensionId[configure[q].adapter] = 0 THEN "resolve"
                                                                      ELSE "ask core")
    BY <1>0, <1>3 DEF askAdapter, Goes, ScriptTypeOK
  <2> QED
    BY <1>0, <1>a, <2>1 DEF ConfigureKnows
<1>4. CASE resolveExtension(q)
  <2>1. Moves("resolve", "ask core")
    BY <1>0, <1>4 DEF resolveExtension, Goes, ScriptTypeOK
  <2>2. configure[q].adapter \in Adapters /\ setExtensionId(configure[q].adapter)
    BY <1>0, <1>4, <2>1 DEF resolveExtension, ConfigureKnows
  <2>3. extensionId'[configure[q].adapter] # 0
    <3>1. extensionId'[configure[q].adapter] \in Claims(configure[q].adapter)
      BY <1>0, <2>2, setExtensionIdFindsOldest
    <3> QED
      BY <3>1 DEF Claims
  <2> QED
    BY <1>0, <1>a, <2>1, <2>3 DEF ConfigureKnows
<1>5. CASE askCore(q)
  <2>1. Moves("ask core", IF teeRegistryConfigured THEN "ask machines"
                                                   ELSE "configure core")
    BY <1>0, <1>5 DEF askCore, Goes, ScriptTypeOK
  <2> QED
    BY <1>0, <1>a, <2>1 DEF ConfigureKnows
<1>6. CASE configureCore(q)
  <2>1. Moves("configure core", "ask machines")
    BY <1>0, <1>6 DEF configureCore, Goes, ScriptTypeOK
  <2>2. teeRegistryConfigured'
    BY <1>6 DEF configureCore, configureTeeRegistry
  <2> QED
    BY <1>0, <1>a, <2>1, <2>2 DEF ConfigureKnows
<1>7. CASE askMachines(q)
  <2>1. Moves("ask machines", "write manifest")
    BY <1>0, <1>7 DEF askMachines, Goes, ScriptTypeOK
  <2> QED
    BY <1>0, <1>a, <2>1 DEF ConfigureKnows
<1>8. CASE completeManifest(q) \/ configureStops(q)
  <2>1. configure' = [configure EXCEPT ![q].stage = "ended"]
    BY <1>8 DEF completeManifest, configureStops
  <2>2. configure'[q].stage = "ended"
    BY <1>0, <2>1 DEF ScriptTypeOK
  <2> QED
    BY <2>2 DEF ConfigureKnows
<1>9. ASSUME NEW r \in Configurers, r # q,
             \/ readManifest(r) \/ askAdapter(r) \/ resolveExtension(r) \/ askCore(r)
             \/ configureCore(r) \/ askMachines(r) \/ completeManifest(r)
             \/ configureStops(r)
      PROVE  configure'[q] = configure[q]
  BY <1>0, <1>9
  DEF ScriptTypeOK, readManifest, askAdapter, resolveExtension, askCore, configureCore,
      askMachines, completeManifest, configureStops, Goes
<1>10. CASE UNCHANGED configure
  BY <1>1, <1>10
<1> QED
  BY <1>1, <1>2, <1>3, <1>4, <1>5, <1>6, <1>7, <1>8, <1>9, <1>10
  DEF DeploymentNext, deploymentVars, scriptVars, deployAdapter, deployConfiguresCore,
      deployWritesManifest, deployStops

\* A manifest is written by a script that knows what it writes, and nobody
\* undoes that later.
LEMMA ManifestStillBound ==
  DeploymentInv /\ [DeploymentNext]_deploymentVars
    => ManifestHasAdapter' /\ ManifestIsBound'
<1> SUFFICES ASSUME DeploymentInv, [DeploymentNext]_deploymentVars
             PROVE  ManifestHasAdapter' /\ ManifestIsBound'
  OBVIOUS
<1>0. /\ ScriptTypeOK /\ DeployKnows /\ ManifestHasAdapter /\ ManifestIsBound
      /\ \A r \in Configurers : ConfigureKnows(r)
  BY DEF DeploymentInv, ScriptsInv
<1>a. /\ \A a \in Adapters : a = fccInstructionSender => a = fccInstructionSender'
      /\ \A a \in Adapters : extensionId[a] # 0 => extensionId'[a] # 0
      /\ teeRegistryConfigured => teeRegistryConfigured'
  BY ScriptsUseTheContracts, KnowledgeLasts
<1>1. CASE deployWritesManifest
  <2>1. /\ manifest'.adapter = deploy.adapter /\ manifest'.extensionId = 0
        /\ deploy.adapter \in Adapters /\ deploy.adapter = fccInstructionSender'
    BY <1>0, <1>1, <1>a DEF deployWritesManifest, DeployKnows
  <2> QED
    BY <2>1 DEF ManifestHasAdapter, ManifestIsBound
<1>2. ASSUME NEW r \in Configurers, completeManifest(r)
      PROVE  ManifestHasAdapter' /\ ManifestIsBound'
  <2>1. /\ manifest'.adapter = configure[r].adapter /\ configure[r].adapter \in Adapters
        /\ configure[r].adapter = fccInstructionSender'
        /\ extensionId'[configure[r].adapter] # 0 /\ teeRegistryConfigured'
    BY <1>0, <1>2, <1>a DEF completeManifest, ConfigureKnows, Reading, Resolved, Bound
  <2> QED
    BY <2>1 DEF ManifestHasAdapter, ManifestIsBound
<1>3. CASE UNCHANGED manifest
  <2>1. manifest.adapter \in Adapters \cup {NoAdapter}
    BY <1>0 DEF ScriptTypeOK
  <2> QED
    BY <1>0, <1>3, <1>a, <2>1 DEF ManifestHasAdapter, ManifestIsBound
<1> QED
  BY <1>1, <1>2, <1>3
  DEF DeploymentNext, deploymentVars, scriptVars, deployAdapter, deployConfiguresCore,
      deployStops, readManifest, askAdapter, resolveExtension, askCore, configureCore,
      askMachines, configureStops, Goes

\* The invariant is inductive.
LEMMA DeploymentNextInv ==
  DeploymentInv /\ [DeploymentNext]_deploymentVars => DeploymentInv'
<1> SUFFICES ASSUME DeploymentInv, [DeploymentNext]_deploymentVars
             PROVE  DeploymentInv'
  OBVIOUS
<1>1. BindingInv'
  BY ScriptsUseTheContracts, BindingNextInv DEF DeploymentInv
<1>2. ScriptsInv'
  BY ScriptsType, DeployStillKnows, ConfigureStillKnows, ManifestStillBound DEF ScriptsInv
<1> QED
  BY <1>1, <1>2 DEF DeploymentInv

-----------------------------------------------------------------------------

\* The inductive invariant of the deployment: the binding's own, and what each
\* script knows at each stage.
THEOREM DeploymentInvariant == DeploymentSpec => []DeploymentInv
<1>1. DeploymentInit => DeploymentInv
  BY DeploymentInitInv
<1>2. DeploymentInv /\ [DeploymentNext]_deploymentVars => DeploymentInv'
  BY DeploymentNextInv
<1> QED
  BY <1>1, <1>2, PTL DEF DeploymentSpec

\* Whatever the scripts and everybody else do, roles, configuration and registry
\* keep their types (AurelithProtocol, AurelithFccInstructionSender).
THEOREM BindingIsTyped == DeploymentSpec => []BindingTypeOK
<1>1. DeploymentInv => BindingTypeOK
  BY DEF DeploymentInv, BindingInv
<1> QED
  BY <1>1, DeploymentInvariant, PTL

\* A pending nomination is always the current authorizer's
\* (startResultAuthorizerTransfer, acceptResultAuthorizerRole).
THEOREM NominationStaysCurrent == DeploymentSpec => []NominationIsCurrent
<1>1. DeploymentInv => NominationIsCurrent
  BY DEF DeploymentInv, BindingInv
<1> QED
  BY <1>1, DeploymentInvariant, PTL

\* An adapter's extension is always the oldest that names it, however many are
\* registered later (setExtensionId).
THEOREM AdapterResolvesOldestClaim == DeploymentSpec => []ResolvedExtensionIsOldestClaim
<1>1. DeploymentInv => ResolvedExtensionIsOldestClaim
  BY DEF DeploymentInv, BindingInv
<1> QED
  BY <1>1, DeploymentInvariant, PTL

\* Core's registry id, Core's adapter and an adapter's extension id are written
\* once (configureTeeRegistry, configureInstructionSender, setExtensionId).
THEOREM BindingIsWriteOnce == DeploymentSpec => BindingWriteOnce
<1>1. DeploymentInv /\ [DeploymentNext]_deploymentVars
        => [ /\ teeExtensionId # 0 => teeExtensionId' = teeExtensionId
             /\ fccInstructionSender # ZeroAddress
                  => fccInstructionSender' = fccInstructionSender
             /\ \A a \in Adapters :
                  extensionId[a] # 0 => extensionId'[a] = extensionId[a]
           ]_bindingVars
  BY ScriptsUseTheContracts, BindingNextWritesOnce DEF DeploymentInv, BindingInv, WrittenOnce
<1> QED
  BY <1>1, DeploymentInvariant, PTL DEF DeploymentSpec, BindingWriteOnce

\* A manifest names the adapter Core uses; a complete one, an adapter with its
\* extension and a Core with its registry (deploy.ts, configure-fcc.ts).
THEOREM ManifestStaysBound == DeploymentSpec => []ManifestIsBound
<1>1. DeploymentInv => ManifestIsBound
  BY DEF DeploymentInv, ScriptsInv
<1> QED
  BY <1>1, DeploymentInvariant, PTL

\* Once the manifest is complete, results are accepted from the extension that
\* instructions go to, unless Core's id was set by hand or the hard-coded id is
\* not the adapter's oldest extension (configureTeeRegistry, setExtensionId).
THEOREM ResultsComeFromInstructedExtension ==
  DeploymentSpec => []CoreAndAdapterShareTheirExtension
<1>1. DeploymentInv => CoreAndAdapterShareTheirExtension
  <2> SUFFICES ASSUME DeploymentInv, manifest.extensionId # 0,
                      teeExtensionId # extensionId[fccInstructionSender],
                      teeExtensionId = EXTENSION_ID,
                      EXTENSION_ID \in Claims(fccInstructionSender)
               PROVE  \E i \in Claims(fccInstructionSender) : i < EXTENSION_ID
    BY DEF CoreAndAdapterShareTheirExtension
  <2>1. /\ fccInstructionSender = manifest.adapter /\ fccInstructionSender \in Adapters
        /\ extensionId[fccInstructionSender] # 0
    BY DeploymentAssumption
    DEF DeploymentInv, ScriptsInv, ManifestHasAdapter, ManifestIsBound
  <2>2. /\ extensionId[fccInstructionSender] \in Claims(fccInstructionSender)
        /\ extensionId[fccInstructionSender] <= EXTENSION_ID
    BY <2>1 DEF DeploymentInv, BindingInv, ResolvedExtensionIsOldestClaim
  <2>3. extensionId[fccInstructionSender] \in Nat /\ EXTENSION_ID \in Nat
    BY <2>1, DeploymentAssumption, BindingAssumption
    DEF DeploymentInv, BindingInv, BindingTypeOK, ExtensionIds
  <2> QED
    BY <2>2, <2>3
<1> QED
  BY <1>1, DeploymentInvariant, PTL
=============================================================================
