-------------------------- MODULE ContractDeployment --------------------------
(***************************************************************************)
(* The scripts that put AURELITH on chain, beside everything that may      *)
(* happen to the contracts meanwhile (FccBinding). deploy.ts, once Core is *)
(* there, deploys an adapter, configures Core with it and writes the       *)
(* deployment manifest. configure-fcc.ts later resolves the adapter's      *)
(* extension id, configures Core's TEE registry with a hard-coded id, asks *)
(* for active machines and completes the manifest. Either may stop         *)
(* anywhere, configure-fcc.ts may run several times at once, and what a    *)
(* script reads may have changed when it acts on it. Another run of        *)
(* deploy.ts would deploy another Core: it is another instance.            *)
(***************************************************************************)
EXTENDS FccBinding

CONSTANTS
  EXTENSION_ID,   \* the id configure-fcc.ts is written for
  Configurers,    \* runs of configure-fcc.ts
  NoAdapter

ASSUME DeploymentAssumption == EXTENSION_ID \in ExtensionIds /\ NoAdapter \notin Adapters

VARIABLES
  deploy,         \* the run of deploy.ts: its stage and the adapter it deployed
  manifest,       \* contracts/deployments/coston2.json
  configure       \* each run of configure-fcc.ts: its stage and its manifest's adapter

scriptVars == <<deploy, manifest, configure>>
deploymentVars == <<bindingVars, scriptVars>>

DeploymentInit ==
  /\ BindingInit
  /\ deploy = [stage |-> "deploy adapter", adapter |-> NoAdapter]
  /\ manifest = [adapter |-> NoAdapter, extensionId |-> 0]
  /\ configure = [r \in Configurers |-> [stage |-> "start", adapter |-> NoAdapter]]

-----------------------------------------------------------------------------
(* deploy.ts *)

deployAdapter(a) ==
  /\ deploy.stage = "deploy adapter"
  /\ deploy' = [stage |-> "configure core", adapter |-> a]
  /\ UNCHANGED <<bindingVars, manifest, configure>>

deployConfiguresCore ==
  /\ deploy.stage = "configure core"
  /\ configureInstructionSender(Deployer, deploy.adapter)
  /\ deploy' = [deploy EXCEPT !.stage = "write manifest"]
  /\ UNCHANGED <<manifest, configure>>

\* A bug to rule out: the manifest is written before Core is configured.
deployWritesManifestEarly ==
  /\ deploy.stage \in {"configure core", "write manifest"}
  /\ manifest' = [adapter |-> deploy.adapter, extensionId |-> 0]
  /\ deploy' = [deploy EXCEPT !.stage = "ended"]
  /\ UNCHANGED <<bindingVars, configure>>

deployWritesManifest ==
  /\ deploy.stage = "write manifest"
  /\ manifest' = [adapter |-> deploy.adapter, extensionId |-> 0]
  /\ deploy' = [deploy EXCEPT !.stage = "ended"]
  /\ UNCHANGED <<bindingVars, configure>>

\* A call reverted, a receipt was lost, or somebody stopped the script.
deployStops ==
  /\ deploy.stage # "ended"
  /\ deploy' = [deploy EXCEPT !.stage = "ended"]
  /\ UNCHANGED <<bindingVars, manifest, configure>>

-----------------------------------------------------------------------------
(* configure-fcc.ts: each question and each transaction is a step. *)

Goes(r, from, to) ==
  /\ configure[r].stage = from
  /\ configure' = [configure EXCEPT ![r].stage = to]
  /\ UNCHANGED <<deploy, manifest>>

readManifest(r) ==
  /\ configure[r].stage = "start" /\ manifest.adapter # NoAdapter
  /\ configure' = [configure EXCEPT ![r] = [stage |-> "ask adapter", adapter |-> manifest.adapter]]
  /\ UNCHANGED <<bindingVars, deploy, manifest>>

askAdapter(r) ==
  /\ configure[r].stage = "ask adapter"
  /\ Goes(r, "ask adapter",
          IF extensionId[configure[r].adapter] = 0 THEN "resolve" ELSE "ask core")
  /\ UNCHANGED bindingVars

resolveExtension(r) ==
  /\ Goes(r, "resolve", "ask core")
  /\ setExtensionId(configure[r].adapter)

askCore(r) ==
  /\ Goes(r, "ask core", IF teeRegistryConfigured THEN "ask machines" ELSE "configure core")
  /\ UNCHANGED bindingVars

configureCore(r) ==
  /\ Goes(r, "configure core", "ask machines")
  /\ configureTeeRegistry(Deployer, EXTENSION_ID)

askMachines(r) ==
  /\ activeTees[EXTENSION_ID] # {}
  /\ Goes(r, "ask machines", "write manifest")
  /\ UNCHANGED bindingVars

completeManifest(r) ==
  /\ configure[r].stage = "write manifest"
  /\ manifest' = [adapter |-> configure[r].adapter, extensionId |-> EXTENSION_ID]
  /\ configure' = [configure EXCEPT ![r].stage = "ended"]
  /\ UNCHANGED <<bindingVars, deploy>>

configureStops(r) ==
  /\ configure[r].stage \notin {"start", "ended"}
  /\ configure' = [configure EXCEPT ![r].stage = "ended"]
  /\ UNCHANGED <<bindingVars, deploy, manifest>>

DeploymentNext ==
  \/ BindingNext /\ UNCHANGED scriptVars
  \/ \E a \in Adapters : deployAdapter(a)
  \/ deployConfiguresCore \/ deployWritesManifest \/ deployStops
  \/ \E r \in Configurers :
       \/ readManifest(r) \/ askAdapter(r) \/ resolveExtension(r) \/ askCore(r)
       \/ configureCore(r) \/ askMachines(r) \/ completeManifest(r) \/ configureStops(r)

DeploymentSpec == DeploymentInit /\ [][DeploymentNext]_deploymentVars

-----------------------------------------------------------------------------

\* Whatever was called by hand, handed over, run twice or cut short, a manifest
\* names the adapter Core sends its instructions through, and a completed one
\* an adapter that has its extension and a Core that has its registry
\* (deploy.ts, configure-fcc.ts).
ManifestIsBound ==
  /\ manifest.adapter # NoAdapter => manifest.adapter = fccInstructionSender
  /\ manifest.extensionId # 0 =>
       teeRegistryConfigured /\ extensionId[manifest.adapter] # 0

\* Once the manifest is complete, Core accepts the results of the very
\* extension its instructions go to, unless Core was configured by hand with
\* another id or the hard-coded id is not the adapter's oldest extension:
\* nothing in the code compares the two (configureTeeRegistry, setExtensionId).
CoreAndAdapterShareTheirExtension ==
  /\ manifest.extensionId # 0
  /\ teeExtensionId # extensionId[fccInstructionSender]
  => \/ teeExtensionId # EXTENSION_ID
     \/ EXTENSION_ID \notin Claims(fccInstructionSender)
     \/ \E i \in Claims(fccInstructionSender) : i < EXTENSION_ID
=============================================================================
