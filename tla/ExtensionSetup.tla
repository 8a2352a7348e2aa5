---------------------------- MODULE ExtensionSetup ----------------------------
(***************************************************************************)
(* Setting an extension up: scripts/pre-build.sh deploys an instruction    *)
(* sender, registers an extension for it, gives the deployer its owner     *)
(* roles and the EVM key type, and only then writes config/extension.env.  *)
(* start-services.sh starts a TEE node for the id in that file, and        *)
(* run-test lets the sender look its extension id up (setExtensionId, once *)
(* and for all), sends two instructions and checks the answers.            *)
(*                                                                         *)
(* Several runs of each may be under way at once, and any of them may      *)
(* stop anywhere: a step's transaction may be mined without its receipt.   *)
(* Every command works on the chain .env selects when it starts, which     *)
(* use-chain.sh may have switched since the last one: config/extension.env *)
(* stays behind. Extension ids are positions in a chain's registry, where  *)
(* other parties may have registered some before. Senders are numbered by  *)
(* the deployer's nonce, so those of two chains have the same addresses.   *)
(***************************************************************************)
EXTENDS Naturals, Sequences, FiniteSets

CONSTANTS
  Chains,
  Builds,        \* runs of pre-build.sh, or of register-extension alone
  Tests,         \* runs of run-test
  Others,        \* bound on the chains where another party has registered one
  NoConfig,      \* there is no config/extension.env
  Empty,         \* the file was truncated and not written yet
  NoService

ASSUME SetupAssumption == IsFiniteSet(Builds)

Ops == {"SAY_HELLO", "SAY_GOODBYE"}

VARIABLES
  deployed,      \* on each chain, how many instruction senders there are
  registry,      \* on each chain, TeeExtensionRegistry by extension id
  extensionId,   \* on each chain, each sender's _extensionId, 0 while unset
  config,        \* config/extension.env
  service,       \* the TEE node this checkout runs: its chain and extension
  build,         \* each build run: its stage, chain, sender and extension
  test,          \* each run of run-test: its stage, chain, config and answer
  sent,          \* instructions run-test sent: by whom, with which config, to whom
  executed       \* those a TEE node executed

chainVars == <<deployed, registry, extensionId, sent>>
setupVars == <<chainVars, config, service, build, test, executed>>
buildsOnly == <<extensionId, sent, service, test, executed>>
testsOnly == <<deployed, registry, config, build>>

Senders == 1..Cardinality(Builds)
NoOne == 0       \* the sender of other parties' extensions

NotRunning(stage) == [stage |-> stage, chain |-> "none", sender |-> NoOne, extension |-> 0]
NotTesting(stage) == [stage |-> stage, chain |-> "none", config |-> NoConfig, answer |-> "none"]

Entry(sender) ==
  [sender |-> sender, machineOwner |-> FALSE, projectOwner |-> FALSE, evmKeys |-> FALSE]

SetupInit ==
  /\ deployed = [c \in Chains |-> 0]
  /\ registry \in [Chains -> {<<>>, <<Entry(NoOne)>>}]
  /\ Cardinality({c \in Chains : registry[c] # <<>>}) <= Others
  /\ extensionId = [c \in Chains |-> [s \in Senders |-> 0]]
  /\ config = NoConfig
  /\ service = NoService
  /\ build = [b \in Builds |-> NotRunning("start")]
  /\ test = [t \in Tests |-> NotTesting("start")]
  /\ sent = {}
  /\ executed = {}

Written == config \notin {NoConfig, Empty}

-----------------------------------------------------------------------------
(* pre-build.sh *)

\* The step's receipt came, or the run ends without it.
Goes(b, stage, c, sender, extension) ==
  \/ build' = [build EXCEPT ![b] = [stage |-> stage, chain |-> c, sender |-> sender,
                                    extension |-> extension]]
  \/ build' = [build EXCEPT ![b] = NotRunning("ended")]

DeployInstructionSender(c) == deployed' = [deployed EXCEPT ![c] = @ + 1]

\* deploy-contract: every run has a sender of its own. A failed pre-flight
\* check is a run that never starts.
deployContract(b, c) ==
  /\ build[b].stage = "start"
  /\ DeployInstructionSender(c)
  /\ Goes(b, "register", c, deployed'[c], 0)
  /\ UNCHANGED <<registry, config, buildsOnly>>

Register(b, c, sender) ==
  /\ registry' = [registry EXCEPT ![c] = Append(@, Entry(sender))]
  /\ Goes(b, "machineOwner", c, sender, Len(registry'[c]))
  /\ UNCHANGED <<deployed, config, buildsOnly>>

\* register-extension, for the sender of this run: the id is in the receipt.
registerExtension(b) ==
  /\ build[b].stage = "register"
  /\ Register(b, build[b].chain, build[b].sender)

\* register-extension run by itself, for a sender that has code: as the fix
\* the registration checks suggest, say, or after a run that was cut short.
registerExtensionAgain(b, c) ==
  /\ build[b].stage = "start"
  /\ \E sender \in 1..deployed[c] : Register(b, c, sender)

\* A bug to rule out: the key type is added before the wallet project owner.
GrantOutOfOrder(b, stage, next) ==
  LET run == build[b]
      swap == [machineOwner |-> "evmKeys", evmKeys |-> "projectOwner",
               projectOwner |-> "config"]
  IN
  /\ run.stage = stage
  /\ registry' = [registry EXCEPT ![run.chain][run.extension][stage] = TRUE]
  /\ Goes(b, swap[stage], run.chain, run.sender, run.extension)
  /\ UNCHANGED <<deployed, config, buildsOnly>>

\* The remaining steps of SetupExtension, skipped if the chain has them done.
Grant(b, stage, next) ==
  LET run == build[b] IN
  /\ run.stage = stage
  /\ registry' = [registry EXCEPT ![run.chain][run.extension][stage] = TRUE]
  /\ Goes(b, next, run.chain, run.sender, run.extension)
  /\ UNCHANGED <<deployed, config, buildsOnly>>

allowTeeMachineOwners(b) == Grant(b, "machineOwner", "projectOwner")
allowTeeProjectManagerOwners(b) == Grant(b, "projectOwner", "evmKeys")
AddSupportedKeyTypes(b) == Grant(b, "evmKeys", "config")

\* A bug to rule out: the config is begun as soon as the id is known.
TruncateConfigEarly(b) ==
  /\ build[b].stage \in {"machineOwner", "projectOwner", "evmKeys", "config"}
  /\ config' = Empty
  /\ Goes(b, "write", build[b].chain, build[b].sender, build[b].extension)
  /\ UNCHANGED <<deployed, registry, buildsOnly>>

\* The shell truncates the file before cat fills it. Only a run whose tools
\* all succeeded gets here (set -e, || die).
TruncateConfig(b) ==
  /\ build[b].stage = "config"
  /\ config' = Empty
  /\ Goes(b, "write", build[b].chain, build[b].sender, build[b].extension)
  /\ UNCHANGED <<deployed, registry, buildsOnly>>

WriteConfig(b) ==
  /\ build[b].stage = "write"
  /\ config' = [sender |-> build[b].sender, extension |-> build[b].extension]
  /\ build' = [build EXCEPT ![b] = NotRunning("ended")]
  /\ UNCHANGED <<deployed, registry, buildsOnly>>

-----------------------------------------------------------------------------
(* start-services.sh, stop-services.sh *)

\* The container's EXTENSION_ID is the one in the config, its chain that of .env.
StartServices(c) ==
  /\ Written
  /\ service' = [chain |-> c, extension |-> config.extension]
  /\ UNCHANGED <<chainVars, config, build, test, executed>>

StopServices ==
  /\ service # NoService
  /\ service' = NoService
  /\ UNCHANGED <<chainVars, config, build, test, executed>>

-----------------------------------------------------------------------------
(* run-test *)

To(t, stage) == test' = [test EXCEPT ![t].stage = stage, ![t].answer = "none"]
Fails(t) == test' = [test EXCEPT ![t] = NotTesting("failed")]

Poll == [SAY_HELLO |-> "poll hello", SAY_GOODBYE |-> "poll goodbye"]
Then == [SAY_HELLO |-> "SAY_GOODBYE", SAY_GOODBYE |-> "passed"]

\* test.sh wants a sender from the config and a proxy that answers.
ReadConfig(t, c) ==
  /\ test[t].stage = "start" /\ Written /\ service # NoService
  /\ test' = [test EXCEPT ![t] = [stage |-> "bind", chain |-> c, config |-> config,
                                  answer |-> "none"]]
  /\ UNCHANGED <<chainVars, testsOnly, service, executed>>

Claims(c, sender) == {i \in DOMAIN registry[c] : registry[c][i].sender = sender}
Oldest(ids) == CHOOSE i \in ids : \A j \in ids : i <= j

\* The contract keeps the oldest extension registered for it; a second call
\* reverts, which run-test takes for done; any other error ends the run.
setExtensionId(t) ==
  LET c == test[t].chain
      s == test[t].config.sender
      fresh == s <= deployed[c] /\ extensionId[c][s] = 0 /\ Claims(c, s) # {}
  IN
  /\ test[t].stage = "bind"
  /\ extensionId' = IF fresh THEN [extensionId EXCEPT ![c][s] = Oldest(Claims(c, s))]
                             ELSE extensionId
  /\ \/ extensionId'[c][s] # 0 /\ To(t, "SAY_HELLO")
     \/ Fails(t)
  /\ UNCHANGED <<testsOnly, sent, service, executed>>

\* sendSayHello and sendSayGoodbye go to a machine of the sender's own id;
\* with no machine they revert, which ends the run, as does a lost receipt.
SendInstruction(t, op) ==
  LET run == test[t] IN
  /\ run.stage = op
  /\ \/ /\ sent' = sent \cup {[test |-> t, op |-> op, chain |-> run.chain, config |-> run.config,
                               extension |-> extensionId[run.chain][run.config.sender]]}
        /\ To(t, Poll[op]) \/ Fails(t)
     \/ Fails(t) /\ UNCHANGED sent
  /\ UNCHANGED <<testsOnly, extensionId, service, executed>>

\* The TEE node takes an instruction of its extension up; until it has
\* answered, the proxy reports the instruction as pending (status 2).
Execute(i) ==
  LET Answers(status) == test' = IF test[i.test].stage = Poll[i.op]
                                   THEN [test EXCEPT ![i.test].answer = status] ELSE test
  IN
  /\ i \in sent \ executed
  /\ service = [chain |-> i.chain, extension |-> i.extension]
  /\ \/ Answers("pending") /\ UNCHANGED executed
     \/ /\ executed' = executed \cup {i}
        /\ Answers("completed") \/ Answers("failed")
  /\ UNCHANGED <<testsOnly, chainVars, service>>

\* A bug to rule out: whatever is not a failure passes.
VerifyNotFailed(t, op) ==
  /\ test[t].stage = Poll[op]
  /\ \/ test[t].answer \in {"pending", "completed"} /\ To(t, Then[op])
     \/ Fails(t)
  /\ UNCHANGED <<chainVars, testsOnly, service, executed>>

\* verifyHelloResult, verifyGoodbyeResult: the first answer that arrives is
\* final; ActionResult gives up after some polls without one.
VerifyResult(t, op) ==
  /\ test[t].stage = Poll[op]
  /\ \/ test[t].answer = "completed" /\ To(t, Then[op])
     \/ Fails(t)
  /\ UNCHANGED <<chainVars, testsOnly, service, executed>>

-----------------------------------------------------------------------------

SetupNext ==
  \/ \E b \in Builds :
       \/ \E c \in Chains : deployContract(b, c) \/ registerExtensionAgain(b, c)
       \/ registerExtension(b) \/ allowTeeMachineOwners(b) \/ allowTeeProjectManagerOwners(b)
       \/ AddSupportedKeyTypes(b) \/ TruncateConfig(b) \/ WriteConfig(b)
  \/ \E c \in Chains : StartServices(c)
  \/ StopServices
  \/ \E t \in Tests :
       \/ \E c \in Chains : ReadConfig(t, c)
       \/ setExtensionId(t)
       \/ \E op \in Ops : SendInstruction(t, op) \/ VerifyResult(t, op)
  \/ \E i \in sent : Execute(i)

-----------------------------------------------------------------------------

Ready(c, cfg) ==
  /\ cfg.extension \in DOMAIN registry[c]
  /\ registry[c][cfg.extension] =
       [sender |-> cfg.sender, machineOwner |-> TRUE, projectOwner |-> TRUE, evmKeys |-> TRUE]

\* Whatever runs were cut short or overlapped, the config names an extension
\* that, on some chain, is registered for the sender it names, with every role
\* and key type granted (pre-build.sh, SetupExtension).
ConfigIsReady == Written => \E c \in Chains : Ready(c, config)

\* run-test passes only if a TEE node executed both of its instructions, for
\* the extension its sender is bound to, whatever was stopped, rewritten or
\* switched while it ran (run-test, ActionResult).
PassedTestWasServed ==
  \A t \in Tests : test[t].stage = "passed" =>
    \A op \in Ops : \E i \in executed :
      /\ i.test = t /\ i.op = op
      /\ i.extension = extensionId[test[t].chain][test[t].config.sender]

-----------------------------------------------------------------------------
(* What the properties of set-up rest on. *)

EntryType == [sender: Nat, machineOwner: BOOLEAN, projectOwner: BOOLEAN, evmKeys: BOOLEAN]
ConfigType == [sender: Senders, extension: Nat]

BuildType ==
  [stage: {"start", "register", "machineOwner", "projectOwner", "evmKeys", "config",
           "write", "ended"},
   chain: Chains \cup {"none"}, sender: Senders \cup {NoOne}, extension: Nat]

TestType ==
  [stage: {"start", "bind", "SAY_HELLO", "poll hello", "SAY_GOODBYE", "poll goodbye",
           "passed", "failed"},
   chain: Chains \cup {"none"}, config: ConfigType \cup {NoConfig},
   answer: {"none", "pending", "completed", "failed"}]

SetupTypeOK ==
  /\ deployed \in [Chains -> Nat]
  /\ registry \in [Chains -> Seq(EntryType)]
  /\ extensionId \in [Chains -> [Senders -> Nat]]
  /\ config \in ConfigType \cup {NoConfig, Empty}
  /\ service \in [chain: Chains, extension: Nat] \cup {NoService}
  /\ build \in [Builds -> BuildType]
  /\ test \in [Tests -> TestType]
  /\ sent \subseteq [test: Tests, op: Ops, chain: Chains, config: ConfigType, extension: Nat]
  /\ executed \subseteq sent

\* Every sender of a chain was deployed by a run of its own.
OwnSenders ==
  \A c \in Chains : deployed[c] <= Cardinality({b \in Builds : build[b].stage # "start"})

\* What a run of pre-build.sh has done is on its chain: the sender, its
\* extension and the roles of the steps behind it.
BuildIsTrue(b) ==
  LET run == build[b] IN
  run.stage \notin {"start", "ended"} =>
    /\ run.chain \in Chains /\ run.sender \in 1..deployed[run.chain]
    /\ run.stage # "register" =>
         /\ run.extension \in DOMAIN registry[run.chain]
         /\ LET entry == registry[run.chain][run.extension] IN
            /\ entry.sender = run.sender
            /\ run.stage # "machineOwner" => entry.machineOwner
            /\ run.stage \in {"evmKeys", "config", "write"} => entry.projectOwner
            /\ run.stage \in {"config", "write"} => entry.evmKeys

\* The key type comes after the project owner, whichever run grants it.
KeysComeLast ==
  \A c \in Chains : \A i \in DOMAIN registry[c] :
    registry[c][i].evmKeys => registry[c][i].projectOwner

\* A sender that has its id has the oldest extension registered for it.
BoundToOldest ==
  \A c \in Chains, s \in Senders : extensionId[c][s] # 0 =>
    /\ extensionId[c][s] \in Claims(c, s)
    /\ \A i \in Claims(c, s) : extensionId[c][s] <= i

\* A node has executed the instruction op of the test t.
Served(t, op) ==
  \E i \in executed :
    /\ i.test = t /\ i.op = op
    /\ i.extension = extensionId[test[t].chain][test[t].config.sender]

TestIsTrue(t) ==
  LET run == test[t] IN
  /\ run.stage \notin {"start", "failed"} => run.chain \in Chains /\ run.config \in ConfigType
  /\ run.stage \notin {"start", "failed", "bind"} =>
       extensionId[run.chain][run.config.sender] # 0
  /\ \A op \in Ops : run.stage = Poll[op] /\ run.answer = "completed" => Served(t, op)
  /\ run.stage \in {"SAY_GOODBYE", "poll goodbye", "passed"} => Served(t, "SAY_HELLO")
  /\ run.stage = "passed" => Served(t, "SAY_GOODBYE")

\* An instruction is that of its test, unless that has failed since, and went
\* to the extension its sender is bound to.
SentIsTrue(i) ==
  /\ i.extension = extensionId[i.chain][i.config.sender] /\ i.extension # 0
  /\ test[i.test].stage # "failed" =>
       /\ test[i.test].stage \notin {"start", "bind"}
       /\ test[i.test].chain = i.chain /\ test[i.test].config = i.config

\* The inductive invariant behind ConfigIsReady and PassedTestWasServed.
SetupInv ==
  /\ SetupTypeOK
  /\ OwnSenders /\ KeysComeLast /\ BoundToOldest /\ ConfigIsReady
  /\ \A b \in Builds : BuildIsTrue(b)
  /\ \A t \in Tests : TestIsTrue(t)
  /\ \A i \in sent : SentIsTrue(i)
=============================================================================
