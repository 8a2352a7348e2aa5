-------------------------- MODULE VerifyDeployProofs --------------------------
(***************************************************************************)
(* Proofs about setting an extension up and about the reports of           *)
(* verify-deploy, for any number of chains, builds, tests and reports.     *)
(*                                                                         *)
(* SetupInv holds because the registries of all chains only grow: an       *)
(* entry keeps its sender and the roles it has (ChainsGrow), which keeps   *)
(* true whatever a build, a test or a report saw of a chain before.        *)
(***************************************************************************)
EXTENDS VerifyDeploy, SumProofs, SequenceTheorems

\* A step that leaves to every chain what it had: senders, extensions, their
\* senders and their roles.
ChainsGrow ==
  \A c \in Chains :
    /\ deployed[c] <= deployed'[c]
    /\ Len(registry[c]) <= Len(registry'[c])
    /\ \A i \in DOMAIN registry[c] :
         LET old == registry[c][i]
             new == registry'[c][i]
         IN
         /\ new.sender = old.sender
         /\ old.machineOwner => new.machineOwner
         /\ old.projectOwner => new.projectOwner
         /\ old.evmKeys => new.evmKeys

\* The ids of a chain's extensions are 1, 2, 3 and so on; the entries are typed.
LEMMA Registries ==
  ASSUME SetupTypeOK
  PROVE  \A c \in Chains :
           /\ registry[c] \in Seq(EntryType) /\ Len(registry[c]) \in Nat
           /\ DOMAIN registry[c] = 1 .. Len(registry[c])
           /\ \A i \in DOMAIN registry[c] : registry[c][i] \in EntryType
<1>1. \A c \in Chains : registry[c] \in Seq(EntryType)
  BY DEF SetupTypeOK
<1> QED
  BY <1>1, LenProperties, ElementOfSeq

\* The same of the registries after a step.
LEMMA NewRegistries ==
  ASSUME SetupTypeOK'
  PROVE  \A c \in Chains :
           /\ registry'[c] \in Seq(EntryType) /\ Len(registry'[c]) \in Nat
           /\ DOMAIN registry'[c] = 1 .. Len(registry'[c])
           /\ \A i \in DOMAIN registry'[c] : registry'[c][i] \in EntryType
<1>1. \A c \in Chains : registry'[c] \in Seq(EntryType)
  BY DEF SetupTypeOK
<1> QED
  BY <1>1, LenProperties, ElementOfSeq

\* No extension of a chain is lost.
LEMMA DomainsGrow ==
  ASSUME SetupTypeOK, SetupTypeOK', ChainsGrow
  PROVE  \A c \in Chains : DOMAIN registry[c] \subseteq DOMAIN registry'[c]
<1>1. TAKE c \in Chains
<1>2. /\ DOMAIN registry[c] = 1 .. Len(registry[c]) /\ Len(registry[c]) \in Nat
      /\ DOMAIN registry'[c] = 1 .. Len(registry'[c]) /\ Len(registry'[c]) \in Nat
      /\ Len(registry[c]) <= Len(registry'[c])
  BY Registries, NewRegistries DEF ChainsGrow
<1> QED
  BY <1>2

\* A step that leaves the chains alone leaves them what they had.
LEMMA SameChainsGrow ==
  ASSUME SetupTypeOK, deployed' = deployed, registry' = registry
  PROVE  ChainsGrow
<1>1. \A c \in Chains : deployed[c] \in Nat
  BY DEF SetupTypeOK
<1> QED
  BY <1>1, Registries DEF ChainsGrow

\* The senders of a chain are numbered within the number of builds.
LEMMA SendersFit ==
  ASSUME SetupTypeOK, OwnSenders
  PROVE  \A c \in Chains :
           /\ deployed[c] \in Nat /\ deployed[c] <= Cardinality(Builds)
           /\ 1 .. deployed[c] \subseteq Senders
<1> DEFINE Started == {b \in Builds : build[b].stage # "start"}
<1>1. /\ IsFiniteSet(Builds) /\ Cardinality(Builds) \in Nat
      /\ Cardinality(Started) \in Nat /\ Cardinality(Started) <= Cardinality(Builds)
  BY SetupAssumption, FS_CardinalityType, FS_Subset
<1>2. \A c \in Chains : deployed[c] \in Nat /\ deployed[c] <= Cardinality(Started)
  BY DEF OwnSenders, SetupTypeOK
<1> HIDE DEF Started
<1> QED
  BY <1>1, <1>2 DEF Senders

\* A deployment by a run that starts is that of its own sender.
LEMMA OwnSendersNext ==
  ASSUME SetupTypeOK, SetupTypeOK', OwnSenders, NEW b \in Builds,
         build'[b].stage # "start",
         \A x \in Builds \ {b} : build'[x] = build[x],
         \/ deployed' = deployed
         \/ build[b].stage = "start" /\ \A c \in Chains : deployed'[c] <= deployed[c] + 1
  PROVE  OwnSenders'
<1> DEFINE Before == {x \in Builds : build[x].stage # "start"}
           After == {x \in Builds : build'[x].stage # "start"}
<1>1. After = Before \cup {b}
  OBVIOUS
<1>2. IsFiniteSet(Before) /\ Before \in SUBSET Builds
  BY SetupAssumption, FS_Subset
<1>3. /\ Cardinality(Before) \in Nat /\ Cardinality(After) \in Nat
      /\ Cardinality(After) = IF b \in Before THEN Cardinality(Before)
                                             ELSE Cardinality(Before) + 1
  BY <1>1, <1>2, FS_AddElement, FS_CardinalityType
<1>4. \A c \in Chains : /\ deployed[c] \in Nat /\ deployed'[c] \in Nat
                        /\ deployed[c] <= Cardinality(Before)
  BY DEF OwnSenders, SetupTypeOK
<1>5. build[b].stage = "start" => b \notin Before
  OBVIOUS
<1>6. \A c \in Chains : deployed'[c] <= Cardinality(After)
  <2> HIDE DEF Before, After
  <2> QED  BY <1>3, <1>4, <1>5
<1> QED
  BY <1>6 DEF OwnSenders

\* What is ready stays ready.
LEMMA ReadyStays ==
  ASSUME SetupTypeOK, SetupTypeOK', ChainsGrow, NEW c \in Chains, NEW cfg, Ready(c, cfg)
  PROVE  Ready(c, cfg)'
<1> DEFINE e == cfg.extension
<1>1. e \in DOMAIN registry[c] /\ e \in DOMAIN registry'[c]
  BY DomainsGrow DEF Ready
<1>2. PICK old \in EntryType, new \in EntryType : old = registry[c][e] /\ new = registry'[c][e]
  BY <1>1, Registries, NewRegistries
<1>3. old = [sender |-> cfg.sender, machineOwner |-> TRUE, projectOwner |-> TRUE,
             evmKeys |-> TRUE]
  BY <1>2 DEF Ready
<1>4. /\ new.sender = old.sender /\ (old.machineOwner => new.machineOwner)
      /\ (old.projectOwner => new.projectOwner) /\ (old.evmKeys => new.evmKeys)
  BY <1>1, <1>2 DEF ChainsGrow
<1>5. new = [sender |-> cfg.sender, machineOwner |-> TRUE, projectOwner |-> TRUE,
             evmKeys |-> TRUE]
  BY <1>3, <1>4 DEF EntryType
<1> QED
  BY <1>1, <1>2, <1>5 DEF Ready

\* What a run of pre-build.sh has done stays done while other runs go on.
LEMMA BuildStaysTrue ==
  ASSUME SetupTypeOK, SetupTypeOK', ChainsGrow, NEW b \in Builds, BuildIsTrue(b),
         build'[b] = build[b]
  PROVE  BuildIsTrue(b)'
<1>1. PICK run \in BuildType : run = build[b] /\ run = build'[b]
  BY DEF SetupTypeOK
<1>2. SUFFICES ASSUME run.stage \notin {"start", "ended"} PROVE BuildIsTrue(b)'
  BY <1>1 DEF BuildIsTrue
<1>3. PICK c \in Chains, s \in Nat, e \in Nat :
        c = run.chain /\ s = run.sender /\ e = run.extension
  BY <1>1, <1>2 DEF BuildIsTrue, BuildType, Senders, NoOne
<1>4. s \in 1 .. deployed[c] /\ deployed[c] \in Nat /\ deployed'[c] \in Nat
      /\ deployed[c] <= deployed'[c]
  BY <1>1, <1>2, <1>3 DEF BuildIsTrue, SetupTypeOK, ChainsGrow
<1>5. s \in 1 .. deployed'[c]
  BY <1>4
<1>6. run.stage # "register" =>
        /\ e \in DOMAIN registry'[c]
        /\ registry'[c][e].sender = s
        /\ run.stage # "machineOwner" => registry'[c][e].machineOwner
        /\ run.stage \in {"evmKeys", "config", "write"} => registry'[c][e].projectOwner
        /\ run.stage \in {"config", "write"} => registry'[c][e].evmKeys
  <2>1. SUFFICES ASSUME run.stage # "register"
                 PROVE  /\ e \in DOMAIN registry'[c]
                        /\ registry'[c][e].sender = s
                        /\ run.stage # "machineOwner" => registry'[c][e].machineOwner
                        /\ run.stage \in {"evmKeys", "config", "write"} =>
                             registry'[c][e].projectOwner
                        /\ run.stage \in {"config", "write"} => registry'[c][e].evmKeys
    OBVIOUS
  <2>2. /\ e \in DOMAIN registry[c]
        /\ registry[c][e].sender = s
        /\ run.stage # "machineOwner" => registry[c][e].machineOwner
        /\ run.stage \in {"evmKeys", "config", "write"} => registry[c][e].projectOwner
        /\ run.stage \in {"config", "write"} => registry[c][e].evmKeys
    BY <1>1, <1>2, <1>3, <2>1 DEF BuildIsTrue
  <2> QED
    BY <2>2, DomainsGrow DEF ChainsGrow
<1> QED
  BY <1>1, <1>2, <1>3, <1>5, <1>6 DEF BuildIsTrue

\* A sender keeps the oldest extension registered for it: new ones are younger.
LEMMA OldestStays ==
  ASSUME SetupTypeOK, SetupTypeOK', ChainsGrow, BoundToOldest, extensionId' = extensionId
  PROVE  BoundToOldest'
<1>1. SUFFICES ASSUME NEW c \in Chains, NEW s \in Senders, extensionId[c][s] # 0
               PROVE  /\ extensionId[c][s] \in Claims(c, s)'
                      /\ \A i \in Claims(c, s)' : extensionId[c][s] <= i
  BY DEF BoundToOldest
<1>2. PICK e \in Nat : e = extensionId[c][s]
  BY DEF SetupTypeOK
<1>3. e \in Claims(c, s) /\ \A i \in Claims(c, s) : e <= i
  BY <1>1, <1>2 DEF BoundToOldest
<1>4. e \in Claims(c, s)'
  BY <1>3, DomainsGrow DEF Claims, ChainsGrow
<1>5. ASSUME NEW i \in Claims(c, s)' PROVE e <= i
  <2>1. CASE i \in DOMAIN registry[c]
    BY <1>3, <1>5, <2>1 DEF Claims, ChainsGrow
  <2>2. CASE i \notin DOMAIN registry[c]
    BY <1>3, <1>5, <2>2, Registries, NewRegistries DEF Claims
  <2> QED
    BY <2>1, <2>2
<1> QED
  BY <1>2, <1>4, <1>5

-----------------------------------------------------------------------------
(* pre-build.sh *)

\* A build step touches no test and no instruction: what it has to show is its
\* own progress, its config and the order of the roles.
LEMMA BuildFrame ==
  ASSUME SetupInv, SetupTypeOK', ChainsGrow, KeysComeLast', ConfigIsReady',
         UNCHANGED buildsOnly,
         NEW b \in Builds, build'[b].stage # "start", BuildIsTrue(b)',
         \A x \in Builds \ {b} : build'[x] = build[x],
         \/ deployed' = deployed
         \/ build[b].stage = "start" /\ \A c \in Chains : deployed'[c] <= deployed[c] + 1
  PROVE  SetupInv'
<1>1. OwnSenders'
  BY OwnSendersNext DEF SetupInv
<1>2. BoundToOldest'
  BY OldestStays DEF SetupInv, buildsOnly
<1>3. \A x \in Builds : BuildIsTrue(x)'
  <2> TAKE x \in Builds
  <2>1. CASE x = b
    BY <2>1
  <2>2. CASE x # b
    BY <2>2, BuildStaysTrue DEF SetupInv
  <2> QED
    BY <2>1, <2>2
<1>4. /\ \A t \in Tests : TestIsTrue(t)'
      /\ \A i \in sent' : SentIsTrue(i)'
  BY DEF SetupInv, buildsOnly, TestIsTrue, Served, SentIsTrue
<1> QED
  BY <1>1, <1>2, <1>3, <1>4 DEF SetupInv

\* The run goes on to its next stage, or ends.
LEMMA GoesEffect ==
  ASSUME build \in [Builds -> BuildType], NEW b \in Builds,
         NEW stage \in {"register", "machineOwner", "projectOwner", "evmKeys", "config", "write"},
         NEW c \in Chains, NEW s \in Senders, NEW e \in Nat, Goes(b, stage, c, s, e)
  PROVE  /\ build' \in [Builds -> BuildType]
         /\ \A x \in Builds \ {b} : build'[x] = build[x]
         /\ build'[b].stage \in {stage, "ended"}
         /\ build'[b].stage = stage =>
              build'[b].chain = c /\ build'[b].sender = s /\ build'[b].extension = e
<1> DEFINE run == [stage |-> stage, chain |-> c, sender |-> s, extension |-> e]
           end == NotRunning("ended")
<1>1. run \in BuildType /\ end \in BuildType /\ end.stage = "ended"
  BY DEF BuildType, NotRunning
<1>2. build' = [build EXCEPT ![b] = run] \/ build' = [build EXCEPT ![b] = end]
  BY DEF Goes
<1> HIDE DEF end
<1> QED
  BY <1>1, <1>2

\* A new extension takes the next id; the others stay as they are.
LEMMA RegisterEffect ==
  ASSUME SetupTypeOK, NEW c \in Chains, NEW s \in Nat,
         registry' = [registry EXCEPT ![c] = Append(@, Entry(s))]
  PROVE  /\ registry' \in [Chains -> Seq(EntryType)]
         /\ \A x \in Chains \ {c} : registry'[x] = registry[x]
         /\ Len(registry'[c]) = Len(registry[c]) + 1
         /\ Len(registry'[c]) \in DOMAIN registry'[c] /\ Len(registry'[c]) \in Nat
         /\ registry'[c][Len(registry'[c])] = Entry(s)
         /\ DOMAIN registry'[c] = DOMAIN registry[c] \cup {Len(registry'[c])}
         /\ \A i \in DOMAIN registry[c] : registry'[c][i] = registry[c][i]
<1>1. PICK q \in Seq(EntryType) : q = registry[c]
  BY Registries
<1>2. PICK e \in EntryType : e = Entry(s)
  BY DEF Entry, EntryType
<1>3. /\ Append(q, e) \in Seq(EntryType) /\ Len(Append(q, e)) = Len(q) + 1
      /\ Append(q, e)[Len(q) + 1] = e
      /\ \A i \in 1 .. Len(q) : Append(q, e)[i] = q[i]
  BY AppendProperties
<1>4. PICK r \in Seq(EntryType) : r = Append(q, e)
  BY <1>3
<1>5. Len(q) \in Nat /\ DOMAIN q = 1 .. Len(q) /\ DOMAIN r = 1 .. Len(r)
  BY LenProperties
<1>6. registry \in [Chains -> Seq(EntryType)] /\ registry' = [registry EXCEPT ![c] = r]
  BY <1>1, <1>2, <1>4 DEF SetupTypeOK
<1> QED
  BY <1>1, <1>2, <1>3, <1>4, <1>5, <1>6

\* A grant sets one flag of one entry.
LEMMA GrantEffect ==
  ASSUME SetupTypeOK, NEW c \in Chains, NEW e \in DOMAIN registry[c],
         NEW flag \in {"machineOwner", "projectOwner", "evmKeys"},
         registry' = [registry EXCEPT ![c][e][flag] = TRUE]
  PROVE  /\ registry' \in [Chains -> Seq(EntryType)]
         /\ \A x \in Chains \ {c} : registry'[x] = registry[x]
         /\ DOMAIN registry'[c] = DOMAIN registry[c] /\ Len(registry'[c]) = Len(registry[c])
         /\ \A i \in DOMAIN registry[c] \ {e} : registry'[c][i] = registry[c][i]
         /\ registry'[c][e] = [registry[c][e] EXCEPT ![flag] = TRUE]
<1>1. PICK q \in Seq(EntryType) : q = registry[c]
  BY Registries
<1>2. DOMAIN q = 1 .. Len(q) /\ e \in 1 .. Len(q) /\ q[e] \in EntryType
  BY <1>1, Registries
<1>3. PICK new \in EntryType : new = [q[e] EXCEPT ![flag] = TRUE]
  BY <1>2 DEF EntryType
<1>4. /\ [q EXCEPT ![e] = new] \in Seq(EntryType)
      /\ Len([q EXCEPT ![e] = new]) = Len(q)
      /\ \A j \in 1 .. Len(q) : [q EXCEPT ![e] = new][j] = IF j = e THEN new ELSE q[j]
  BY <1>2, ExceptSeq
<1>5. PICK r \in Seq(EntryType) : r = [q EXCEPT ![e] = new]
  BY <1>4
<1>6. registry \in [Chains -> Seq(EntryType)] /\ registry' = [registry EXCEPT ![c] = r]
  BY <1>1, <1>3, <1>5 DEF SetupTypeOK
<1>7. DOMAIN r = 1 .. Len(r)
  BY LenProperties
<1> QED
  BY <1>1, <1>2, <1>3, <1>4, <1>5, <1>6, <1>7

\* A config that is not rewritten stays ready.
LEMMA ConfigStaysReady ==
  ASSUME SetupTypeOK, SetupTypeOK', ChainsGrow, ConfigIsReady, config' = config
  PROVE  ConfigIsReady'
<1>1. PICK cfg : cfg = config /\ cfg = config'
  OBVIOUS
<1>2. SUFFICES ASSUME Written PROVE \E c \in Chains : Ready(c, cfg)'
  BY <1>1 DEF ConfigIsReady, Written, Ready
<1>3. PICK c \in Chains : Ready(c, cfg)
  BY <1>1, <1>2 DEF ConfigIsReady, Ready
<1> QED
  BY <1>3, ReadyStays

\* A run deploys the sender that is its own.
LEMMA DeploySafe ==
  ASSUME SetupInv, NEW b \in Builds, NEW c \in Chains, deployContract(b, c)
  PROVE  SetupInv' /\ ChainsGrow
<1>t. SetupTypeOK /\ OwnSenders
  BY DEF SetupInv
<1>1. \A x \in Chains : deployed[x] \in Nat /\ deployed[x] <= Cardinality(Builds)
  BY <1>t, SendersFit
<1>2. /\ deployed \in [Chains -> Nat] /\ deployed' = [deployed EXCEPT ![c] = @ + 1]
      /\ build[b].stage = "start" /\ registry' = registry /\ config' = config
      /\ UNCHANGED buildsOnly
      /\ Goes(b, "register", c, deployed'[c], 0)
  BY <1>t DEF SetupTypeOK, deployContract, DeployInstructionSender
<1>3. /\ deployed' \in [Chains -> Nat] /\ deployed'[c] = deployed[c] + 1
      /\ \A x \in Chains : deployed[x] <= deployed'[x] /\ deployed'[x] <= deployed[x] + 1
  BY <1>1, <1>2
<1>4. deployed'[c] \in Senders
  <2> DEFINE Before == {x \in Builds : build[x].stage # "start"}
  <2>1. IsFiniteSet(Before) /\ b \notin Before /\ Before \cup {b} \in SUBSET Builds
    BY <1>2, SetupAssumption, FS_Subset
  <2>2. /\ Cardinality(Before) \in Nat /\ Cardinality(Before) + 1 <= Cardinality(Builds)
        /\ Cardinality(Builds) \in Nat
    BY <2>1, SetupAssumption, FS_AddElement, FS_Subset, FS_CardinalityType
  <2>3. deployed[c] <= Cardinality(Before)
    BY <1>t DEF OwnSenders
  <2> HIDE DEF Before
  <2> QED
    BY <1>1, <1>3, <2>2, <2>3 DEF Senders
<1>5. PICK s \in Senders : s = deployed'[c]
  BY <1>4
<1>6. /\ build' \in [Builds -> BuildType]
      /\ \A x \in Builds \ {b} : build'[x] = build[x]
      /\ build'[b].stage \in {"register", "ended"}
      /\ build'[b].stage = "register" => build'[b].chain = c /\ build'[b].sender = s
  <2>1. build \in [Builds -> BuildType] /\ Goes(b, "register", c, s, 0)
    BY <1>t, <1>2, <1>5 DEF SetupTypeOK
  <2> QED
    BY <2>1, GoesEffect
<1>7. SetupTypeOK'
  BY <1>t, <1>2, <1>3, <1>6 DEF SetupTypeOK, buildsOnly
<1>8. ChainsGrow
  BY <1>t, <1>2, <1>3, Registries DEF ChainsGrow
<1>9. BuildIsTrue(b)'
  <2>1. s \in 1 .. deployed'[c]
    BY <1>1, <1>3, <1>5
  <2> QED
    BY <1>6, <2>1 DEF BuildIsTrue
<1>10. KeysComeLast' /\ ConfigIsReady'
  BY <1>t, <1>2, <1>7, <1>8, ConfigStaysReady DEF SetupInv, KeysComeLast
<1> QED
  BY <1>2, <1>3, <1>6, <1>7, <1>8, <1>9, <1>10, BuildFrame

\* Both ways to register append an entry without roles for a deployed sender.
LEMMA RegisterSafe ==
  ASSUME SetupInv, NEW b \in Builds, NEW c \in Chains, NEW s \in 1 .. deployed[c],
         build[b].stage \in {"start", "register"}, Register(b, c, s)
  PROVE  SetupInv' /\ ChainsGrow
<1>t. SetupTypeOK /\ OwnSenders
  BY DEF SetupInv
<1>1. s \in Senders /\ s \in Nat
  BY <1>t, SendersFit DEF Senders
<1>2. /\ registry' = [registry EXCEPT ![c] = Append(@, Entry(s))]
      /\ deployed' = deployed /\ config' = config /\ UNCHANGED buildsOnly
      /\ Goes(b, "machineOwner", c, s, Len(registry'[c]))
  BY DEF Register
<1>3. /\ registry' \in [Chains -> Seq(EntryType)]
      /\ \A x \in Chains \ {c} : registry'[x] = registry[x]
      /\ Len(registry'[c]) = Len(registry[c]) + 1
      /\ Len(registry'[c]) \in DOMAIN registry'[c] /\ Len(registry'[c]) \in Nat
      /\ registry'[c][Len(registry'[c])] = Entry(s)
      /\ DOMAIN registry'[c] = DOMAIN registry[c] \cup {Len(registry'[c])}
      /\ \A i \in DOMAIN registry[c] : registry'[c][i] = registry[c][i]
  BY <1>t, <1>1, <1>2, RegisterEffect
<1>4. PICK e \in Nat : e = Len(registry'[c])
  BY <1>3
<1>5. /\ build' \in [Builds -> BuildType]
      /\ \A x \in Builds \ {b} : build'[x] = build[x]
      /\ build'[b].stage \in {"machineOwner", "ended"}
      /\ build'[b].stage = "machineOwner" =>
           build'[b].chain = c /\ build'[b].sender = s /\ build'[b].extension = e
  <2>1. build \in [Builds -> BuildType] /\ Goes(b, "machineOwner", c, s, e)
    BY <1>t, <1>2, <1>4 DEF SetupTypeOK
  <2> QED
    BY <1>1, <2>1, GoesEffect
<1>6. SetupTypeOK'
  BY <1>t, <1>2, <1>3, <1>5 DEF SetupTypeOK, buildsOnly
<1>7. ChainsGrow
  <2>1. \A x \in Chains : deployed[x] \in Nat
    BY <1>t DEF SetupTypeOK
  <2> QED
    BY <1>t, <1>2, <1>3, <2>1, Registries DEF ChainsGrow
<1>8. BuildIsTrue(b)'
  BY <1>2, <1>3, <1>4, <1>5 DEF BuildIsTrue, Entry
<1>9. KeysComeLast'
  <2>1. SUFFICES ASSUME NEW x \in Chains, NEW i \in DOMAIN registry'[x]
                 PROVE  registry'[x][i].evmKeys => registry'[x][i].projectOwner
    BY DEF KeysComeLast
  <2>2. KeysComeLast
    BY DEF SetupInv
  <2>3. CASE x # c \/ i \in DOMAIN registry[x]
    BY <1>3, <2>1, <2>2, <2>3 DEF KeysComeLast
  <2>4. CASE x = c /\ i = Len(registry'[c])
    BY <1>3, <2>4 DEF Entry
  <2> QED
    BY <1>3, <2>1, <2>3, <2>4
<1>10. ConfigIsReady'
  BY <1>t, <1>2, <1>6, <1>7, ConfigStaysReady DEF SetupInv
<1> QED
  BY <1>2, <1>5, <1>6, <1>7, <1>8, <1>9, <1>10, BuildFrame

\* A grant follows the one before it; the key type is the last.
LEMMA GrantSafe ==
  ASSUME SetupInv, NEW b \in Builds,
         NEW flag \in {"machineOwner", "projectOwner", "evmKeys"}, NEW next,
         next = CASE flag = "machineOwner" -> "projectOwner"
                  [] flag = "projectOwner" -> "evmKeys"
                  [] flag = "evmKeys" -> "config",
         Grant(b, flag, next)
  PROVE  SetupInv' /\ ChainsGrow
<1>t. SetupTypeOK /\ OwnSenders
  BY DEF SetupInv
<1>n. next \in {"projectOwner", "evmKeys", "config"} /\ next # flag
  OBVIOUS
<1>1. PICK run \in BuildType : run = build[b]
  BY <1>t DEF SetupTypeOK
<1>2. PICK c \in Chains, s \in Senders, e \in Nat :
        /\ c = run.chain /\ s = run.sender /\ e = run.extension
        /\ s \in 1 .. deployed[c] /\ e \in DOMAIN registry[c]
        /\ registry[c][e].sender = s
        /\ flag # "machineOwner" => registry[c][e].machineOwner
        /\ flag = "evmKeys" => registry[c][e].projectOwner
  <2>1. run.stage = flag
    BY <1>1 DEF Grant
  <2>2. BuildIsTrue(b)
    BY DEF SetupInv
  <2>3. run.chain \in Chains /\ run.sender \in 1 .. deployed[run.chain]
        /\ run.extension \in Nat
    BY <1>1, <2>1, <2>2 DEF BuildIsTrue, BuildType
  <2>4. run.sender \in Senders
    BY <1>t, <2>3, SendersFit
  <2> QED
    BY <1>1, <2>1, <2>2, <2>3, <2>4 DEF BuildIsTrue
<1>3. /\ registry' = [registry EXCEPT ![c][e][flag] = TRUE]
      /\ deployed' = deployed /\ config' = config /\ UNCHANGED buildsOnly
      /\ Goes(b, next, c, s, e) /\ build[b].stage = flag
  BY <1>1, <1>2 DEF Grant
<1>4. /\ registry' \in [Chains -> Seq(EntryType)]
      /\ \A x \in Chains \ {c} : registry'[x] = registry[x]
      /\ DOMAIN registry'[c] = DOMAIN registry[c] /\ Len(registry'[c]) = Len(registry[c])
      /\ \A i \in DOMAIN registry[c] \ {e} : registry'[c][i] = registry[c][i]
      /\ registry'[c][e] = [registry[c][e] EXCEPT ![flag] = TRUE]
  BY <1>t, <1>2, <1>3, GrantEffect
<1>5. PICK old \in EntryType, new \in EntryType :
        /\ old = registry[c][e] /\ new = registry'[c][e] /\ new = [old EXCEPT ![flag] = TRUE]
  <2>1. registry[c][e] \in EntryType
    BY <1>t, <1>2, Registries
  <2>2. [registry[c][e] EXCEPT ![flag] = TRUE] \in EntryType
    BY <2>1 DEF EntryType
  <2> QED
    BY <1>4, <2>1, <2>2
<1>6. /\ new.sender = old.sender
      /\ new.machineOwner = (old.machineOwner \/ flag = "machineOwner")
      /\ new.projectOwner = (old.projectOwner \/ flag = "projectOwner")
      /\ new.evmKeys = (old.evmKeys \/ flag = "evmKeys")
  BY <1>5 DEF EntryType
<1>7. /\ build' \in [Builds -> BuildType]
      /\ \A x \in Builds \ {b} : build'[x] = build[x]
      /\ build'[b].stage \in {next, "ended"}
      /\ build'[b].stage = next =>
           build'[b].chain = c /\ build'[b].sender = s /\ build'[b].extension = e
  BY <1>t, <1>n, <1>3, GoesEffect DEF SetupTypeOK
<1>8. SetupTypeOK'
  BY <1>t, <1>3, <1>4, <1>7 DEF SetupTypeOK, buildsOnly
<1>9. ChainsGrow
  <2>1. SUFFICES ASSUME NEW x \in Chains, NEW i \in DOMAIN registry[x]
                 PROVE  /\ registry'[x][i].sender = registry[x][i].sender
                        /\ registry[x][i].machineOwner => registry'[x][i].machineOwner
                        /\ registry[x][i].projectOwner => registry'[x][i].projectOwner
                        /\ registry[x][i].evmKeys => registry'[x][i].evmKeys
    <3>1. \A x \in Chains : deployed[x] \in Nat /\ deployed'[x] = deployed[x]
      BY <1>t, <1>3 DEF SetupTypeOK
    <3>2. \A x \in Chains : Len(registry[x]) \in Nat /\ Len(registry'[x]) = Len(registry[x])
      BY <1>t, <1>4, Registries
    <3>3. \A x \in Chains :
            deployed[x] <= deployed'[x] /\ Len(registry[x]) <= Len(registry'[x])
      BY <3>1, <3>2
    <3> QED
      BY <3>3 DEF ChainsGrow
  <2>2. CASE x = c /\ i = e
    BY <1>5, <1>6, <2>2
  <2>3. CASE ~(x = c /\ i = e)
    BY <1>4, <2>1, <2>3
  <2> QED
    BY <2>2, <2>3
<1>10. BuildIsTrue(b)'
  <2>1. SUFFICES ASSUME build'[b].stage = next PROVE BuildIsTrue(b)'
    BY <1>7 DEF BuildIsTrue
  <2>2. /\ e \in DOMAIN registry'[c] /\ s \in 1 .. deployed'[c]
        /\ registry'[c][e].sender = s /\ registry'[c][e].machineOwner
        /\ next \in {"evmKeys", "config"} => registry'[c][e].projectOwner
        /\ next = "config" => registry'[c][e].evmKeys
    BY <1>2, <1>3, <1>4, <1>5, <1>6
  <2> QED
    BY <1>n, <1>7, <2>1, <2>2 DEF BuildIsTrue
<1>11. KeysComeLast'
  <2>1. SUFFICES ASSUME NEW x \in Chains, NEW i \in DOMAIN registry'[x]
                 PROVE  registry'[x][i].evmKeys => registry'[x][i].projectOwner
    BY DEF KeysComeLast
  <2>2. KeysComeLast
    BY DEF SetupInv
  <2>3. CASE x = c /\ i = e
    BY <1>2, <1>5, <1>6, <2>2, <2>3 DEF KeysComeLast
  <2>4. CASE ~(x = c /\ i = e)
    BY <1>4, <2>1, <2>2, <2>4 DEF KeysComeLast
  <2> QED
    BY <2>3, <2>4
<1>12. ConfigIsReady'
  BY <1>t, <1>3, <1>8, <1>9, ConfigStaysReady DEF SetupInv
<1> QED
  BY <1>n, <1>3, <1>7, <1>8, <1>9, <1>10, <1>11, <1>12, BuildFrame

\* A run that truncates the config has done everything else.
LEMMA TruncateSafe ==
  ASSUME SetupInv, NEW b \in Builds, TruncateConfig(b)
  PROVE  SetupInv'
<1>t. SetupTypeOK /\ OwnSenders /\ BuildIsTrue(b)
  BY DEF SetupInv
<1>1. PICK run \in BuildType : run = build[b] /\ run.stage = "config"
  BY <1>t DEF SetupTypeOK, TruncateConfig
<1>2. PICK c \in Chains, s \in Senders, e \in Nat :
        /\ c = run.chain /\ s = run.sender /\ e = run.extension
        /\ s \in 1 .. deployed[c] /\ e \in DOMAIN registry[c]
        /\ registry[c][e].sender = s /\ registry[c][e].machineOwner
        /\ registry[c][e].projectOwner /\ registry[c][e].evmKeys
  <2>1. run.chain \in Chains /\ run.sender \in 1 .. deployed[run.chain]
        /\ run.extension \in Nat
    BY <1>t, <1>1 DEF BuildIsTrue, BuildType
  <2>2. run.sender \in Senders
    BY <1>t, <2>1, SendersFit
  <2> QED
    BY <1>t, <1>1, <2>1, <2>2 DEF BuildIsTrue
<1>3. /\ config' = Empty /\ Goes(b, "write", c, s, e)
      /\ deployed' = deployed /\ registry' = registry /\ UNCHANGED buildsOnly
  BY <1>1, <1>2 DEF TruncateConfig
<1>4. /\ build' \in [Builds -> BuildType]
      /\ \A x \in Builds \ {b} : build'[x] = build[x]
      /\ build'[b].stage \in {"write", "ended"}
      /\ build'[b].stage = "write" =>
           build'[b].chain = c /\ build'[b].sender = s /\ build'[b].extension = e
  <2>1. build \in [Builds -> BuildType]
    BY <1>t DEF SetupTypeOK
  <2> QED
    BY <1>3, <2>1, GoesEffect
<1>5. SetupTypeOK'
  BY <1>t, <1>3, <1>4 DEF SetupTypeOK, buildsOnly
<1>6. ChainsGrow
  BY <1>t, <1>3, SameChainsGrow
<1>7. BuildIsTrue(b)'
  BY <1>2, <1>3, <1>4 DEF BuildIsTrue
<1>8. KeysComeLast' /\ ConfigIsReady'
  BY <1>3 DEF SetupInv, KeysComeLast, ConfigIsReady, Written
<1> QED
  BY <1>3, <1>4, <1>5, <1>6, <1>7, <1>8, BuildFrame

\* What is written into the config is ready on the run's chain.
LEMMA WriteSafe ==
  ASSUME SetupInv, NEW b \in Builds, WriteConfig(b)
  PROVE  SetupInv'
<1>t. SetupTypeOK /\ OwnSenders /\ BuildIsTrue(b)
  BY DEF SetupInv
<1>1. PICK run \in BuildType : run = build[b] /\ run.stage = "write"
  BY <1>t DEF SetupTypeOK, WriteConfig
<1>2. PICK c \in Chains, s \in Senders, e \in Nat :
        /\ c = run.chain /\ s = run.sender /\ e = run.extension
        /\ e \in DOMAIN registry[c]
        /\ registry[c][e].sender = s /\ registry[c][e].machineOwner
        /\ registry[c][e].projectOwner /\ registry[c][e].evmKeys
  <2>1. run.chain \in Chains /\ run.sender \in 1 .. deployed[run.chain]
        /\ run.extension \in Nat
    BY <1>t, <1>1 DEF BuildIsTrue, BuildType
  <2>2. run.sender \in Senders
    BY <1>t, <2>1, SendersFit
  <2> QED
    BY <1>t, <1>1, <2>1, <2>2 DEF BuildIsTrue
<1>3. PICK cfg \in ConfigType : cfg = [sender |-> s, extension |-> e]
  BY DEF ConfigType
<1> DEFINE end == NotRunning("ended")
<1>4. end \in BuildType /\ end.stage = "ended"
  BY DEF NotRunning, BuildType
<1> HIDE DEF end
<1>5. /\ config' = cfg /\ build' = [build EXCEPT ![b] = end]
      /\ deployed' = deployed /\ registry' = registry /\ UNCHANGED buildsOnly
  BY <1>1, <1>2, <1>3, <1>4 DEF WriteConfig, end
<1>6. /\ build' \in [Builds -> BuildType] /\ build'[b].stage = "ended"
      /\ \A x \in Builds \ {b} : build'[x] = build[x]
  BY <1>t, <1>4, <1>5 DEF SetupTypeOK
<1>7. SetupTypeOK'
  BY <1>t, <1>5, <1>6 DEF SetupTypeOK, buildsOnly
<1>8. ChainsGrow
  BY <1>t, <1>5, SameChainsGrow
<1>9. BuildIsTrue(b)'
  BY <1>6 DEF BuildIsTrue
<1>10. KeysComeLast'
  BY <1>5 DEF SetupInv, KeysComeLast
<1>11. ConfigIsReady'
  <2>1. PICK entry \in EntryType : entry = registry[c][e]
    BY <1>t, <1>2, Registries
  <2>2. entry = [sender |-> s, machineOwner |-> TRUE, projectOwner |-> TRUE, evmKeys |-> TRUE]
    BY <1>2, <2>1 DEF EntryType
  <2>3. Ready(c, cfg)'
    BY <1>2, <1>3, <1>5, <2>1, <2>2 DEF Ready
  <2> QED
    BY <1>5, <2>3 DEF ConfigIsReady, Ready
<1> QED
  BY <1>5, <1>6, <1>7, <1>8, <1>9, <1>10, <1>11, BuildFrame

\* A TEE node that starts or stops changes nothing the invariant is about.
LEMMA ServicesSafe ==
  ASSUME SetupInv, StopServices \/ \E c \in Chains : StartServices(c)
  PROVE  SetupInv'
<1>1. service' \in [chain: Chains, extension: Nat] \cup {NoService}
  <2>1. CASE StopServices
    BY <2>1 DEF StopServices
  <2>2. ASSUME NEW c \in Chains, StartServices(c)
        PROVE  service' \in [chain: Chains, extension: Nat]
    <3>1. config \in ConfigType
      BY <2>2 DEF SetupInv, SetupTypeOK, StartServices, Written
    <3>2. config.extension \in Nat
      BY <3>1 DEF ConfigType
    <3> QED
      BY <2>2, <3>2 DEF StartServices
  <2> QED
    BY <2>1, <2>2
<1>2. UNCHANGED <<chainVars, config, build, test, executed>>
  BY DEF StopServices, StartServices
<1>3. SetupTypeOK'
  BY <1>1, <1>2 DEF SetupInv, SetupTypeOK, chainVars
<1> QED
  <2>1. OwnSenders' /\ KeysComeLast' /\ BoundToOldest'
    BY <1>2 DEF SetupInv, chainVars, OwnSenders, KeysComeLast, BoundToOldest, Claims
  <2>2. ConfigIsReady'
    BY <1>2 DEF SetupInv, chainVars, ConfigIsReady, Written, Ready
  <2>3. \A b \in Builds : BuildIsTrue(b)'
    BY <1>2 DEF SetupInv, chainVars, BuildIsTrue
  <2>4. /\ \A t \in Tests : TestIsTrue(t)'
        /\ \A i \in sent' : SentIsTrue(i)'
    BY <1>2 DEF SetupInv, chainVars, TestIsTrue, Served, SentIsTrue
  <2> QED
    BY <1>3, <2>1, <2>2, <2>3, <2>4 DEF SetupInv

-----------------------------------------------------------------------------
(* run-test *)

\* A test step touches no build, no registry and no config.
LEMMA TestFrame ==
  ASSUME SetupInv, SetupTypeOK', UNCHANGED testsOnly, BoundToOldest',
         \A t \in Tests : TestIsTrue(t)',
         \A i \in sent' : SentIsTrue(i)'
  PROVE  SetupInv'
<1>1. OwnSenders' /\ KeysComeLast'
  BY DEF SetupInv, testsOnly, OwnSenders, KeysComeLast
<1>2. ConfigIsReady'
  BY DEF SetupInv, testsOnly, ConfigIsReady, Written, Ready
<1>3. \A b \in Builds : BuildIsTrue(b)'
  BY DEF SetupInv, testsOnly, BuildIsTrue
<1> QED
  BY <1>1, <1>2, <1>3 DEF SetupInv

\* An instruction of a test: what is known of it and of the test.
LEMMA SentTypes ==
  ASSUME SetupTypeOK
  PROVE  \A i \in sent : /\ i.test \in Tests /\ i.op \in Ops /\ i.chain \in Chains
                         /\ i.config \in ConfigType /\ i.config.sender \in Senders
                         /\ i.extension \in Nat
  BY DEF SetupTypeOK, ConfigType

\* Going on to another stage keeps the chain and the config of a test.
LEMMA ToEffect ==
  ASSUME test \in [Tests -> TestType], NEW t \in Tests,
         NEW stage \in {"SAY_HELLO", "poll hello", "SAY_GOODBYE", "poll goodbye", "passed"},
         To(t, stage)
  PROVE  /\ test' \in [Tests -> TestType]
         /\ \A x \in Tests \ {t} : test'[x] = test[x]
         /\ test'[t].stage = stage /\ test'[t].answer = "none"
         /\ test'[t].chain = test[t].chain /\ test'[t].config = test[t].config
<1>1. PICK run \in TestType : run = test[t]
  OBVIOUS
<1>2. PICK new \in TestType : new = [run EXCEPT !.stage = stage, !.answer = "none"]
  BY DEF TestType
<1>3. test' = [test EXCEPT ![t] = new]
  BY <1>1, <1>2 DEF To, TestType
<1>4. /\ new.stage = stage /\ new.answer = "none"
      /\ new.chain = run.chain /\ new.config = run.config
  BY <1>2 DEF TestType
<1> QED
  BY <1>1, <1>3, <1>4

\* The stages of the two instructions of a test.
LEMMA PollStages ==
  /\ Poll["SAY_HELLO"] = "poll hello" /\ Poll["SAY_GOODBYE"] = "poll goodbye"
  /\ Then["SAY_HELLO"] = "SAY_GOODBYE" /\ Then["SAY_GOODBYE"] = "passed"
  BY DEF Poll, Then

\* A test that fails has nothing left to show.
LEMMA FailsEffect ==
  ASSUME test \in [Tests -> TestType], NEW t \in Tests, Fails(t)
  PROVE  /\ test' \in [Tests -> TestType]
         /\ \A x \in Tests \ {t} : test'[x] = test[x]
         /\ test'[t].stage = "failed" /\ TestIsTrue(t)'
<1> DEFINE new == NotTesting("failed")
<1>1. new \in TestType /\ new.stage = "failed"
  BY DEF TestType, NotTesting
<1>2. test' = [test EXCEPT ![t] = new]
  BY DEF Fails
<1> HIDE DEF new
<1>3. test'[t] = new
  BY <1>2
<1>4. \A op \in Ops : Poll[op] # "failed"
  BY PollStages DEF Ops
<1>5. TestIsTrue(t)'
  BY <1>1, <1>3, <1>4 DEF TestIsTrue
<1> QED
  BY <1>1, <1>2, <1>3, <1>5

\* A sender that has its id keeps it (setExtensionId writes once).
IdsStay ==
  \A c \in Chains, s \in Senders :
    extensionId[c][s] # 0 => extensionId'[c][s] = extensionId[c][s]

\* What a test has reached stays reached.
LEMMA TestStaysTrue ==
  ASSUME SetupTypeOK, IdsStay, executed \subseteq executed', NEW t \in Tests,
         TestIsTrue(t), test'[t] = test[t]
  PROVE  TestIsTrue(t)'
<1>1. PICK run \in TestType : run = test[t] /\ run = test'[t]
  BY DEF SetupTypeOK
<1>2. CASE run.stage \in {"start", "failed", "bind"}
  <2>1. \A op \in Ops : Poll[op] # run.stage
    BY <1>2, PollStages DEF Ops
  <2> QED
    BY <1>1, <1>2, <2>1 DEF TestIsTrue
<1>3. CASE run.stage \notin {"start", "failed", "bind"}
  <2>1. /\ run.chain \in Chains /\ run.config \in ConfigType
        /\ extensionId[run.chain][run.config.sender] # 0
    BY <1>1, <1>3 DEF TestIsTrue
  <2>2. extensionId'[run.chain][run.config.sender] = extensionId[run.chain][run.config.sender]
    BY <2>1 DEF IdsStay, ConfigType
  <2>3. \A op \in Ops : Served(t, op) => Served(t, op)'
    BY <1>1, <2>2 DEF Served
  <2>4. "SAY_HELLO" \in Ops /\ "SAY_GOODBYE" \in Ops
    BY DEF Ops
  <2> QED
    BY <1>1, <2>1, <2>2, <2>3, <2>4 DEF TestIsTrue
<1> QED
  BY <1>2, <1>3

\* What is known of an instruction holds on while its test goes on.
LEMMA SentStaysTrue ==
  ASSUME SetupTypeOK, IdsStay, NEW i \in sent, SentIsTrue(i),
         test'[i.test].stage # "failed" =>
           /\ test[i.test].stage # "failed"
           /\ test'[i.test].stage \notin {"start", "bind"}
           /\ test'[i.test].chain = test[i.test].chain
           /\ test'[i.test].config = test[i.test].config
  PROVE  SentIsTrue(i)'
<1>1. i.chain \in Chains /\ i.config.sender \in Senders
  BY SentTypes
<1>2. i.extension = extensionId[i.chain][i.config.sender] /\ i.extension # 0
  BY DEF SentIsTrue
<1>3. i.extension = extensionId'[i.chain][i.config.sender]
  BY <1>1, <1>2 DEF IdsStay
<1> QED
  BY <1>2, <1>3 DEF SentIsTrue

\* A test takes the config as it is; nothing was sent in its name before.
LEMMA ReadConfigSafe ==
  ASSUME SetupInv, NEW t \in Tests, NEW c \in Chains, ReadConfig(t, c)
  PROVE  SetupInv'
<1>t. SetupTypeOK /\ test \in [Tests -> TestType]
  BY DEF SetupInv, SetupTypeOK
<1>1. PICK cfg \in ConfigType : cfg = config
  BY <1>t DEF SetupTypeOK, ReadConfig, Written
<1>2. PICK new \in TestType :
        new = [stage |-> "bind", chain |-> c, config |-> cfg, answer |-> "none"]
  BY DEF TestType
<1>3. /\ test[t].stage = "start" /\ test' = [test EXCEPT ![t] = new]
      /\ UNCHANGED <<chainVars, testsOnly, service, executed>>
  BY <1>1, <1>2 DEF ReadConfig
<1>4. /\ test' \in [Tests -> TestType] /\ test'[t] = new
      /\ \A x \in Tests \ {t} : test'[x] = test[x]
  BY <1>t, <1>3
<1>5. SetupTypeOK'
  BY <1>t, <1>3, <1>4 DEF SetupTypeOK, chainVars, testsOnly
<1>6. IdsStay /\ BoundToOldest'
  BY <1>3 DEF SetupInv, IdsStay, BoundToOldest, Claims, chainVars
<1>7. TestIsTrue(t)'
  <2>1. new.stage = "bind" /\ new.chain \in Chains /\ new.config \in ConfigType
    BY <1>2
  <2>2. \A op \in Ops : Poll[op] # "bind"
    BY PollStages DEF Ops
  <2> QED
    BY <1>4, <2>1, <2>2 DEF TestIsTrue
<1>8. \A x \in Tests : TestIsTrue(x)'
  <2> TAKE x \in Tests
  <2>1. CASE x # t
    BY <1>t, <1>3, <1>4, <1>6, <2>1, TestStaysTrue DEF SetupInv
  <2> QED
    BY <1>7, <2>1
<1>9. ASSUME NEW i \in sent' PROVE SentIsTrue(i)'
  <2>1. i \in sent /\ SentIsTrue(i)
    BY <1>3, <1>9 DEF SetupInv, chainVars
  <2>2. i.test \in Tests /\ i.test # t
    BY <1>t, <1>3, <2>1, SentTypes DEF SentIsTrue
  <2>3. test'[i.test] = test[i.test]
    BY <1>4, <2>2
  <2> QED
    BY <1>t, <1>6, <2>1, <2>3, SentStaysTrue DEF SentIsTrue
<1> QED
  BY <1>3, <1>5, <1>6, <1>8, <1>9, TestFrame

\* The sender's id is that of its oldest extension, now and later.
LEMMA SetIdEffect ==
  ASSUME SetupTypeOK, BoundToOldest, NEW c \in Chains, NEW s \in Senders,
         extensionId[c][s] = 0, Claims(c, s) # {},
         extensionId' = [extensionId EXCEPT ![c][s] = Oldest(Claims(c, s))],
         registry' = registry
  PROVE  /\ extensionId' \in [Chains -> [Senders -> Nat]]
         /\ extensionId'[c][s] # 0
         /\ IdsStay /\ BoundToOldest'
<1> DEFINE ids == Claims(c, s)
           least == Oldest(ids)
<1>1. ids \in SUBSET Nat /\ 0 \notin ids
  BY Registries DEF Claims
<1>2. \E i \in ids : \A j \in ids : i <= j
  BY <1>1, LeastNatural
<1>3. least \in ids /\ \A j \in ids : least <= j
  BY <1>2 DEF Oldest
<1>4. least \in Nat /\ least # 0
  BY <1>1, <1>3
<1> HIDE DEF least
<1>5. /\ extensionId \in [Chains -> [Senders -> Nat]]
      /\ extensionId' = [extensionId EXCEPT ![c][s] = least]
  BY DEF SetupTypeOK, least
<1>6. /\ extensionId' \in [Chains -> [Senders -> Nat]] /\ extensionId'[c][s] = least
      /\ \A x \in Chains, y \in Senders :
           ~(x = c /\ y = s) => extensionId'[x][y] = extensionId[x][y]
  BY <1>4, <1>5
<1>7. IdsStay
  BY <1>6 DEF IdsStay
<1>8. BoundToOldest'
  <2>1. SUFFICES ASSUME NEW x \in Chains, NEW y \in Senders, extensionId'[x][y] # 0
                 PROVE  /\ extensionId'[x][y] \in Claims(x, y)'
                        /\ \A i \in Claims(x, y)' : extensionId'[x][y] <= i
    BY DEF BoundToOldest
  <2>2. Claims(x, y)' = Claims(x, y)
    BY DEF Claims
  <2>3. CASE x = c /\ y = s
    BY <1>3, <1>6, <2>2, <2>3
  <2>4. CASE ~(x = c /\ y = s)
    BY <1>6, <2>1, <2>2, <2>4 DEF BoundToOldest
  <2> QED
    BY <2>3, <2>4
<1> QED
  BY <1>4, <1>6, <1>7, <1>8

\* A test goes on once its sender has an id.
LEMMA SetIdSafe ==
  ASSUME SetupInv, NEW t \in Tests, setExtensionId(t)
  PROVE  SetupInv'
<1>t. SetupTypeOK /\ test \in [Tests -> TestType] /\ BoundToOldest /\ TestIsTrue(t)
  BY DEF SetupInv, SetupTypeOK
<1>1. PICK run \in TestType : run = test[t] /\ run.stage = "bind"
  BY <1>t DEF setExtensionId
<1>2. PICK c \in Chains, s \in Senders :
        c = run.chain /\ s = run.config.sender /\ run.config \in ConfigType
  BY <1>t, <1>1 DEF TestIsTrue, ConfigType
<1>3. /\ UNCHANGED <<testsOnly, sent, service, executed>>
      /\ \/ extensionId' = extensionId
         \/ /\ extensionId[c][s] = 0 /\ Claims(c, s) # {}
            /\ extensionId' = [extensionId EXCEPT ![c][s] = Oldest(Claims(c, s))]
      /\ \/ extensionId'[c][s] # 0 /\ To(t, "SAY_HELLO")
         \/ Fails(t)
  BY <1>1, <1>2 DEF setExtensionId
<1>4. /\ extensionId' \in [Chains -> [Senders -> Nat]]
      /\ IdsStay /\ BoundToOldest'
  <2>1. CASE extensionId' = extensionId
    BY <1>t, <1>3, <2>1 DEF SetupTypeOK, IdsStay, BoundToOldest, Claims, testsOnly
  <2>2. CASE extensionId' # extensionId
    BY <1>t, <1>3, <2>2, SetIdEffect DEF testsOnly
  <2> QED
    BY <2>1, <2>2
<1>5. /\ test' \in [Tests -> TestType]
      /\ \A x \in Tests \ {t} : test'[x] = test[x]
      /\ TestIsTrue(t)'
  <2>1. CASE Fails(t)
    BY <1>t, <2>1, FailsEffect
  <2>2. CASE extensionId'[c][s] # 0 /\ To(t, "SAY_HELLO")
    <3>1. /\ test' \in [Tests -> TestType]
          /\ \A x \in Tests \ {t} : test'[x] = test[x]
          /\ test'[t].stage = "SAY_HELLO" /\ test'[t].answer = "none"
          /\ test'[t].chain = c /\ test'[t].config = run.config
      BY <1>t, <1>1, <1>2, <2>2, ToEffect
    <3>2. TestIsTrue(t)'
      BY <1>2, <2>2, <3>1 DEF TestIsTrue
    <3> QED
      BY <3>1, <3>2
  <2> QED
    BY <1>3, <2>1, <2>2
<1>6. SetupTypeOK'
  BY <1>t, <1>3, <1>4, <1>5 DEF SetupTypeOK, testsOnly
<1>7. \A x \in Tests : TestIsTrue(x)'
  <2> TAKE x \in Tests
  <2>1. CASE x # t
    BY <1>t, <1>3, <1>4, <1>5, <2>1, TestStaysTrue DEF SetupInv
  <2> QED
    BY <1>5, <2>1
<1>8. ASSUME NEW i \in sent' PROVE SentIsTrue(i)'
  <2>1. i \in sent /\ SentIsTrue(i)
    BY <1>3, <1>8 DEF SetupInv
  <2>2. i.test \in Tests /\ i.test # t
    BY <1>t, <1>1, <2>1, SentTypes DEF SentIsTrue
  <2>3. test'[i.test] = test[i.test]
    BY <1>5, <2>2
  <2> QED
    BY <1>t, <1>4, <2>1, <2>3, SentStaysTrue DEF SentIsTrue
<1> QED
  BY <1>3, <1>4, <1>6, <1>7, <1>8, TestFrame

\* An instruction goes to the extension its sender is bound to by then.
LEMMA SendSafe ==
  ASSUME SetupInv, NEW t \in Tests, NEW op \in Ops, SendInstruction(t, op)
  PROVE  SetupInv'
<1>t. SetupTypeOK /\ test \in [Tests -> TestType] /\ TestIsTrue(t)
  BY DEF SetupInv, SetupTypeOK
<1>1. PICK run \in TestType : run = test[t] /\ run.stage = op
  BY <1>t DEF SendInstruction
<1>2. PICK c \in Chains, cfg \in ConfigType, e \in Nat :
        /\ c = run.chain /\ cfg = run.config
        /\ e = extensionId[c][cfg.sender] /\ e # 0 /\ cfg.sender \in Senders
  <2>1. run.stage \notin {"start", "failed", "bind"}
    BY <1>1 DEF Ops
  <2>2. run.chain \in Chains /\ run.config \in ConfigType
    BY <1>t, <1>1, <2>1 DEF TestIsTrue
  <2>3. run.config.sender \in Senders
    BY <2>2 DEF ConfigType
  <2>4. extensionId[run.chain][run.config.sender] \in Nat
    BY <1>t, <2>2, <2>3 DEF SetupTypeOK
  <2> QED
    BY <1>t, <1>1, <2>1, <2>2, <2>3, <2>4 DEF TestIsTrue
<1> DEFINE new == [test |-> t, op |-> op, chain |-> c, config |-> cfg, extension |-> e]
<1>3. /\ UNCHANGED <<testsOnly, extensionId, service, executed>>
      /\ \/ sent' = sent \cup {new} /\ (To(t, Poll[op]) \/ Fails(t))
         \/ sent' = sent /\ Fails(t)
  BY <1>1, <1>2 DEF SendInstruction
<1>4. /\ test' \in [Tests -> TestType]
      /\ \A x \in Tests \ {t} : test'[x] = test[x]
      /\ TestIsTrue(t)'
      /\ test'[t].stage # "failed" =>
           /\ test'[t].stage \notin {"start", "bind"}
           /\ test'[t].chain = c /\ test'[t].config = cfg
  <2>1. CASE Fails(t)
    BY <1>t, <2>1, FailsEffect
  <2>2. CASE To(t, Poll[op])
    <3>1. Poll[op] \in {"poll hello", "poll goodbye"}
      BY PollStages DEF Ops
    <3>2. /\ test' \in [Tests -> TestType]
          /\ \A x \in Tests \ {t} : test'[x] = test[x]
          /\ test'[t].stage = Poll[op] /\ test'[t].answer = "none"
          /\ test'[t].chain = c /\ test'[t].config = cfg
      BY <1>t, <1>1, <1>2, <2>2, <3>1, ToEffect
    <3>3. Poll[op] = "poll goodbye" => Served(t, "SAY_HELLO")
      BY <1>t, <1>1, PollStages DEF TestIsTrue, Ops
    <3>4. Poll[op] = "poll goodbye" => Served(t, "SAY_HELLO")'
      BY <1>1, <1>2, <1>3, <3>2, <3>3 DEF Served
    <3>5. TestIsTrue(t)'
      BY <1>2, <1>3, <3>1, <3>2, <3>4 DEF TestIsTrue
    <3> QED
      BY <3>1, <3>2, <3>5
  <2> QED
    BY <1>3, <2>1, <2>2
<1>5. SetupTypeOK'
  <2>1. new \in [test: Tests, op: Ops, chain: Chains, config: ConfigType, extension: Nat]
    OBVIOUS
  <2> HIDE DEF new
  <2> QED
    BY <1>t, <1>3, <1>4, <2>1 DEF SetupTypeOK, testsOnly
<1>6. IdsStay /\ BoundToOldest'
  BY <1>3 DEF SetupInv, IdsStay, BoundToOldest, Claims, testsOnly
<1>7. \A x \in Tests : TestIsTrue(x)'
  <2> TAKE x \in Tests
  <2>1. CASE x # t
    BY <1>t, <1>3, <1>4, <1>6, <2>1, TestStaysTrue DEF SetupInv
  <2> QED
    BY <1>4, <2>1
<1>8. ASSUME NEW i \in sent' PROVE SentIsTrue(i)'
  <2>1. CASE i \in sent
    <3>1. SentIsTrue(i) /\ i.test \in Tests
      BY <1>t, <2>1, SentTypes DEF SetupInv
    <3>2. CASE i.test = t
      <4>1. test[t].stage # "failed" /\ test[t].chain = c /\ test[t].config = cfg
        BY <1>1, <1>2 DEF Ops
      <4> QED
        BY <1>t, <1>4, <1>6, <2>1, <3>1, <3>2, <4>1, SentStaysTrue
    <3>3. CASE i.test # t
      BY <1>t, <1>4, <1>6, <2>1, <3>1, <3>3, SentStaysTrue DEF SentIsTrue
    <3> QED
      BY <3>2, <3>3
  <2>2. CASE i = new
    <3>1. /\ i.test = t /\ i.chain = c /\ i.config = cfg /\ i.extension = e
      BY <2>2
    <3> QED
      BY <1>2, <1>3, <1>4, <3>1 DEF SentIsTrue
  <2> QED
    BY <1>3, <1>8, <2>1, <2>2
<1> QED
  BY <1>3, <1>5, <1>6, <1>7, <1>8, TestFrame

\* Whatever a test has been answered before, an answer "completed" that comes
\* now is that of an executed instruction of its own.
LEMMA ExecuteSafe ==
  ASSUME SetupInv, NEW i \in sent, Execute(i)
  PROVE  SetupInv'
<1> DEFINE t == i.test
           Answers(status) == test' = IF test[t].stage = Poll[i.op]
                                        THEN [test EXCEPT ![t].answer = status] ELSE test
<1>t. SetupTypeOK /\ test \in [Tests -> TestType] /\ SentIsTrue(i)
  BY DEF SetupInv, SetupTypeOK
<1>i. t \in Tests /\ i.op \in Ops /\ i.chain \in Chains /\ i.config \in ConfigType
  BY <1>t, SentTypes
<1>1. /\ UNCHANGED <<testsOnly, chainVars, service>>
      /\ \/ Answers("pending") /\ executed' = executed
         \/ /\ executed' = executed \cup {i}
            /\ Answers("completed") \/ Answers("failed")
  BY DEF Execute
<1>2. PICK status \in {"pending", "completed", "failed"} :
        /\ Answers(status)
        /\ status = "completed" => i \in executed'
        /\ executed' \in {executed, executed \cup {i}}
  BY <1>1
<1>3. PICK run \in TestType : run = test[t]
  BY <1>t, <1>i
<1>4. PICK new \in TestType : new = [run EXCEPT !.answer = status]
  BY DEF TestType
<1>5. /\ new.answer = status /\ new.stage = run.stage
      /\ new.chain = run.chain /\ new.config = run.config
  BY <1>4 DEF TestType
<1>6. \/ run.stage = Poll[i.op] /\ test' = [test EXCEPT ![t] = new]
      \/ test' = test
  BY <1>2, <1>3, <1>4 DEF TestType
<1>7. /\ test' \in [Tests -> TestType]
      /\ \A x \in Tests \ {t} : test'[x] = test[x]
      /\ \A x \in Tests : /\ test'[x].stage = test[x].stage
                          /\ test'[x].chain = test[x].chain
                          /\ test'[x].config = test[x].config
      /\ test'[t] = test[t] \/ (test'[t] = new /\ run.stage = Poll[i.op])
  BY <1>t, <1>i, <1>3, <1>5, <1>6
<1>8. SetupTypeOK'
  BY <1>t, <1>1, <1>2, <1>7 DEF SetupTypeOK, testsOnly, chainVars
<1>9. IdsStay /\ BoundToOldest'
  BY <1>1 DEF SetupInv, IdsStay, BoundToOldest, Claims, chainVars
<1>10. \A x \in Tests : TestIsTrue(x)'
  <2> TAKE x \in Tests
  <2>0. TestIsTrue(x) /\ executed \subseteq executed'
    BY <1>2 DEF SetupInv
  <2>1. CASE test'[x] = test[x]
    BY <1>t, <1>9, <2>0, <2>1, TestStaysTrue
  <2>2. CASE test'[x] # test[x]
    <3>1. x = t /\ test'[t] = new /\ run.stage = Poll[i.op]
      BY <1>7, <2>2
    <3>2. run.stage \in {"poll hello", "poll goodbye"}
      BY <1>i, <3>1, PollStages DEF Ops
    <3>3. /\ run.chain \in Chains /\ run.config \in ConfigType
          /\ extensionId[run.chain][run.config.sender] # 0
          /\ run.stage = "poll goodbye" => Served(t, "SAY_HELLO")
      BY <1>3, <2>0, <3>1, <3>2 DEF TestIsTrue
    <3>4. run.stage = "poll goodbye" => Served(t, "SAY_HELLO")'
      BY <1>1, <1>3, <1>5, <2>0, <3>1, <3>3 DEF Served, chainVars
    <3>5. status = "completed" => Served(t, i.op)'
      <4>1. run.chain = i.chain /\ run.config = i.config
        BY <1>t, <1>3, <3>2 DEF SentIsTrue
      <4> QED
        BY <1>t, <1>1, <1>2, <1>5, <3>1, <4>1 DEF Served, SentIsTrue, chainVars
    <3>6. \A op \in Ops : Poll[op] = run.stage => op = i.op
      BY <1>i, <3>1, PollStages DEF Ops
    <3>7. extensionId' = extensionId
      BY <1>1 DEF chainVars
    <3> QED
      BY <1>5, <3>1, <3>2, <3>3, <3>4, <3>5, <3>6, <3>7 DEF TestIsTrue
  <2> QED
    BY <2>1, <2>2
<1>11. ASSUME NEW j \in sent' PROVE SentIsTrue(j)'
  <2>1. j \in sent /\ SentIsTrue(j) /\ j.test \in Tests
    BY <1>t, <1>1, <1>11, SentTypes DEF SetupInv, chainVars
  <2> QED
    BY <1>t, <1>7, <1>9, <2>1, SentStaysTrue DEF SentIsTrue
<1> QED
  BY <1>1, <1>8, <1>9, <1>10, <1>11, TestFrame DEF chainVars

\* A test moves on from an answer "completed" only.
LEMMA VerifyResultSafe ==
  ASSUME SetupInv, NEW t \in Tests, NEW op \in Ops, VerifyResult(t, op)
  PROVE  SetupInv'
<1>t. SetupTypeOK /\ test \in [Tests -> TestType] /\ TestIsTrue(t)
  BY DEF SetupInv, SetupTypeOK
<1>1. /\ test[t].stage = Poll[op] /\ UNCHANGED <<chainVars, testsOnly, service, executed>>
      /\ (test[t].answer = "completed" /\ To(t, Then[op])) \/ Fails(t)
  BY DEF VerifyResult
<1>2. Poll[op] \in {"poll hello", "poll goodbye"} /\ Then[op] \in {"SAY_GOODBYE", "passed"}
  BY PollStages DEF Ops
<1>3. /\ test' \in [Tests -> TestType]
      /\ \A x \in Tests \ {t} : test'[x] = test[x]
      /\ TestIsTrue(t)'
      /\ test'[t].stage # "failed" =>
           /\ test'[t].stage \notin {"start", "bind"}
           /\ test'[t].chain = test[t].chain /\ test'[t].config = test[t].config
  <2>1. CASE Fails(t)
    BY <1>t, <2>1, FailsEffect
  <2>2. CASE test[t].answer = "completed" /\ To(t, Then[op])
    <3>1. /\ test' \in [Tests -> TestType]
          /\ \A x \in Tests \ {t} : test'[x] = test[x]
          /\ test'[t].stage = Then[op] /\ test'[t].answer = "none"
          /\ test'[t].chain = test[t].chain /\ test'[t].config = test[t].config
      BY <1>t, <1>2, <2>2, ToEffect
    <3>2. /\ test[t].chain \in Chains /\ test[t].config \in ConfigType
          /\ extensionId[test[t].chain][test[t].config.sender] # 0
          /\ Served(t, op)
          /\ Poll[op] = "poll goodbye" => Served(t, "SAY_HELLO")
      BY <1>t, <1>1, <1>2, <2>2 DEF TestIsTrue
    <3>3. \A o \in Ops : Served(t, o) => Served(t, o)'
      BY <1>1, <3>1 DEF Served, chainVars
    <3>4. extensionId' = extensionId
      BY <1>1 DEF chainVars
    <3>5. CASE op = "SAY_HELLO"
      BY <1>2, <3>1, <3>2, <3>3, <3>4, <3>5, PollStages DEF TestIsTrue
    <3>6. CASE op = "SAY_GOODBYE"
      BY <1>2, <3>1, <3>2, <3>3, <3>4, <3>6, PollStages DEF TestIsTrue, Ops
    <3> QED
      BY <1>2, <3>1, <3>5, <3>6 DEF Ops
  <2> QED
    BY <1>1, <2>1, <2>2
<1>4. SetupTypeOK'
  BY <1>t, <1>1, <1>3 DEF SetupTypeOK, testsOnly, chainVars
<1>5. IdsStay /\ BoundToOldest'
  BY <1>1 DEF SetupInv, IdsStay, BoundToOldest, Claims, chainVars
<1>6. \A x \in Tests : TestIsTrue(x)'
  <2> TAKE x \in Tests
  <2>1. CASE x # t
    BY <1>t, <1>1, <1>3, <1>5, <2>1, TestStaysTrue DEF SetupInv
  <2> QED
    BY <1>3, <2>1
<1>7. ASSUME NEW i \in sent' PROVE SentIsTrue(i)'
  <2>1. i \in sent /\ SentIsTrue(i) /\ i.test \in Tests
    BY <1>t, <1>1, <1>7, SentTypes DEF SetupInv, chainVars
  <2>2. CASE i.test = t
    BY <1>t, <1>1, <1>2, <1>3, <1>5, <2>1, <2>2, SentStaysTrue
  <2>3. CASE i.test # t
    BY <1>t, <1>3, <1>5, <2>1, <2>3, SentStaysTrue DEF SentIsTrue
  <2> QED
    BY <2>2, <2>3
<1> QED
  BY <1>1, <1>4, <1>5, <1>6, <1>7, TestFrame

-----------------------------------------------------------------------------

\* Every step of a build, a test or a service keeps the invariant of set-up,
\* and takes nothing from a chain.
LEMMA SetupSafe ==
  ASSUME SetupInv, SetupNext
  PROVE  SetupInv' /\ ChainsGrow
<1>t. SetupTypeOK /\ \A b \in Builds : BuildIsTrue(b)
  BY DEF SetupInv
<1>1. ASSUME NEW b \in Builds, NEW c \in Chains, deployContract(b, c)
      PROVE  SetupInv' /\ ChainsGrow
  BY <1>1, DeploySafe
<1>2. ASSUME NEW b \in Builds, NEW c \in Chains, registerExtensionAgain(b, c)
      PROVE  SetupInv' /\ ChainsGrow
  BY <1>2, RegisterSafe DEF registerExtensionAgain
<1>3. ASSUME NEW b \in Builds, registerExtension(b)
      PROVE  SetupInv' /\ ChainsGrow
  <2>1. build[b].stage = "register" /\ Register(b, build[b].chain, build[b].sender)
    BY <1>3 DEF registerExtension
  <2>2. build[b].chain \in Chains /\ build[b].sender \in 1 .. deployed[build[b].chain]
    BY <1>t, <2>1 DEF BuildIsTrue
  <2>3. PICK c \in Chains : c = build[b].chain
    BY <2>2
  <2>4. PICK s \in 1 .. deployed[c] : s = build[b].sender
    BY <2>2, <2>3
  <2> QED
    BY <2>1, <2>3, <2>4, RegisterSafe
<1>4. ASSUME NEW b \in Builds,
             \/ allowTeeMachineOwners(b) \/ allowTeeProjectManagerOwners(b)
             \/ AddSupportedKeyTypes(b)
      PROVE  SetupInv' /\ ChainsGrow
  <2>1. CASE allowTeeMachineOwners(b)
    BY <2>1, GrantSafe DEF allowTeeMachineOwners
  <2>2. CASE allowTeeProjectManagerOwners(b)
    BY <2>2, GrantSafe DEF allowTeeProjectManagerOwners
  <2>3. CASE AddSupportedKeyTypes(b)
    BY <2>3, GrantSafe DEF AddSupportedKeyTypes
  <2> QED
    BY <1>4, <2>1, <2>2, <2>3
<1>5. ASSUME NEW b \in Builds, TruncateConfig(b) \/ WriteConfig(b)
      PROVE  SetupInv' /\ ChainsGrow
  <2>1. deployed' = deployed /\ registry' = registry
    BY <1>5 DEF TruncateConfig, WriteConfig
  <2> QED
    BY <1>t, <1>5, <2>1, TruncateSafe, WriteSafe, SameChainsGrow
<1>6. ASSUME StopServices \/ \E c \in Chains : StartServices(c)
      PROVE  SetupInv' /\ ChainsGrow
  <2>1. deployed' = deployed /\ registry' = registry
    BY <1>6 DEF StopServices, StartServices, chainVars
  <2> QED
    BY <1>t, <1>6, <2>1, ServicesSafe, SameChainsGrow
<1>7. ASSUME NEW t \in Tests, NEW c \in Chains, ReadConfig(t, c)
      PROVE  SetupInv' /\ ChainsGrow
  <2>1. deployed' = deployed /\ registry' = registry
    BY <1>7 DEF ReadConfig, testsOnly
  <2> QED
    BY <1>t, <1>7, <2>1, ReadConfigSafe, SameChainsGrow
<1>8. ASSUME NEW t \in Tests, setExtensionId(t)
      PROVE  SetupInv' /\ ChainsGrow
  <2>1. deployed' = deployed /\ registry' = registry
    BY <1>8 DEF setExtensionId, testsOnly
  <2> QED
    BY <1>t, <1>8, <2>1, SetIdSafe, SameChainsGrow
<1>9. ASSUME NEW t \in Tests, NEW op \in Ops, SendInstruction(t, op) \/ VerifyResult(t, op)
      PROVE  SetupInv' /\ ChainsGrow
  <2>1. deployed' = deployed /\ registry' = registry
    BY <1>9 DEF SendInstruction, VerifyResult, testsOnly
  <2> QED
    BY <1>t, <1>9, <2>1, SendSafe, VerifyResultSafe, SameChainsGrow
<1>10. ASSUME NEW i \in sent, Execute(i)
       PROVE  SetupInv' /\ ChainsGrow
  <2>1. deployed' = deployed /\ registry' = registry
    BY <1>10 DEF Execute, testsOnly
  <2> QED
    BY <1>t, <1>10, <2>1, ExecuteSafe, SameChainsGrow
<1> QED
  BY <1>1, <1>2, <1>3, <1>4, <1>5, <1>6, <1>7, <1>8, <1>9, <1>10 DEF SetupNext

\* The invariant of set-up holds when nothing is built.
LEMMA SetupInitSafe == SetupInit => SetupInv
<1>1. SUFFICES ASSUME SetupInit PROVE SetupInv
  OBVIOUS
<1> DEFINE start == NotRunning("start")
           idle == NotTesting("start")
<1>2. /\ start \in BuildType /\ start.stage = "start"
      /\ idle \in TestType /\ idle.stage = "start"
  BY DEF NotRunning, NotTesting, BuildType, TestType
<1>3. /\ \A b \in Builds : build[b] = start
      /\ \A t \in Tests : test[t] = idle
      /\ build \in [Builds -> BuildType] /\ test \in [Tests -> TestType]
  BY <1>1, <1>2 DEF SetupInit
<1> HIDE DEF start, idle
<1>4. /\ registry \in [Chains -> Seq(EntryType)]
      /\ \A c \in Chains : \A i \in DOMAIN registry[c] : registry[c][i] = Entry(NoOne)
  <2>1. Entry(NoOne) \in EntryType
    BY DEF Entry, EntryType, NoOne
  <2>2. <<>> \in Seq(EntryType) /\ <<Entry(NoOne)>> \in Seq(EntryType)
    BY <2>1
  <2>3. registry \in [Chains -> {<<>>, <<Entry(NoOne)>>}]
    BY <1>1 DEF SetupInit
  <2>4. PICK e : e = Entry(NoOne)
    OBVIOUS
  <2>5. \A i \in DOMAIN <<e>> : <<e>>[i] = e
    OBVIOUS
  <2>6. \A i \in DOMAIN <<>> : <<>>[i] = e
    OBVIOUS
  <2>7. ASSUME NEW c \in Chains
        PROVE  \A i \in DOMAIN registry[c] : registry[c][i] = e
    <3>1. registry[c] = <<>> \/ registry[c] = <<e>>
      BY <2>3, <2>4
    <3> QED
      BY <2>5, <2>6, <3>1
  <2>8. registry \in [Chains -> Seq(EntryType)]
    BY <2>2, <2>3
  <2> QED
    BY <2>4, <2>7, <2>8
<1>5. /\ deployed = [c \in Chains |-> 0]
      /\ extensionId = [c \in Chains |-> [s \in Senders |-> 0]]
      /\ config = NoConfig /\ service = NoService /\ sent = {} /\ executed = {}
  BY <1>1 DEF SetupInit
<1>6. SetupTypeOK
  BY <1>3, <1>4, <1>5 DEF SetupTypeOK
<1>7. OwnSenders
  <2>1. IsFiniteSet({b \in Builds : build[b].stage # "start"})
    BY SetupAssumption, FS_Subset
  <2>2. Cardinality({b \in Builds : build[b].stage # "start"}) \in Nat
    BY <2>1, FS_CardinalityType
  <2> QED
    BY <1>5, <2>2 DEF OwnSenders
<1>8. KeysComeLast
  BY <1>4 DEF KeysComeLast, Entry
<1>9. BoundToOldest /\ ConfigIsReady
  BY <1>5 DEF BoundToOldest, ConfigIsReady, Written
<1>10. \A op \in Ops : Poll[op] # "start"
  BY PollStages DEF Ops
<1>11. /\ \A b \in Builds : BuildIsTrue(b)
       /\ \A t \in Tests : TestIsTrue(t)
       /\ \A i \in sent : SentIsTrue(i)
  BY <1>2, <1>3, <1>5, <1>10 DEF BuildIsTrue, TestIsTrue
<1> QED
  BY <1>6, <1>7, <1>8, <1>9, <1>11 DEF SetupInv

-----------------------------------------------------------------------------
(* verify-deploy *)

CheckIds == {Checks[i] : i \in DOMAIN Checks}
Statuses == {"PASS", "WARN", "FAIL", "SKIP"}

\* The checks there are.
LEMMA CheckNames ==
  CheckIds = {"D1-D6", "D7", "parse", "R1", "R2", "R3", "R4", "R7", "S2", "V4", "E1"}
  BY DEF CheckIds, Checks

\* When its turn comes, a registration check finds the config read, and the
\* uniqueness check finds the counter read.
LEMMA TurnOrder ==
  ASSUME NEW v \in Verifiers, NEW id, Turn(v, id)
  PROVE  /\ verify[v].exit = "running" /\ id \in verify[v].todo
         /\ id \in OnChain => "parse" \notin verify[v].todo
         /\ id = "R7" => "R1" \notin verify[v].todo
<1>1. /\ DOMAIN Checks = 1 .. 11
      /\ Checks[3] = "parse" /\ Checks[4] = "R1" /\ Checks[5] = "R2" /\ Checks[6] = "R3"
      /\ Checks[7] = "R4" /\ Checks[8] = "R7"
  BY DEF Checks
<1>2. \A i, j \in 1 .. 11 : Checks[j] = id /\ i < j => Checks[i] \notin verify[v].todo
  BY <1>1 DEF Turn
<1>3. ASSUME id \in OnChain PROVE "parse" \notin verify[v].todo
  <2>1. \E j \in 4 .. 8 : Checks[j] = id
    BY <1>1, <1>3 DEF OnChain
  <2> QED
    BY <1>1, <1>2, <2>1
<1>4. ASSUME id = "R7" PROVE "R1" \notin verify[v].todo
  BY <1>1, <1>2, <1>4
<1> QED
  BY <1>3, <1>4 DEF Turn

\* The invariant of set-up reads nothing but the variables of set-up.
LEMMA SetupUnchanged ==
  ASSUME SetupInv, UNCHANGED setupVars
  PROVE  SetupInv'
<1>1. SetupTypeOK' /\ OwnSenders' /\ KeysComeLast' /\ BoundToOldest'
  BY DEF SetupInv, setupVars, chainVars, SetupTypeOK, OwnSenders,
     KeysComeLast, BoundToOldest, Claims
<1>2. ConfigIsReady'
  BY DEF SetupInv, setupVars, chainVars, ConfigIsReady, Written, Ready
<1>3. \A b \in Builds : BuildIsTrue(b)'
  BY DEF SetupInv, setupVars, chainVars, BuildIsTrue
<1>4. \A t \in Tests : TestIsTrue(t)'
  <2>1. test' = test /\ extensionId' = extensionId /\ executed' = executed
    BY DEF setupVars, chainVars
  <2>2. \A t \in Tests : TestIsTrue(t)
    BY DEF SetupInv
  <2>3. ASSUME NEW t \in Tests PROVE TestIsTrue(t) => TestIsTrue(t)'
    BY <2>1 DEF TestIsTrue, Served
  <2> QED
    BY <2>2, <2>3
<1>5. \A i \in sent' : SentIsTrue(i)'
  BY DEF SetupInv, setupVars, chainVars, SentIsTrue
<1> QED
  BY <1>1, <1>2, <1>3, <1>4, <1>5 DEF SetupInv

\* A step of one report leaves the others and the set-up alone.
LEMMA ReportFrame ==
  ASSUME VerifyInv, UNCHANGED setupVars, NEW v \in Verifiers,
         verify' \in [Verifiers -> VerifyType],
         \A x \in Verifiers \ {v} : verify'[x] = verify[x],
         OrderIsKept(v)', ReportIsTrue(v)'
  PROVE  VerifyInv'
<1>1. SetupInv'
  BY SetupUnchanged DEF VerifyInv
<1>2. ASSUME NEW x \in Verifiers PROVE OrderIsKept(x)' /\ ReportIsTrue(x)'
  <2>1. registry' = registry
    BY DEF setupVars, chainVars
  <2>2. CASE x # v
    <3>1. verify'[x] = verify[x] /\ OrderIsKept(x) /\ ReportIsTrue(x)
      BY <2>2 DEF VerifyInv
    <3>2. OrderIsKept(x)'
      BY <2>1, <3>1 DEF OrderIsKept
    <3>3. ReportIsTrue(x)'
      BY <2>1, <3>1 DEF ReportIsTrue, Shows, Claims
    <3> QED
      BY <3>2, <3>3
  <2> QED
    BY <2>2
<1> QED
  BY <1>1, <1>2 DEF VerifyInv

\* The result of a check, found or not found because its lookup failed.
LEMMA ResultEffect ==
  ASSUME verify \in [Verifiers -> VerifyType], NEW v \in Verifiers,
         NEW id \in CheckIds, NEW status \in Statuses,
         Add(v, id, status) \/ Fault(v, id, status)
  PROVE  /\ verify' \in [Verifiers -> VerifyType]
         /\ \A x \in Verifiers \ {v} : verify'[x] = verify[x]
         /\ verify'[v].todo = verify[v].todo \ {id}
         /\ verify'[v].report = verify[v].report \cup {[id |-> id, status |-> status]}
         /\ verify'[v].exit = verify[v].exit /\ verify'[v].chain = verify[v].chain
         /\ verify'[v].config = verify[v].config /\ verify'[v].counter = verify[v].counter
         /\ Fault(v, id, status) => id \in verify'[v].faults
         /\ verify[v].faults \subseteq verify'[v].faults
<1>1. PICK run \in VerifyType : run = verify[v]
  OBVIOUS
<1>2. PICK todo \in SUBSET CheckIds, report \in SUBSET ReportType, faults \in SUBSET CheckIds :
        /\ todo = run.todo \ {id}
        /\ report = run.report \cup {[id |-> id, status |-> status]}
        /\ faults = IF Fault(v, id, status) THEN run.faults \cup {id} ELSE run.faults
  <2>1. run.todo \subseteq CheckIds /\ run.report \subseteq ReportType /\ run.faults \subseteq CheckIds
    BY DEF VerifyType, CheckIds
  <2>2. [id |-> id, status |-> status] \in ReportType
    BY DEF ReportType, CheckIds, Statuses
  <2> QED
    BY <2>1, <2>2
<1>3. PICK new \in VerifyType :
        new = [run EXCEPT !.todo = todo, !.report = report, !.faults = faults]
  BY <1>2 DEF VerifyType, CheckIds
<1>4. /\ new.todo = todo /\ new.report = report /\ new.faults = faults
      /\ new.exit = run.exit /\ new.chain = run.chain /\ new.config = run.config
      /\ new.counter = run.counter
  BY <1>3 DEF VerifyType
<1>5. verify' = [verify EXCEPT ![v] = new]
  <2>1. CASE ~Fault(v, id, status)
    <3>1. new = [run EXCEPT !.todo = todo, !.report = report]
      BY <1>2, <1>3, <2>1 DEF VerifyType
    <3> QED
      BY <1>1, <1>2, <2>1, <3>1 DEF Add, VerifyType
  <2>2. CASE Fault(v, id, status)
    <3>1. faults = run.faults \cup {id}
      BY <1>2, <2>2
    <3>2. new = [run EXCEPT !.todo = todo, !.faults = faults, !.report = report]
      BY <1>3 DEF VerifyType
    <3>3. verify' = [verify EXCEPT ![v].todo = todo, ![v].faults = faults, ![v].report = report]
      BY <1>1, <1>2, <2>2, <3>1 DEF Fault
    <3> QED
      BY <1>1, <3>2, <3>3 DEF VerifyType
  <2> QED
    BY <2>1, <2>2
<1>6. verify'[v] = new
  BY <1>5
<1> QED
  BY <1>1, <1>2, <1>4, <1>5, <1>6

\* A result that comes in its turn keeps the order, and what the report showed
\* before stays true: only the new result has to be shown.
LEMMA ResultSafe ==
  ASSUME VerifyInv, UNCHANGED setupVars, NEW v \in Verifiers,
         NEW id \in CheckIds \ {"parse"}, NEW status \in Statuses,
         Turn(v, id), Add(v, id, status) \/ Fault(v, id, status),
         id \in {"R2", "R3", "R4"} => status \in {"PASS", "FAIL"},
         id \in {"R2", "R3", "R4"} /\ status = "PASS" =>
           /\ verify[v].config.extension \in DOMAIN registry[verify[v].chain]
           /\ LET entry == registry[verify[v].chain][verify[v].config.extension] IN
              /\ id = "R2" => entry.sender = verify[v].config.sender
              /\ id = "R3" => entry.machineOwner
              /\ id = "R4" => entry.evmKeys,
         id = "R7" /\ status = "PASS" =>
           \/ Fault(v, id, status)
           \/ /\ verify[v].counter # NoCounter
              /\ LET scanned == 1 .. verify[v].counter
                                 \cap Claims(verify[v].chain, verify[v].config.sender)
                 IN  \A i, j \in scanned : i = j
  PROVE  VerifyInv'
<1>t. verify \in [Verifiers -> VerifyType] /\ OrderIsKept(v) /\ ReportIsTrue(v)
  BY DEF VerifyInv
<1>r. registry' = registry
  BY DEF setupVars, chainVars
<1>o. /\ verify[v].exit = "running" /\ id \in verify[v].todo
      /\ id \in OnChain => "parse" \notin verify[v].todo
      /\ id = "R7" => "R1" \notin verify[v].todo
  BY TurnOrder
<1>1. PICK run \in VerifyType, new \in VerifyType :
        /\ run = verify[v] /\ new = verify'[v]
        /\ verify' \in [Verifiers -> VerifyType]
        /\ \A x \in Verifiers \ {v} : verify'[x] = verify[x]
        /\ new.todo = run.todo \ {id}
        /\ new.report = run.report \cup {[id |-> id, status |-> status]}
        /\ new.exit = run.exit /\ new.chain = run.chain
        /\ new.config = run.config /\ new.counter = run.counter
        /\ Fault(v, id, status) => id \in new.faults
        /\ verify[v].faults \subseteq new.faults
  <2>1. /\ verify' \in [Verifiers -> VerifyType]
        /\ \A x \in Verifiers \ {v} : verify'[x] = verify[x]
        /\ verify'[v].todo = verify[v].todo \ {id}
        /\ verify'[v].report = verify[v].report \cup {[id |-> id, status |-> status]}
        /\ verify'[v].exit = verify[v].exit /\ verify'[v].chain = verify[v].chain
        /\ verify'[v].config = verify[v].config /\ verify'[v].counter = verify[v].counter
        /\ Fault(v, id, status) => id \in verify'[v].faults
        /\ verify[v].faults \subseteq verify'[v].faults
    BY <1>t, ResultEffect
  <2> QED
    BY <1>t, <2>1
<1>2. /\ \A x : (\E r \in new.report : r.id = x) <=> (\E r \in run.report : r.id = x) \/ x = id
      /\ \A x, st : [id |-> x, status |-> st] \in new.report <=>
            [id |-> x, status |-> st] \in run.report \/ (x = id /\ st = status)
  BY <1>1
<1>3. OrderIsKept(v)'
  <2>1. run.exit = "running" /\ run.chain \in Chains
    BY <1>t, <1>o, <1>1 DEF OrderIsKept
  <2>2. /\ id \in OnChain => "parse" \notin run.todo /\ run.config \in ConfigType
        /\ id = "R7" => "R1" \notin run.todo
    BY <1>t, <1>o, <1>1 DEF OrderIsKept
  <2>3. \A x \in OnChain : (\E r \in new.report : r.id = x) =>
          x \notin new.todo /\ "parse" \notin new.todo /\ new.chain \in Chains
    BY <1>t, <1>1, <1>2, <2>1, <2>2 DEF OrderIsKept
  <2>4. (\E r \in new.report : r.id = "R7") => "R1" \notin new.todo
    BY <1>t, <1>1, <1>2, <2>2 DEF OrderIsKept
  <2>5. new.todo \cap OnChain # {} /\ "parse" \notin new.todo => new.config \in ConfigType
    BY <1>t, <1>1 DEF OrderIsKept
  <2>6. \A x \in {"R2", "R3", "R4", "R7"} :
          (\E r \in new.report : r.id = x) => new.config \in ConfigType
    BY <1>t, <1>1, <1>2, <2>2 DEF OrderIsKept, OnChain
  <2>7. new.counter # NoCounter =>
          /\ new.counter \in Nat /\ new.chain \in Chains /\ "R1" \notin new.todo
          /\ new.counter <= Len(registry'[new.chain])
    BY <1>t, <1>r, <1>1 DEF OrderIsKept
  <2> QED
    BY <1>1, <2>1, <2>3, <2>4, <2>5, <2>6, <2>7 DEF OrderIsKept
<1>4. ReportIsTrue(v)'
  <2> DEFINE entries == registry[run.chain]
             named == run.config.extension
             scanned == 1 .. run.counter \cap Claims(run.chain, run.config.sender)
  <2>1. /\ \A x \in {"R2", "R3", "R4"} :
             /\ [id |-> x, status |-> "PASS"] \in new.report => named \in DOMAIN entries
             /\ [id |-> x, status |-> "WARN"] \notin new.report
        /\ [id |-> "R2", status |-> "PASS"] \in new.report =>
             entries[named].sender = run.config.sender
        /\ [id |-> "R3", status |-> "PASS"] \in new.report => entries[named].machineOwner
        /\ [id |-> "R4", status |-> "PASS"] \in new.report => entries[named].evmKeys
    BY <1>t, <1>1, <1>2 DEF ReportIsTrue, Shows
  <2>2. [id |-> "R7", status |-> "PASS"] \in new.report /\ "R7" \notin new.faults =>
          run.counter # NoCounter /\ \A i, j \in scanned : i = j
    BY <1>t, <1>1, <1>2 DEF ReportIsTrue, Shows
  <2>3. new.exit # "success"
    BY <1>o, <1>1
  <2>4. Claims(run.chain, run.config.sender)' = Claims(run.chain, run.config.sender)
    BY <1>r DEF Claims
  <2> QED
    BY <1>r, <1>1, <2>1, <2>2, <2>3, <2>4 DEF ReportIsTrue, Shows, Claims
<1> QED
  BY <1>1, <1>3, <1>4, ReportFrame

\* The flags are read: a run with registration checks will read the config.
LEMMA StartSafe ==
  ASSUME VerifyInv, NEW v \in Verifiers, NEW c \in Chains, StartVerify(v, c)
  PROVE  VerifyInv'
<1>t. verify \in [Verifiers -> VerifyType] /\ OrderIsKept(v) /\ ReportIsTrue(v)
  BY DEF VerifyInv
<1>1. PICK run \in VerifyType : run = verify[v]
  BY <1>t
<1>2. /\ run.exit = "not run" /\ run.report = {} /\ run.todo = {} /\ run.counter = NoCounter
  BY <1>t, <1>1 DEF StartVerify, OrderIsKept
<1>3. PICK step \in StepFlags, path \in BOOLEAN :
        \/ verify' = [verify EXCEPT ![v] = [@ EXCEPT !.todo = Steps[step], !.exit = "running",
                                                     !.chain = c, !.path = path]]
        \/ verify' = [verify EXCEPT ![v].exit = "failure"]
  BY DEF StartVerify
<1>4. /\ Steps[step] \subseteq CheckIds
      /\ Steps[step] \cap OnChain # {} => "parse" \in Steps[step]
  <2>1. step \in {"deploy", "register", "services", "version", "machine", "test", "all"}
    BY VerifyAssumption DEF Steps
  <2>2. /\ Steps["deploy"] = {"D1-D6", "D7"} /\ Steps["register"] = RegisterChecks
        /\ Steps["services"] = {"S2"} /\ Steps["version"] = {"V4"}
        /\ Steps["machine"] = {} /\ Steps["test"] = {"E1"} /\ Steps["all"] = CheckIds
    BY DEF Steps, CheckIds
  <2> QED
    BY <2>1, <2>2, CheckNames DEF RegisterChecks, OnChain
<1>5. PICK new \in VerifyType :
        /\ verify' = [verify EXCEPT ![v] = new]
        /\ new.report = {} /\ new.counter = NoCounter
        /\ \/ new.exit = "failure" /\ new.todo = {}
           \/ new.exit = "running" /\ new.todo = Steps[step] /\ new.chain = c
  <2>1. CASE verify' = [verify EXCEPT ![v].exit = "failure"]
    <3>1. PICK new \in VerifyType : new = [run EXCEPT !.exit = "failure"]
      BY DEF VerifyType
    <3>2. /\ new.report = run.report /\ new.counter = run.counter
          /\ new.exit = "failure" /\ new.todo = run.todo
      BY <3>1 DEF VerifyType
    <3>3. verify' = [verify EXCEPT ![v] = new]
      BY <1>t, <1>1, <2>1, <3>1
    <3> QED
      BY <1>2, <3>2, <3>3
  <2>2. CASE verify' = [verify EXCEPT ![v] = [@ EXCEPT !.todo = Steps[step], !.exit = "running",
                                                       !.chain = c, !.path = path]]
    <3>1. PICK todo \in SUBSET CheckIds : todo = Steps[step]
      BY <1>4
    <3>2. PICK new \in VerifyType :
            new = [run EXCEPT !.todo = todo, !.exit = "running", !.chain = c, !.path = path]
      BY DEF VerifyType, CheckIds
    <3>3. /\ new.report = run.report /\ new.counter = run.counter
          /\ new.exit = "running" /\ new.todo = todo /\ new.chain = c
      BY <3>2 DEF VerifyType
    <3>4. verify' = [verify EXCEPT ![v] = new]
      BY <1>t, <1>1, <2>2, <3>1, <3>2
    <3> QED
      BY <1>2, <3>1, <3>3, <3>4
  <2> QED
    BY <1>3, <2>1, <2>2
<1>6. /\ verify' \in [Verifiers -> VerifyType] /\ verify'[v] = new
      /\ \A x \in Verifiers \ {v} : verify'[x] = verify[x]
  BY <1>t, <1>5
<1>7. OrderIsKept(v)'
  BY <1>4, <1>5, <1>6 DEF OrderIsKept
<1>8. ReportIsTrue(v)'
  BY <1>5, <1>6 DEF ReportIsTrue, Shows
<1>9. UNCHANGED setupVars
  BY DEF StartVerify
<1> QED
  BY <1>6, <1>7, <1>8, <1>9, ReportFrame

\* The config is read once, before any registration check; without one, all of
\* them are skipped.
LEMMA ParseSafe ==
  ASSUME VerifyInv, NEW v \in Verifiers, parseExtensionEnv(v)
  PROVE  VerifyInv'
<1>t. verify \in [Verifiers -> VerifyType] /\ OrderIsKept(v) /\ ReportIsTrue(v)
  BY DEF VerifyInv
<1>u. UNCHANGED setupVars /\ registry' = registry
  BY DEF parseExtensionEnv, setupVars, chainVars
<1>1. PICK run \in VerifyType : run = verify[v]
  BY <1>t
<1>2. run.exit = "running" /\ "parse" \in run.todo /\ run.chain \in Chains
  BY <1>t, <1>1, TurnOrder DEF parseExtensionEnv, OrderIsKept
<1>3. \A id \in OnChain : ~\E r \in run.report : r.id = id
  BY <1>t, <1>1, <1>2 DEF OrderIsKept
<1>4. PICK new \in VerifyType :
        /\ verify' = [verify EXCEPT ![v] = new]
        /\ new.exit = "running" /\ new.chain = run.chain /\ new.counter = run.counter
        /\ new.todo \subseteq run.todo
        /\ \A id \in OnChain : ~\E r \in new.report : r.id = id
        /\ new.todo \cap OnChain # {} => new.config \in ConfigType
  <2>1. CASE verify[v].path /\ Written
               /\ verify' = [verify EXCEPT ![v].todo = @ \ {"parse"}, ![v].config = config]
    <3>1. PICK cfg \in ConfigType : cfg = config
      BY <2>1 DEF VerifyInv, SetupInv, SetupTypeOK, Written
    <3>2. PICK todo \in SUBSET CheckIds : todo = run.todo \ {"parse"}
      BY DEF VerifyType, CheckIds
    <3>3. PICK new \in VerifyType : new = [run EXCEPT !.todo = todo, !.config = cfg]
      BY DEF VerifyType, CheckIds
    <3>4. /\ new.report = run.report /\ new.counter = run.counter /\ new.config = cfg
          /\ new.exit = run.exit /\ new.todo = todo /\ new.chain = run.chain
      BY <3>3 DEF VerifyType
    <3>5. verify' = [verify EXCEPT ![v] = new]
      BY <1>1, <2>1, <3>1, <3>2, <3>3
    <3> QED
      BY <1>2, <1>3, <3>2, <3>4, <3>5
  <2>2. ASSUME NEW F \in SUBSET CheckIds, Instead(v, "SKIP", F)
        PROVE  \E new \in VerifyType :
                 /\ verify' = [verify EXCEPT ![v] = new]
                 /\ new.exit = "running" /\ new.chain = run.chain /\ new.counter = run.counter
                 /\ new.todo \subseteq run.todo
                 /\ \A id \in OnChain : ~\E r \in new.report : r.id = id
                 /\ new.todo \cap OnChain # {} => new.config \in ConfigType
    <3>1. PICK todo \in SUBSET CheckIds : todo = run.todo \ RegisterChecks
      BY DEF VerifyType, CheckIds
    <3>2. PICK report \in SUBSET ReportType :
            report = run.report \cup {[id |-> "R1-R7", status |-> "SKIP"]}
      <4>1. [id |-> "R1-R7", status |-> "SKIP"] \in ReportType
        BY DEF ReportType
      <4> QED
        BY <4>1 DEF VerifyType
    <3>3. PICK new \in VerifyType :
            new = [run EXCEPT !.todo = todo, !.faults = F, !.report = report]
      BY DEF VerifyType, CheckIds
    <3>4. /\ new.report = report /\ new.counter = run.counter
          /\ new.exit = run.exit /\ new.todo = todo /\ new.chain = run.chain
      BY <3>3 DEF VerifyType
    <3>5. verify' = [verify EXCEPT ![v] = new]
      <4>1. verify' = [verify EXCEPT ![v].todo = todo, ![v].faults = F, ![v].report = report]
        BY <1>1, <2>2, <3>1, <3>2 DEF Instead
      <4> QED
        BY <1>1, <3>3, <4>1
    <3>6. todo \cap OnChain = {} /\ "R1-R7" \notin OnChain
      BY <3>1 DEF RegisterChecks, OnChain
    <3>7. \A id \in OnChain : ~\E r \in new.report : r.id = id
      BY <1>3, <3>2, <3>4, <3>6
    <3>8. new.todo \subseteq run.todo /\ new.todo \cap OnChain = {}
      BY <3>1, <3>4, <3>6
    <3> QED
      BY <1>2, <3>4, <3>5, <3>7, <3>8
  <2>3. verify[v].faults \in SUBSET CheckIds /\ verify[v].faults \cup {"parse"} \in SUBSET CheckIds
    BY <1>1, CheckNames DEF VerifyType, CheckIds
  <2> QED
    BY <2>1, <2>2, <2>3 DEF parseExtensionEnv
<1>5. /\ verify' \in [Verifiers -> VerifyType] /\ verify'[v] = new
      /\ \A x \in Verifiers \ {v} : verify'[x] = verify[x]
  BY <1>t, <1>4
<1>6. OrderIsKept(v)'
  <2>1. /\ new.counter # NoCounter =>
             /\ new.counter \in Nat /\ new.chain \in Chains /\ "R1" \notin new.todo
             /\ new.counter <= Len(registry'[new.chain])
    BY <1>t, <1>u, <1>1, <1>4 DEF OrderIsKept
  <2>2. \A id \in {"R2", "R3", "R4", "R7"} : ~\E r \in new.report : r.id = id
    BY <1>4 DEF OnChain
  <2> QED
    BY <1>2, <1>4, <1>5, <2>1, <2>2 DEF OrderIsKept
<1>7. ReportIsTrue(v)'
  <2>1. \A id \in {"R2", "R3", "R4", "R7"} : \A st :
          [id |-> id, status |-> st] \notin new.report
    BY <1>4 DEF OnChain
  <2> QED
    BY <1>4, <1>5, <2>1 DEF ReportIsTrue, Shows
<1> QED
  BY <1>u, <1>5, <1>6, <1>7, ReportFrame

\* The counter is that of the chain, which only grows from there.
LEMMA CounterSafe ==
  ASSUME VerifyInv, NEW v \in Verifiers, CheckCounter(v)
  PROVE  VerifyInv'
<1>t. verify \in [Verifiers -> VerifyType] /\ OrderIsKept(v) /\ ReportIsTrue(v)
  BY DEF VerifyInv
<1>u. UNCHANGED setupVars /\ registry' = registry
  BY DEF CheckCounter, setupVars, chainVars
<1>1. PICK run \in VerifyType : run = verify[v]
  BY <1>t
<1>2. /\ Turn(v, "R1") /\ run.exit = "running" /\ run.chain \in Chains
      /\ "R1" \in run.todo /\ "parse" \notin run.todo
  BY <1>t, <1>1, TurnOrder DEF CheckCounter, OrderIsKept, OnChain
<1>3. PICK n \in Nat : n = Len(registry[run.chain])
  BY <1>2, Registries DEF VerifyInv, SetupInv
<1>4. PICK status \in {"WARN", "PASS"} : status = IF n = 0 THEN "WARN" ELSE "PASS"
  OBVIOUS
<1>5. CASE Fault(v, "R1", "FAIL")
  BY <1>u, <1>2, <1>5, CheckNames, ResultSafe DEF Statuses
<1>6. CASE verify' = [verify EXCEPT ![v].todo = @ \ {"R1"}, ![v].counter = n,
                         ![v].report = @ \cup {[id |-> "R1", status |-> status]}]
  <2>1. PICK todo \in SUBSET CheckIds : todo = run.todo \ {"R1"}
    BY DEF VerifyType, CheckIds
  <2>2. PICK report \in SUBSET ReportType :
          report = run.report \cup {[id |-> "R1", status |-> status]}
    <3>1. [id |-> "R1", status |-> status] \in ReportType
      BY CheckNames DEF ReportType, CheckIds
    <3> QED
      BY <3>1 DEF VerifyType
  <2>3. PICK new \in VerifyType :
          new = [run EXCEPT !.todo = todo, !.counter = n, !.report = report]
    BY DEF VerifyType, CheckIds
  <2>4. /\ new.report = report /\ new.counter = n /\ new.config = run.config
        /\ new.exit = run.exit /\ new.todo = todo /\ new.chain = run.chain
        /\ new.faults = run.faults
    BY <2>3 DEF VerifyType
  <2>5. verify' = [verify EXCEPT ![v] = new]
    <3>1. verify' = [verify EXCEPT ![v].todo = todo, ![v].counter = n, ![v].report = report]
      BY <1>1, <1>6, <2>1, <2>2
    <3> QED
      BY <1>1, <2>3, <3>1
  <2>6. /\ verify' \in [Verifiers -> VerifyType] /\ verify'[v] = new
        /\ \A x \in Verifiers \ {v} : verify'[x] = verify[x]
    BY <1>t, <2>5
  <2>7. /\ \A x : (\E r \in new.report : r.id = x)
                   <=> (\E r \in run.report : r.id = x) \/ x = "R1"
        /\ \A x, st : x # "R1" => ([id |-> x, status |-> st] \in new.report
                                   <=> [id |-> x, status |-> st] \in run.report)
    BY <2>2, <2>4
  <2>8. ~\E r \in new.report : r.id = "R7"
    BY <1>t, <1>1, <1>2, <2>7 DEF OrderIsKept
  <2>9. OrderIsKept(v)'
    <3>1. \A x \in OnChain : (\E r \in new.report : r.id = x) =>
            x \notin new.todo /\ "parse" \notin new.todo /\ new.chain \in Chains
      BY <1>t, <1>1, <1>2, <2>1, <2>4, <2>7 DEF OrderIsKept
    <3>2. new.todo \cap OnChain # {} /\ "parse" \notin new.todo => new.config \in ConfigType
      BY <1>t, <1>1, <2>1, <2>4 DEF OrderIsKept
    <3>3. \A x \in {"R2", "R3", "R4", "R7"} :
            (\E r \in new.report : r.id = x) => new.config \in ConfigType
      BY <1>t, <1>1, <2>4, <2>7 DEF OrderIsKept
    <3>4. /\ new.counter \in Nat /\ new.chain \in Chains /\ "R1" \notin new.todo
          /\ new.counter <= Len(registry'[new.chain])
      BY <1>u, <1>2, <1>3, <2>1, <2>4
    <3> QED
      BY <1>2, <2>4, <2>6, <2>8, <3>1, <3>2, <3>3, <3>4 DEF OrderIsKept
  <2>10. ReportIsTrue(v)'
    <3>1. \A st : [id |-> "R7", status |-> st] \notin new.report
      BY <2>8
    <3>2. /\ \A x \in {"R2", "R3", "R4"} :
               /\ [id |-> x, status |-> "PASS"] \in new.report =>
                    run.config.extension \in DOMAIN registry[run.chain]
               /\ [id |-> x, status |-> "WARN"] \notin new.report
          /\ [id |-> "R2", status |-> "PASS"] \in new.report =>
               registry[run.chain][run.config.extension].sender = run.config.sender
          /\ [id |-> "R3", status |-> "PASS"] \in new.report =>
               registry[run.chain][run.config.extension].machineOwner
          /\ [id |-> "R4", status |-> "PASS"] \in new.report =>
               registry[run.chain][run.config.extension].evmKeys
      BY <1>t, <1>1, <2>7 DEF ReportIsTrue, Shows
    <3> QED
      BY <1>u, <1>2, <2>4, <2>6, <3>1, <3>2 DEF ReportIsTrue, Shows
  <2> QED
    BY <1>u, <2>6, <2>9, <2>10, ReportFrame
<1> QED
  BY <1>1, <1>3, <1>4, <1>5, <1>6 DEF CheckCounter

\* A lookup passes only if the entry the config names holds what is asked.
LEMMA LookupSafe ==
  ASSUME VerifyInv, NEW v \in Verifiers,
         CheckSender(v) \/ CheckMachineOwner(v) \/ CheckKeyType(v)
  PROVE  VerifyInv'
<1> DEFINE entries == registry[verify[v].chain]
           ext == verify[v].config.extension
<1>1. CASE CheckSender(v)
  <2>1. PICK status \in {"PASS", "FAIL"} :
          /\ status = "PASS" => /\ ext \in DOMAIN entries
                                /\ entries[ext].sender = verify[v].config.sender
          /\ Turn(v, "R2") /\ UNCHANGED setupVars
          /\ Add(v, "R2", status) \/ Fault(v, "R2", status)
    BY <1>1 DEF CheckSender, Lookup
  <2> QED
    BY <2>1, CheckNames, ResultSafe DEF Statuses
<1>2. CASE CheckMachineOwner(v)
  <2>1. PICK status \in {"PASS", "FAIL"} :
          /\ status = "PASS" => ext \in DOMAIN entries /\ entries[ext].machineOwner
          /\ Turn(v, "R3") /\ UNCHANGED setupVars
          /\ Add(v, "R3", status) \/ Fault(v, "R3", status)
    BY <1>2 DEF CheckMachineOwner, Lookup
  <2> QED
    BY <2>1, CheckNames, ResultSafe DEF Statuses
<1>3. CASE CheckKeyType(v)
  <2>1. PICK status \in {"PASS", "FAIL"} :
          /\ status = "PASS" => ext \in DOMAIN entries /\ entries[ext].evmKeys
          /\ Turn(v, "R4") /\ UNCHANGED setupVars
          /\ Add(v, "R4", status) \/ Fault(v, "R4", status)
    BY <1>3 DEF CheckKeyType, Lookup
  <2> QED
    BY <2>1, CheckNames, ResultSafe DEF Statuses
<1> QED
  BY <1>1, <1>2, <1>3

\* A set of ids with at most one member.
LEMMA AtMostOne ==
  ASSUME NEW S, IsFiniteSet(S), ~(Cardinality(S) > 1)
  PROVE  \A i, j \in S : i = j
<1>1. SUFFICES ASSUME NEW i \in S, NEW j \in S, i # j PROVE FALSE
  OBVIOUS
<1>2. IsFiniteSet({i}) /\ Cardinality({i}) = 1
  BY FS_Singleton
<1>3. Cardinality({i} \cup {j}) = 2
  BY <1>1, <1>2, FS_AddElement
<1>4. {i} \cup {j} \in SUBSET S
  BY <1>1
<1>5. Cardinality({i} \cup {j}) <= Cardinality(S) /\ Cardinality(S) \in Nat
  BY <1>4, FS_Subset, FS_CardinalityType
<1> QED
  BY <1>3, <1>5

\* Of the extensions counted, at most one is the sender's if none is missed.
LEMMA UniqueSafe ==
  ASSUME VerifyInv, NEW v \in Verifiers, CheckUnique(v)
  PROVE  VerifyInv'
<1>t. verify \in [Verifiers -> VerifyType] /\ OrderIsKept(v) /\ ReportIsTrue(v)
  BY DEF VerifyInv
<1>u. UNCHANGED setupVars /\ registry' = registry
  BY DEF CheckUnique, setupVars, chainVars
<1> DEFINE counter == verify[v].counter
           claims == Claims(verify[v].chain, verify[v].config.sender)
<1>1. CASE counter \in {NoCounter, 0} /\ verify' = [verify EXCEPT ![v].todo = @ \ {"R7"}]
  <2>1. PICK run \in VerifyType : run = verify[v]
    BY <1>t
  <2>2. PICK todo \in SUBSET CheckIds : todo = run.todo \ {"R7"}
    BY DEF VerifyType, CheckIds
  <2>3. PICK new \in VerifyType : new = [run EXCEPT !.todo = todo]
    BY DEF VerifyType, CheckIds
  <2>4. /\ new.report = run.report /\ new.counter = run.counter /\ new.config = run.config
        /\ new.exit = run.exit /\ new.todo = todo /\ new.chain = run.chain
        /\ new.faults = run.faults
    BY <2>3 DEF VerifyType
  <2>5. /\ verify' \in [Verifiers -> VerifyType] /\ verify'[v] = new
        /\ \A x \in Verifiers \ {v} : verify'[x] = verify[x]
    BY <1>t, <1>1, <2>1, <2>2, <2>3
  <2>6. "parse" \notin run.todo
    BY <2>1, TurnOrder DEF CheckUnique, OnChain
  <2>7. OrderIsKept(v)'
    BY <1>t, <1>u, <2>1, <2>2, <2>4, <2>5, <2>6 DEF OrderIsKept
  <2>8. ReportIsTrue(v)'
    BY <1>t, <1>u, <2>1, <2>4, <2>5 DEF ReportIsTrue, Shows, Claims
  <2> QED
    BY <1>u, <2>5, <2>7, <2>8, ReportFrame
<1>2. ASSUME counter \notin {NoCounter, 0}, Add(v, "R7", Unique(v, 1..counter))
      PROVE  VerifyInv'
  <2>1. counter \in Nat
    BY <1>t, <1>2 DEF OrderIsKept
  <2>2. IsFiniteSet(1..counter \cap claims)
    <3>1. IsFiniteSet(1..counter)
      <4>1. 1 \in Int /\ counter \in Int
        BY <2>1
      <4> QED
        BY <4>1, FS_Interval
    <3>2. 1..counter \cap claims \in SUBSET (1..counter)
      OBVIOUS
    <3> HIDE DEF claims, counter
    <3> QED
      BY <3>1, <3>2, FS_Subset
  <2>3. PICK status \in {"PASS", "WARN"} : status = Unique(v, 1..counter)
    BY DEF Unique
  <2>4. status = "PASS" => ~(Cardinality(1..counter \cap claims) > 1)
    BY <2>3 DEF Unique
  <2>5. status = "PASS" => \A i, j \in 1..counter \cap claims : i = j
    BY <2>2, <2>4, AtMostOne
  <2> QED
    BY <1>u, <1>2, <2>3, <2>5, CheckNames, ResultSafe DEF CheckUnique, Statuses
<1>3. ASSUME NEW i \in 1..counter, Fault(v, "R7", Unique(v, 1..counter \ {i}))
      PROVE  VerifyInv'
  <2>1. PICK status \in {"PASS", "WARN"} : status = Unique(v, 1..counter \ {i})
    BY DEF Unique
  <2> QED
    BY <1>u, <1>3, <2>1, CheckNames, ResultSafe DEF CheckUnique, Statuses
<1> QED
  BY <1>1, <1>2, <1>3 DEF CheckUnique

\* The checks of the chain, of the config file and of the services say nothing
\* about an extension.
LEMMA OtherChecksSafe ==
  ASSUME VerifyInv, NEW v \in Verifiers,
         \/ CheckChain(v) \/ CheckExtensionEnvFormat(v)
         \/ CheckServices(v) \/ CheckTeeVersion(v) \/ CheckTest(v)
  PROVE  VerifyInv'
<1>t. verify \in [Verifiers -> VerifyType] /\ OrderIsKept(v) /\ ReportIsTrue(v)
  BY DEF VerifyInv
<1>u. UNCHANGED setupVars /\ registry' = registry
  BY DEF CheckChain, CheckExtensionEnvFormat, CheckServices, CheckTeeVersion, CheckTest,
     setupVars, chainVars
<1>1. \A absent \in {"SKIP", "FAIL"} : FileStatus(v, absent) \in Statuses
  <2>1. verify[v].path \in BOOLEAN
    BY <1>t DEF VerifyType
  <2>2. config = NoConfig \/ config = Empty \/ Written
    BY DEF Written
  <2> QED
    BY <2>1, <2>2 DEF FileStatus, Statuses
<1>2. ASSUME NEW id \in {"D1-D6", "D7", "S2", "V4", "E1"}, Turn(v, id),
             NEW status \in Statuses, Add(v, id, status) \/ Fault(v, id, status)
      PROVE  VerifyInv'
  BY <1>u, <1>2, CheckNames, ResultSafe
<1>3. CASE CheckChain(v)
  BY <1>2, <1>3 DEF CheckChain, Statuses
<1>4. CASE CheckServices(v) \/ CheckTeeVersion(v) \/ CheckTest(v)
  BY <1>1, <1>2, <1>4 DEF CheckServices, CheckTeeVersion, CheckTest
<1>5. CASE CheckExtensionEnvFormat(v)
  <2>1. Turn(v, "D7")
    BY <1>5 DEF CheckExtensionEnvFormat
  <2>2. CASE Add(v, "D7", FileStatus(v, "SKIP"))
    BY <1>1, <1>2, <2>1, <2>2
  <2>3. CASE verify' = [verify EXCEPT ![v].todo = @ \ {"D7"}]
    <3>1. PICK run \in VerifyType : run = verify[v]
      BY <1>t
    <3>2. PICK todo \in SUBSET CheckIds : todo = run.todo \ {"D7"}
      BY DEF VerifyType, CheckIds
    <3>3. PICK new \in VerifyType : new = [run EXCEPT !.todo = todo]
      BY DEF VerifyType, CheckIds
    <3>4. /\ new.report = run.report /\ new.counter = run.counter /\ new.config = run.config
          /\ new.exit = run.exit /\ new.todo = todo /\ new.chain = run.chain
          /\ new.faults = run.faults
      BY <3>3 DEF VerifyType
    <3>5. /\ verify' \in [Verifiers -> VerifyType] /\ verify'[v] = new
          /\ \A x \in Verifiers \ {v} : verify'[x] = verify[x]
      BY <1>t, <2>3, <3>1, <3>2, <3>3
    <3>6. OrderIsKept(v)'
      BY <1>t, <1>u, <3>1, <3>2, <3>4, <3>5 DEF OrderIsKept
    <3>7. ReportIsTrue(v)'
      BY <1>t, <1>u, <3>1, <3>4, <3>5 DEF ReportIsTrue, Shows, Claims
    <3> QED
      BY <1>u, <3>5, <3>6, <3>7, ReportFrame
  <2> QED
    BY <1>5, <2>2, <2>3 DEF CheckExtensionEnvFormat
<1> QED
  BY <1>3, <1>4, <1>5

\* The filter only takes results away, and a run succeeds if no failure is left.
LEMMA FinishSafe ==
  ASSUME VerifyInv, NEW v \in Verifiers, Finish(v)
  PROVE  VerifyInv'
<1>t. verify \in [Verifiers -> VerifyType] /\ OrderIsKept(v) /\ ReportIsTrue(v)
  BY DEF VerifyInv
<1>u. UNCHANGED setupVars /\ registry' = registry
  BY DEF Finish, setupVars, chainVars
<1>1. PICK run \in VerifyType : run = verify[v] /\ run.exit = "running" /\ run.todo = {}
  BY <1>t DEF Finish
<1>2. PICK report \in SUBSET run.report, exit \in {"failure", "success"} :
        /\ verify' = [verify EXCEPT ![v].report = report, ![v].exit = exit]
        /\ exit = "success" => ~HasFailures(report)
  <2>1. PICK ids \in Filters :
          LET visible == {r \in run.report : r.id \in ids} IN
          verify' = [verify EXCEPT ![v].report = visible,
                                   ![v].exit = IF HasFailures(visible) THEN "failure"
                                                                      ELSE "success"]
    BY <1>1 DEF Finish
  <2> DEFINE visible == {r \in run.report : r.id \in ids}
  <2>2. visible \in SUBSET run.report
    OBVIOUS
  <2>3. CASE HasFailures(visible)
    BY <2>1, <2>2, <2>3
  <2>4. CASE ~HasFailures(visible)
    BY <2>1, <2>2, <2>4
  <2> QED
    BY <2>3, <2>4
<1>3. PICK new \in VerifyType : new = [run EXCEPT !.report = report, !.exit = exit]
  BY <1>2 DEF VerifyType
<1>4. /\ new.report = report /\ new.counter = run.counter /\ new.config = run.config
      /\ new.exit = exit /\ new.todo = run.todo /\ new.chain = run.chain
      /\ new.faults = run.faults
  BY <1>3 DEF VerifyType
<1>5. /\ verify' \in [Verifiers -> VerifyType] /\ verify'[v] = new
      /\ \A x \in Verifiers \ {v} : verify'[x] = verify[x]
  BY <1>t, <1>1, <1>2, <1>3
<1>6. OrderIsKept(v)'
  BY <1>t, <1>u, <1>1, <1>4, <1>5 DEF OrderIsKept
<1>7. ReportIsTrue(v)'
  BY <1>t, <1>u, <1>1, <1>2, <1>4, <1>5 DEF ReportIsTrue, Shows, Claims
<1> QED
  BY <1>u, <1>5, <1>6, <1>7, ReportFrame

\* What a report says stays true while the chains grow under it.
LEMMA SetupUnderReports ==
  ASSUME VerifyInv, SetupNext, UNCHANGED verify
  PROVE  VerifyInv'
<1>1. SetupInv' /\ ChainsGrow /\ SetupTypeOK /\ SetupTypeOK'
  <2>1. SetupInv' /\ ChainsGrow
    BY SetupSafe DEF VerifyInv
  <2> QED
    BY <2>1 DEF VerifyInv, SetupInv
<1>2. ASSUME NEW v \in Verifiers PROVE OrderIsKept(v)' /\ ReportIsTrue(v)'
  <2>t. OrderIsKept(v) /\ ReportIsTrue(v)
    BY DEF VerifyInv
  <2>1. PICK run \in VerifyType : run = verify[v] /\ run = verify'[v]
    BY DEF VerifyInv
  <2>2. \A c \in Chains : /\ Len(registry[c]) \in Nat /\ Len(registry'[c]) \in Nat
                          /\ Len(registry[c]) <= Len(registry'[c])
    BY <1>1, Registries, NewRegistries DEF ChainsGrow
  <2>3. run.counter # NoCounter =>
          /\ run.counter \in Nat /\ run.chain \in Chains
          /\ run.counter <= Len(registry[run.chain])
    BY <2>t, <2>1 DEF OrderIsKept
  <2>4. run.counter # NoCounter => run.counter <= Len(registry'[run.chain])
    BY <2>2, <2>3
  <2>5. OrderIsKept(v)'
    BY <2>t, <2>1, <2>4 DEF OrderIsKept
  <2>6. \A id \in {"R2", "R3", "R4"} :
          /\ [id |-> id, status |-> "WARN"] \notin run.report
          /\ [id |-> id, status |-> "PASS"] \in run.report =>
               /\ run.chain \in Chains
               /\ run.config.extension \in DOMAIN registry[run.chain]
    <3>1. \A id \in OnChain : (\E r \in run.report : r.id = id) => run.chain \in Chains
      BY <2>t, <2>1 DEF OrderIsKept
    <3>2. \A id \in OnChain : [id |-> id, status |-> "PASS"] \in run.report =>
            run.chain \in Chains
      BY <3>1
    <3>3. \A id \in {"R2", "R3", "R4"} :
            /\ [id |-> id, status |-> "WARN"] \notin run.report
            /\ [id |-> id, status |-> "PASS"] \in run.report =>
                 run.config.extension \in DOMAIN registry[run.chain]
      BY <2>t, <2>1 DEF ReportIsTrue, Shows
    <3> QED
      BY <3>2, <3>3 DEF OnChain
  <2>7. \A id \in {"R2", "R3", "R4"} :
          [id |-> id, status |-> "PASS"] \in run.report =>
            run.config.extension \in DOMAIN registry'[run.chain]
    BY <1>1, <2>6, DomainsGrow
  <2>8. /\ [id |-> "R2", status |-> "PASS"] \in run.report =>
             registry'[run.chain][run.config.extension].sender = run.config.sender
        /\ [id |-> "R3", status |-> "PASS"] \in run.report =>
             registry'[run.chain][run.config.extension].machineOwner
        /\ [id |-> "R4", status |-> "PASS"] \in run.report =>
             registry'[run.chain][run.config.extension].evmKeys
    BY <1>1, <2>t, <2>1, <2>6 DEF ReportIsTrue, Shows, ChainsGrow
  <2>9. run.counter # NoCounter =>
          1 .. run.counter \cap Claims(run.chain, run.config.sender)'
            = 1 .. run.counter \cap Claims(run.chain, run.config.sender)
    <3>1. SUFFICES ASSUME run.counter # NoCounter, NEW i \in 1 .. run.counter
                   PROVE  i \in Claims(run.chain, run.config.sender)'
                            <=> i \in Claims(run.chain, run.config.sender)
      OBVIOUS
    <3>2. i \in DOMAIN registry[run.chain] /\ i \in DOMAIN registry'[run.chain]
      BY <1>1, <2>3, <2>4, <3>1, Registries, NewRegistries
    <3> QED
      BY <1>1, <2>3, <3>1, <3>2 DEF Claims, ChainsGrow
  <2>10. /\ [id |-> "R7", status |-> "PASS"] \in run.report /\ "R7" \notin run.faults =>
              /\ run.counter # NoCounter
              /\ \A i, j \in 1 .. run.counter \cap Claims(run.chain, run.config.sender)' :
                   i = j
         /\ run.exit = "success" => ~HasFailures(run.report)
    BY <2>t, <2>1, <2>9 DEF ReportIsTrue, Shows
  <2>11. ReportIsTrue(v)'
    BY <2>1, <2>6, <2>7, <2>8, <2>10 DEF ReportIsTrue, Shows, Claims
  <2> QED
    BY <2>5, <2>11
<1> QED
  BY <1>1, <1>2 DEF VerifyInv

-----------------------------------------------------------------------------

\* The invariant of reports holds when nothing has run.
LEMMA VerifyInitSafe == VerifyInit => VerifyInv
<1>1. SUFFICES ASSUME VerifyInit PROVE VerifyInv
  OBVIOUS
<1>2. SetupInv
  BY <1>1, SetupInitSafe DEF VerifyInit
<1> DEFINE new == [todo |-> {}, exit |-> "not run", chain |-> "none", path |-> TRUE,
                   config |-> NoConfig, counter |-> NoCounter, faults |-> {}, report |-> {}]
<1>3. /\ new \in VerifyType /\ new.exit = "not run" /\ new.todo = {} /\ new.report = {}
      /\ new.counter = NoCounter
  BY DEF VerifyType
<1>4. verify = [v \in Verifiers |-> new]
  BY <1>1 DEF VerifyInit
<1> HIDE DEF new
<1>5. ASSUME NEW v \in Verifiers PROVE OrderIsKept(v) /\ ReportIsTrue(v)
  BY <1>3, <1>4 DEF OrderIsKept, ReportIsTrue, Shows
<1> QED
  BY <1>2, <1>3, <1>4, <1>5 DEF VerifyInv

\* Every step, of set-up or of a report, keeps the invariant.
LEMMA VerifyNextSafe == VerifyInv /\ [VerifyNext]_allVars => VerifyInv'
<1>1. SUFFICES ASSUME VerifyInv, [VerifyNext]_allVars PROVE VerifyInv'
  OBVIOUS
<1>2. CASE SetupNext /\ UNCHANGED verify
  BY <1>1, <1>2, SetupUnderReports
<1>3. ASSUME NEW v \in Verifiers,
             \/ \E c \in Chains : StartVerify(v, c)
             \/ parseExtensionEnv(v) \/ CheckCounter(v) \/ CheckUnique(v)
      PROVE  VerifyInv'
  BY <1>1, <1>3, StartSafe, ParseSafe, CounterSafe, UniqueSafe
<1>4. ASSUME NEW v \in Verifiers,
             \/ CheckSender(v) \/ CheckMachineOwner(v) \/ CheckKeyType(v)
      PROVE  VerifyInv'
  BY <1>1, <1>4, LookupSafe
<1>5. ASSUME NEW v \in Verifiers,
             \/ CheckChain(v) \/ CheckExtensionEnvFormat(v)
             \/ CheckServices(v) \/ CheckTeeVersion(v) \/ CheckTest(v)
      PROVE  VerifyInv'
  BY <1>1, <1>5, OtherChecksSafe
<1>6. ASSUME NEW v \in Verifiers, Finish(v)
      PROVE  VerifyInv'
  BY <1>1, <1>6, FinishSafe
<1>7. CASE UNCHANGED allVars
  <2>1. UNCHANGED setupVars /\ UNCHANGED verify
    BY <1>7 DEF allVars
  <2>2. registry' = registry /\ verify' = verify
    BY <2>1 DEF setupVars, chainVars
  <2>3. SetupInv'
    BY <1>1, <2>1, SetupUnchanged DEF VerifyInv
  <2>4. ASSUME NEW v \in Verifiers PROVE OrderIsKept(v)' /\ ReportIsTrue(v)'
    <3>1. OrderIsKept(v) /\ ReportIsTrue(v)
      BY <1>1 DEF VerifyInv
    <3>2. OrderIsKept(v)'
      BY <2>2, <3>1 DEF OrderIsKept
    <3>3. ReportIsTrue(v)'
      BY <2>2, <3>1 DEF ReportIsTrue, Shows, Claims
    <3> QED
      BY <3>2, <3>3
  <2> QED
    BY <1>1, <2>2, <2>3, <2>4 DEF VerifyInv
<1> QED
  BY <1>1, <1>2, <1>3, <1>4, <1>5, <1>6, <1>7 DEF VerifyNext

\* The registries, the config, the tests and the reports agree throughout, for
\* any number of chains, builds, tests and reports under way at once.
THEOREM VerifyInvariant == VerifySpec => []VerifyInv
BY VerifyInitSafe, VerifyNextSafe, PTL DEF VerifySpec

\* However many runs of pre-build.sh overlap or are cut short, a config that is
\* written names an extension that is ready on some chain.
THEOREM WrittenConfigsAreReady == VerifySpec => []ConfigIsReady
<1>1. VerifyInv => ConfigIsReady
  BY DEF VerifyInv, SetupInv
<1> QED
  BY <1>1, VerifyInvariant, PTL

\* However many tests run, a test passes only on two executed instructions of
\* its own, for the extension its sender is bound to.
THEOREM PassedTestsWereServed == VerifySpec => []PassedTestWasServed
<1>1. VerifyInv => PassedTestWasServed
  <2>1. SUFFICES ASSUME VerifyInv, NEW t \in Tests, test[t].stage = "passed", NEW op \in Ops
                 PROVE  Served(t, op)
    BY DEF PassedTestWasServed, Served
  <2>2. TestIsTrue(t)
    BY <2>1 DEF VerifyInv, SetupInv
  <2>3. Served(t, "SAY_HELLO") /\ Served(t, "SAY_GOODBYE")
    BY <2>1, <2>2 DEF TestIsTrue
  <2> QED
    BY <2>3 DEF Ops
<1> QED
  BY <1>1, VerifyInvariant, PTL

\* Whatever is built, rewritten and switched while it runs, a clean report is
\* about an extension that is ready, the role it never asks for included.
THEOREM CleanReportsAreTrue == VerifySpec => []CleanReportIsReady
<1>1. VerifyInv => CleanReportIsReady
  <2>1. SUFFICES ASSUME VerifyInv, NEW v \in Verifiers, verify[v].exit = "success",
                        \A id \in {"R2", "R3", "R4"} :
                          \E s \in {"PASS", "WARN", "FAIL"} : Shows(v, id, s)
                 PROVE  Ready(verify[v].chain, verify[v].config)
    BY DEF CleanReportIsReady
  <2>2. OrderIsKept(v) /\ ReportIsTrue(v) /\ SetupTypeOK /\ KeysComeLast
    BY <2>1 DEF VerifyInv, SetupInv
  <2>3. \A id \in {"R2", "R3", "R4"} : Shows(v, id, "PASS")
    <3>1. \A id : ~Shows(v, id, "FAIL")
      BY <2>1, <2>2 DEF ReportIsTrue, HasFailures, Shows
    <3> QED
      BY <2>1, <2>2, <3>1 DEF ReportIsTrue
  <2>4. PICK c, e, s : c = verify[v].chain /\ e = verify[v].config.extension
                       /\ s = verify[v].config.sender
    OBVIOUS
  <2>5. c \in Chains
    <3>1. [id |-> "R2", status |-> "PASS"] \in verify[v].report
      BY <2>3 DEF Shows
    <3>2. \E r \in verify[v].report : r.id = "R2"
      BY <3>1
    <3> QED
      BY <2>2, <2>4, <3>2 DEF OrderIsKept, OnChain
  <2>6. /\ e \in DOMAIN registry[c] /\ registry[c][e].sender = s
        /\ registry[c][e].machineOwner /\ registry[c][e].evmKeys
    BY <2>2, <2>3, <2>4 DEF ReportIsTrue
  <2>7. registry[c][e].projectOwner
    BY <2>2, <2>5, <2>6 DEF KeysComeLast
  <2>8. PICK entry \in EntryType : entry = registry[c][e]
    BY <2>2, <2>5, <2>6, Registries
  <2>9. entry = [sender |-> s, machineOwner |-> TRUE, projectOwner |-> TRUE, evmKeys |-> TRUE]
    BY <2>6, <2>7, <2>8 DEF EntryType
  <2> QED
    BY <2>4, <2>6, <2>8, <2>9 DEF Ready
<1> QED
  BY <1>1, VerifyInvariant, PTL

\* An instruction whose config was verified on its chain, the extension it
\* names among those counted, reaches that extension: the sender's id is its
\* oldest extension, and the report has seen that there is but one up to there.
THEOREM VerifiedInstructionsArrive == VerifySpec => []VerifiedInstructionsReachTheirExtension
<1>1. VerifyInv => VerifiedInstructionsReachTheirExtension
  <2>1. SUFFICES ASSUME VerifyInv, NEW v \in Verifiers, NEW i \in sent,
                        "R7" \notin verify[v].faults,
                        Shows(v, "R2", "PASS"), Shows(v, "R7", "PASS"),
                        verify[v].config.extension \in 1..verify[v].counter,
                        i.chain = verify[v].chain, i.config = verify[v].config
                 PROVE  i.extension = i.config.extension
    BY DEF VerifiedInstructionsReachTheirExtension
  <2>2. /\ OrderIsKept(v) /\ ReportIsTrue(v) /\ SentIsTrue(i)
        /\ SetupTypeOK /\ BoundToOldest
    BY <2>1 DEF VerifyInv, SetupInv
  <2>3. PICK c \in Chains, s \in Senders, named \in Nat, e \in Nat, n \in Nat :
          /\ c = i.chain /\ s = i.config.sender /\ named = i.config.extension
          /\ e = i.extension /\ n = verify[v].counter /\ n # NoCounter
    <3>1. /\ i.chain \in Chains /\ i.config \in ConfigType /\ i.config.sender \in Senders
          /\ i.extension \in Nat
      BY <2>2, SentTypes
    <3>2. i.config.extension \in Nat
      BY <3>1 DEF ConfigType
    <3>3. verify[v].counter # NoCounter
      BY <2>1, <2>2 DEF ReportIsTrue
    <3>4. verify[v].counter \in Nat
      BY <2>2, <3>3 DEF OrderIsKept
    <3> QED
      BY <3>1, <3>2, <3>3, <3>4
  <2>4. e = extensionId[c][s] /\ e # 0
    BY <2>2, <2>3 DEF SentIsTrue
  <2>5. e \in Claims(c, s) /\ \A j \in Claims(c, s) : e <= j
    BY <2>2, <2>4 DEF BoundToOldest
  <2>6. named \in Claims(c, s)
    BY <2>1, <2>2, <2>3 DEF ReportIsTrue, Claims
  <2>7. e \in 1..n /\ named \in 1..n
    BY <2>1, <2>3, <2>4, <2>5, <2>6
  <2>8. \A x, y \in 1..n \cap Claims(c, s) : x = y
    BY <2>1, <2>2, <2>3 DEF ReportIsTrue
  <2> QED
    BY <2>3, <2>5, <2>6, <2>7, <2>8
<1> QED
  BY <1>1, VerifyInvariant, PTL
=============================================================================
