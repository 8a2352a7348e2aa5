----------------------------- MODULE VerifyDeploy -----------------------------
(***************************************************************************)
(* verify-deploy, beside everything in ExtensionSetup: the checks of one   *)
(* step, or of all of them, in their order, each reading the config file   *)
(* or the chain when its turn comes. The file may be rewritten, the chain  *)
(* switched and extensions registered between two checks, and any lookup   *)
(* may fail. What a run found so far is its report; the exit code follows  *)
(* from the results the --checks filter left in it.                        *)
(*                                                                         *)
(* S5 to S10, V2, V6, T1 to T10, E3 and E6 look at the environment, ports  *)
(* and proxies and never fail a report: they are left out.                 *)
(***************************************************************************)
EXTENDS ExtensionSetup

CONSTANTS
  Verifiers,     \* runs of verify-deploy
  StepFlags,     \* the values of --step they are given
  Filters,       \* what --checks leaves visible
  MaxFaults,     \* bound on the failed lookups of a run
  NoCounter

VARIABLE verify  \* each run of verify-deploy

allVars == <<setupVars, verify>>

\* All checks, in the order in which they run.
Checks == <<"D1-D6", "D7", "parse", "R1", "R2", "R3", "R4", "R7", "S2", "V4", "E1">>

RegisterChecks == {"parse", "R1", "R2", "R3", "R4", "R7"}

\* The checks behind each --step.
Steps ==
  [deploy |-> {"D1-D6", "D7"}, register |-> RegisterChecks, services |-> {"S2"},
   version |-> {"V4"}, machine |-> {}, test |-> {"E1"},
   all |-> {Checks[i] : i \in DOMAIN Checks}]

ASSUME VerifyAssumption == StepFlags \subseteq DOMAIN Steps

stepsNeedingChain == {"deploy", "register", "all"}

\* No address file, no chain node or no usable key: only these steps ask.
DefaultSupportFails(step) == step \in stepsNeedingChain

VerifyInit ==
  /\ SetupInit
  /\ verify = [v \in Verifiers |->
                [todo |-> {}, exit |-> "not run", chain |-> "none", path |-> TRUE,
                 config |-> NoConfig, counter |-> NoCounter, faults |-> {}, report |-> {}]]

-----------------------------------------------------------------------------

\* main: the flags are read; without a chain the steps that need one end here.
StartVerify(v, c) ==
  /\ verify[v].exit = "not run"
  /\ \E step \in StepFlags, path \in BOOLEAN :
       \/ verify' = [verify EXCEPT ![v] = [@ EXCEPT !.todo = Steps[step], !.exit = "running",
                                                    !.chain = c, !.path = path]]
       \/ /\ DefaultSupportFails(step)
          /\ verify' = [verify EXCEPT ![v].exit = "failure"]
  /\ UNCHANGED setupVars

Turn(v, check) ==
  /\ verify[v].exit = "running" /\ check \in verify[v].todo
  /\ \A i, j \in DOMAIN Checks : Checks[j] = check /\ i < j => Checks[i] \notin verify[v].todo

\* The check is done: its result joins the report.
Add(v, id, status) ==
  verify' = [verify EXCEPT ![v].todo = @ \ {id},
                           ![v].report = @ \cup {[id |-> id, status |-> status]}]

\* The lookup behind a check failed.
Fault(v, id, status) ==
  /\ Cardinality(verify[v].faults) < MaxFaults
  /\ verify' = [verify EXCEPT ![v].todo = @ \ {id}, ![v].faults = @ \cup {id},
                              ![v].report = @ \cup {[id |-> id, status |-> status]}]

\* The address, code, funds and chain id checks: facts of the chain and its
\* address file, which pre-build.sh has checked too.
CheckChain(v) ==
  /\ Turn(v, "D1-D6")
  /\ Add(v, "D1-D6", "PASS") \/ Fault(v, "D1-D6", "FAIL")
  /\ UNCHANGED setupVars

\* The status of a check of the config file as it is now; absent is the
\* status of a file that does not exist.
FileStatus(v, absent) ==
  CASE ~verify[v].path -> "SKIP"
    [] verify[v].path /\ config = NoConfig -> absent
    [] verify[v].path /\ config = Empty -> "FAIL"
    [] verify[v].path /\ Written -> "PASS"

CheckExtensionEnvFormat(v) ==
  /\ Turn(v, "D7")
  /\ \/ verify[v].path /\ Add(v, "D7", FileStatus(v, "SKIP"))
     \/ ~verify[v].path /\ verify' = [verify EXCEPT ![v].todo = @ \ {"D7"}]
  /\ UNCHANGED setupVars

CheckServices(v) == Turn(v, "S2") /\ Add(v, "S2", FileStatus(v, "FAIL")) /\ UNCHANGED setupVars
CheckTeeVersion(v) == Turn(v, "V4") /\ Add(v, "V4", FileStatus(v, "SKIP")) /\ UNCHANGED setupVars
CheckTest(v) == Turn(v, "E1") /\ Add(v, "E1", FileStatus(v, "SKIP")) /\ UNCHANGED setupVars

-----------------------------------------------------------------------------
(* RegisterRegistrationChecks *)

\* One result stands for all registration checks.
Instead(v, status, faults) ==
  verify' = [verify EXCEPT
    ![v].todo = @ \ RegisterChecks,
    ![v].faults = faults,
    ![v].report = @ \cup {[id |-> "R1-R7", status |-> status]}]

\* A file without values, or that cannot be opened, counts as no file.
parseExtensionEnv(v) ==
  LET faults == verify[v].faults IN
  /\ Turn(v, "parse")
  /\ \/ /\ verify[v].path /\ Written
        /\ verify' = [verify EXCEPT ![v].todo = @ \ {"parse"}, ![v].config = config]
     \/ ~(verify[v].path /\ Written) /\ Instead(v, "SKIP", faults)
     \/ /\ verify[v].path /\ Cardinality(faults) < MaxFaults
        /\ Instead(v, "SKIP", faults \cup {"parse"})
  /\ UNCHANGED setupVars

\* R1. How many extensions R7 will look at is settled here.
CheckCounter(v) ==
  LET n == Len(registry[verify[v].chain]) IN
  /\ Turn(v, "R1")
  /\ \/ verify' = [verify EXCEPT ![v].todo = @ \ {"R1"}, ![v].counter = n,
          ![v].report = @ \cup {[id |-> "R1", status |-> IF n = 0 THEN "WARN" ELSE "PASS"]}]
     \/ Fault(v, "R1", "FAIL")
  /\ UNCHANGED setupVars

\* A lookup on the entry the config names.
Lookup(v, id, Holds(_)) ==
  LET entries == registry[verify[v].chain]
      ext == verify[v].config.extension
  IN
  /\ Turn(v, id)
  /\ \/ Add(v, id, IF ext \in DOMAIN entries /\ Holds(entries[ext]) THEN "PASS" ELSE "FAIL")
     \/ Fault(v, id, "FAIL")
  /\ UNCHANGED setupVars

CheckSender(v) == Lookup(v, "R2", LAMBDA e : e.sender = verify[v].config.sender)
CheckMachineOwner(v) == Lookup(v, "R3", LAMBDA e : e.machineOwner)
CheckKeyType(v) == Lookup(v, "R4", LAMBDA e : e.evmKeys)

\* A bug to rule out: the scan ends one extension early.
UniqueButLast(v, ids) ==
  LET scanned == {i \in ids : \E j \in ids : i < j} IN
  IF Cardinality(scanned \cap Claims(verify[v].chain, verify[v].config.sender)) > 1
    THEN "WARN" ELSE "PASS"

Unique(v, ids) ==
  IF Cardinality(ids \cap Claims(verify[v].chain, verify[v].config.sender)) > 1
    THEN "WARN" ELSE "PASS"

\* R7. A lookup that fails is passed over without a word.
CheckUnique(v) ==
  LET counter == verify[v].counter IN
  /\ Turn(v, "R7")
  /\ \/ /\ counter \in {NoCounter, 0}
        /\ verify' = [verify EXCEPT ![v].todo = @ \ {"R7"}]
     \/ /\ counter \notin {NoCounter, 0}
        /\ \/ Add(v, "R7", Unique(v, 1..counter))
           \/ \E i \in 1..counter : Fault(v, "R7", Unique(v, 1..counter \ {i}))
  /\ UNCHANGED setupVars

-----------------------------------------------------------------------------

HasFailures(report) == \E r \in report : r.status = "FAIL"

\* main: the results are filtered first, and only those left can fail the run.
Finish(v) ==
  /\ verify[v].exit = "running" /\ verify[v].todo = {}
  /\ \E ids \in Filters :
       LET visible == {r \in verify[v].report : r.id \in ids} IN
       verify' = [verify EXCEPT ![v].report = visible,
                                ![v].exit = IF HasFailures(visible) THEN "failure" ELSE "success"]
  /\ UNCHANGED setupVars

VerifyNext ==
  \/ SetupNext /\ UNCHANGED verify
  \/ \E v \in Verifiers :
       \/ \E c \in Chains : StartVerify(v, c)
       \/ CheckChain(v) \/ CheckExtensionEnvFormat(v)
       \/ parseExtensionEnv(v) \/ CheckCounter(v) \/ CheckSender(v)
       \/ CheckMachineOwner(v) \/ CheckKeyType(v) \/ CheckUnique(v)
       \/ CheckServices(v) \/ CheckTeeVersion(v) \/ CheckTest(v) \/ Finish(v)

VerifySpec == VerifyInit /\ [][VerifyNext]_allVars

-----------------------------------------------------------------------------

Shows(v, id, status) == [id |-> id, status |-> status] \in verify[v].report

\* A run of verify-deploy that exits with 0 and shows the registration checks
\* has seen an extension that is ready: also the wallet project owner role,
\* which it never looks up, is granted on the chain it checked, however builds
\* ran meanwhile (RegisterRegistrationChecks, SetupExtension).
CleanReportIsReady ==
  \A v \in Verifiers :
    /\ verify[v].exit = "success"
    /\ \A id \in {"R2", "R3", "R4"} : \E s \in {"PASS", "WARN", "FAIL"} : Shows(v, id, s)
    => Ready(verify[v].chain, verify[v].config)

\* An instruction sent with a config whose sender was reported as matching and
\* unique on that chain, by a scan of the counted extensions that reached the
\* one the config names and had no failed lookup, goes to that extension:
\* before or after the report, though the sender finds its id by itself,
\* extensions are registered again by hand and the config may come from another
\* chain (setExtensionId, checks R1, R2 and R7; R1 prints the counter).
VerifiedInstructionsReachTheirExtension ==
  \A v \in Verifiers, i \in sent :
    /\ verify[v].exit \in {"success", "failure"} /\ "R7" \notin verify[v].faults
    /\ Shows(v, "R2", "PASS") /\ Shows(v, "R7", "PASS")
    /\ verify[v].config.extension \in 1..verify[v].counter
    /\ i.chain = verify[v].chain /\ i.config = verify[v].config
    => i.extension = i.config.extension

-----------------------------------------------------------------------------
(* What the properties of a report rest on. *)

OnChain == {"R1", "R2", "R3", "R4", "R7"}

ReportType ==
  [id: {Checks[i] : i \in DOMAIN Checks} \cup {"R1-R7"},
   status: {"PASS", "WARN", "FAIL", "SKIP"}]

VerifyType ==
  [todo: SUBSET {Checks[i] : i \in DOMAIN Checks},
   exit: {"not run", "running", "failure", "success"},
   chain: Chains \cup {"none"}, path: BOOLEAN, config: ConfigType \cup {NoConfig},
   counter: Nat \cup {NoCounter}, faults: SUBSET {Checks[i] : i \in DOMAIN Checks},
   report: SUBSET ReportType]

\* Each registration check runs once, after the config was read, on a chain.
OrderIsKept(v) ==
  LET run == verify[v]
      Reported(id) == \E r \in run.report : r.id = id
  IN
  /\ run.exit = "not run" => run.report = {} /\ run.todo = {} /\ run.counter = NoCounter
  /\ run.exit = "running" => run.chain \in Chains
  /\ \A id \in OnChain : Reported(id) =>
       id \notin run.todo /\ "parse" \notin run.todo /\ run.chain \in Chains
  /\ Reported("R7") => "R1" \notin run.todo
  /\ run.todo \cap OnChain # {} /\ "parse" \notin run.todo => run.config \in ConfigType
  /\ \A id \in {"R2", "R3", "R4", "R7"} : Reported(id) => run.config \in ConfigType
  /\ run.counter # NoCounter =>
       /\ run.counter \in Nat /\ run.chain \in Chains /\ "R1" \notin run.todo
       /\ run.counter <= Len(registry[run.chain])

\* What a passed registration check saw is still so: entries keep their sender
\* and their roles, and the extensions R7 counted are those there were.
ReportIsTrue(v) ==
  LET run == verify[v]
      entries == registry[run.chain]
      named == run.config.extension
      scanned == 1..run.counter \cap Claims(run.chain, run.config.sender)
  IN
  /\ \A id \in {"R2", "R3", "R4"} :
       /\ Shows(v, id, "PASS") => named \in DOMAIN entries
       /\ ~Shows(v, id, "WARN")
  /\ Shows(v, "R2", "PASS") => entries[named].sender = run.config.sender
  /\ Shows(v, "R3", "PASS") => entries[named].machineOwner
  /\ Shows(v, "R4", "PASS") => entries[named].evmKeys
  /\ Shows(v, "R7", "PASS") /\ "R7" \notin run.faults =>
       run.counter # NoCounter /\ \A i, j \in scanned : i = j
  /\ run.exit = "success" => ~HasFailures(run.report)

\* The inductive invariant behind the two properties of reports.
VerifyInv ==
  /\ SetupInv
  /\ verify \in [Verifiers -> VerifyType]
  /\ \A v \in Verifiers : OrderIsKept(v) /\ ReportIsTrue(v)
=============================================================================
