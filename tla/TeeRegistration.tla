--------------------------- MODULE TeeRegistration ---------------------------
(***************************************************************************)
(* Registering a TEE machine (scripts/post-build.sh and the tools it runs: *)
(* allow-tee-version, set-governance, register-tee).  register-tee takes   *)
(* up to four steps, named by letters: r pre-registers the machine, R      *)
(* requests an attestation, a requests an availability check against that  *)
(* attestation, p promotes the machine with the check's proof.  After r, R *)
(* and a it saves a state file, from which a run with -resume goes on.     *)
(*                                                                         *)
(* Around the tool: the TEE node, which loses its key and takes another    *)
(* identity whenever it is relaunched, possibly with another image; the    *)
(* registry, whose attestation challenges are one-shot and expire; and the *)
(* FTDC providers, who prove the availability of a node that is running.   *)
(*                                                                         *)
(* A transaction may be mined though the tool stops before it sees the     *)
(* receipt (CheckTx waits two minutes).  The check's id is never given on  *)
(* the command line (post-build.sh does not).  Keys, fees, URLs and the    *)
(* diagnosis of reverts are left out.                                      *)
(***************************************************************************)
EXTENDS Naturals, Sequences

CONSTANTS
  Commands,      \* the sets of letters -command may name
  Resumes,       \* the values of -resume
  Codes,         \* code hashes of images
  Lifetime,      \* how long an attestation challenge stays valid
  MaxLaunches,   \* bound on launches of the node
  MaxFailures,   \* bound on stops, lost receipts, failed saves, partial runs
  MaxTime,
  NoFile, Corrupt

ASSUME RegistrationAssumption ==
  /\ Commands \subseteq SUBSET {"r", "R", "a", "p"}
  /\ Resumes \subseteq BOOLEAN
  /\ Lifetime \in Nat /\ MaxLaunches \in Nat \ {0}
  /\ MaxFailures \in Nat /\ MaxTime \in Nat

TeeIds == 1 .. MaxLaunches

VARIABLES
  node,          \* what the proxy's /info reports: the live TEE and its image
  now,
  versions,      \* code hashes the extension supports
  governance,    \* whether the extension has the configured governance hash
  machine,       \* the registry's state of each TEE machine
  attests,       \* attestation requests, numbered by instruction id
  checks,        \* availability checks, numbered by instruction id
  tool,          \* the running tool
  file,          \* config/register-tee.state
  reported,      \* the last run that logged "Registered TEE node with id"
  failures

extensionVars == <<versions, governance>>
requestVars == <<machine, attests, checks>>
regVars == <<node, now, extensionVars, requestVars, tool, file, reported, failures>>

EmptyState == [completed |-> {}, attest |-> 0, check |-> 0]

Off == [stage |-> "off", command |-> {}, resume |-> FALSE, tee |-> 0, code |-> "",
        state |-> EmptyState, attest |-> 0, check |-> 0]

RegInit ==
  /\ node \in [tee: {1}, code: Codes]
  /\ now = 0
  /\ versions = {} /\ governance = FALSE
  /\ machine = [t \in TeeIds |-> "absent"]
  /\ attests = <<>> /\ checks = <<>>
  /\ tool = Off /\ file = NoFile /\ reported = Off
  /\ failures = 0

-----------------------------------------------------------------------------
(* The registry's side of the tool's transactions. *)

\* register() wants a supported image and the extension's governance hash.
CanRegister(tee, code) ==
  machine[tee] = "absent" /\ code \in versions /\ governance

IssueAttestation(tee) ==
  attests' = Append(attests, [tee |-> tee, at |-> now, used |-> FALSE])

\* A challenge serves one check of its own TEE, before it expires.
ChallengeValid(tee, attest) ==
  /\ attest \in DOMAIN attests
  /\ attests[attest].tee = tee /\ ~attests[attest].used
  /\ now <= attests[attest].at + Lifetime

-----------------------------------------------------------------------------
(* How a step of the tool ends. *)

Failure == failures < MaxFailures /\ failures' = failures + 1

\* The letters are looked at in this order, whatever order -command names.
Successor == [allow |-> "govern", govern |-> "begin", begin |-> "r",
              r |-> "R", R |-> "a", a |-> "p"]

\* The receipt is there: remember the step and save the state file; a save
\* that fails is only a warning.
Confirmed(letter, attest, check) ==
  LET state == [completed |-> tool.state.completed \cup {letter},
                attest |-> attest, check |-> check]
  IN  /\ tool' = [tool EXCEPT !.stage = Successor[letter], !.state = state,
                              !.attest = attest,
                              !.check = IF letter = "a" THEN check ELSE @]
      /\ \/ file' = state /\ UNCHANGED failures
         \/ Failure /\ UNCHANGED file

\* A bug to rule out: the step is saved as done though its receipt is missing.
UnconfirmedIsSaved(letter) ==
  /\ tool' = Off /\ Failure
  /\ file' = [tool.state EXCEPT !.completed = @ \cup {letter}]

\* The transaction is mined, but the tool stops before it has the receipt, or
\* before or while it writes the state file.
Unconfirmed(letter) ==
  /\ tool' = Off /\ Failure
  /\ file' \in {file, Corrupt}

\* What a step does when it is not asked for, or the state file has it done.
Passes(letter) ==
  /\ tool.stage = letter
  /\ letter \in tool.command => letter \in tool.state.completed
  /\ tool' = [tool EXCEPT
       !.stage = Successor[letter],
       !.attest = IF letter \in tool.command \ {"a"} THEN tool.state.attest ELSE @,
       !.check = IF letter \in tool.command \cap {"a"} THEN tool.state.check ELSE @]
  /\ UNCHANGED <<node, now, extensionVars, requestVars, file, reported, failures>>

Due(letter) ==
  /\ tool.stage = letter /\ letter \in tool.command
  /\ letter \notin tool.state.completed

-----------------------------------------------------------------------------
(* post-build.sh and the two tools it runs first. *)

\* An operator runs it until the live machine is in production.  Runs of single
\* steps, or that come when the machine is in production, are counted.
Start(command, resume) ==
  /\ tool = Off
  /\ IF ~({"r", "a", "p"} \subseteq command) \/ machine[node.tee] = "production" THEN Failure
     ELSE UNCHANGED failures
  /\ tool' = [Off EXCEPT !.stage = "allow", !.command = command, !.resume = resume]
  /\ UNCHANGED <<node, now, extensionVars, requestVars, file, reported>>

\* Supported already, by this call or an earlier one: no transaction.
AllowTeeVersion ==
  /\ tool.stage = "allow"
  /\ versions' = versions \cup {node.code}
  /\ \/ tool' = [tool EXCEPT !.stage = "govern"] /\ UNCHANGED failures
     \/ tool' = Off /\ Failure
  /\ UNCHANGED <<node, now, governance, requestVars, file, reported>>

SetTeeGovernance ==
  /\ tool.stage = "govern"
  /\ governance' = TRUE
  /\ \/ tool' = [tool EXCEPT !.stage = "begin"] /\ UNCHANGED failures
     \/ tool' = Off /\ Failure
  /\ UNCHANGED <<node, now, versions, requestVars, file, reported>>

-----------------------------------------------------------------------------
(* register-tee. *)

Loads(state) ==
  tool' = [tool EXCEPT !.stage = "r", !.tee = node.tee, !.code = node.code,
                       !.state = state]

\* A bug to rule out: a run without -resume goes on from an old state file.
BeginKeepsFile ==
  /\ tool.stage = "begin"
  /\ IF file = Corrupt THEN tool' = Off
     ELSE Loads(IF file = NoFile THEN EmptyState ELSE file)
  /\ UNCHANGED <<node, now, extensionVars, requestVars, file, reported, failures>>

\* Without -resume the state file is removed first; a file that does not parse
\* ends the run.  The TEE is the one /info reports now.
Begin ==
  /\ tool.stage = "begin"
  /\ file' = IF tool.resume THEN file ELSE NoFile
  /\ IF file' = Corrupt THEN tool' = Off
     ELSE Loads(IF file' = NoFile THEN EmptyState ELSE file')
  /\ UNCHANGED <<node, now, extensionVars, requestVars, reported, failures>>

\* A bug to rule out: a machine that is registered already is registered again.
PreRegisterAlways ==
  /\ Due("r")
  /\ CanRegister(tool.tee, tool.code)
  /\ machine' = [machine EXCEPT ![tool.tee] = "registered"]
  /\ IssueAttestation(tool.tee)
  /\ Confirmed("r", Len(attests'), tool.state.check) \/ Unconfirmed("r")
  /\ UNCHANGED <<node, now, extensionVars, checks, reported>>

\* r: pre-registration issues an attestation; for a machine that is registered
\* already a fresh one is requested.
PreRegister ==
  /\ Due("r")
  /\ \/ /\ CanRegister(tool.tee, tool.code)
        /\ machine' = [machine EXCEPT ![tool.tee] = "registered"]
     \/ machine[tool.tee] # "absent" /\ UNCHANGED machine
  /\ IssueAttestation(tool.tee)
  /\ Confirmed("r", Len(attests'), tool.state.check) \/ Unconfirmed("r")
  /\ UNCHANGED <<node, now, extensionVars, checks, reported>>

\* R
RequestTeeAttestation ==
  /\ Due("R") /\ machine[tool.tee] # "absent"
  /\ IssueAttestation(tool.tee)
  /\ Confirmed("R", Len(attests'), tool.state.check) \/ Unconfirmed("R")
  /\ UNCHANGED <<node, now, extensionVars, machine, checks, reported>>

\* a
RequestFTDCAvailabilityCheck ==
  /\ Due("a") /\ ChallengeValid(tool.tee, tool.attest)
  /\ checks' = Append(checks, [tee |-> tool.tee, proven |-> FALSE])
  /\ attests' = [attests EXCEPT ![tool.attest].used = TRUE]
  /\ Confirmed("a", tool.state.attest, Len(checks')) \/ Unconfirmed("a")
  /\ UNCHANGED <<node, now, extensionVars, machine, reported>>

ProofReady(check) == check \in DOMAIN checks /\ checks[check].proven

\* All steps done: remove the state file and report the TEE of this run.
Finishes ==
  /\ file' = NoFile /\ tool' = Off /\ reported' = tool
  /\ UNCHANGED failures

\* p promotes the machine the proof is about.
ToProduction ==
  /\ tool.stage = "p" /\ "p" \in tool.command /\ ProofReady(tool.check)
  /\ machine' = [machine EXCEPT ![checks[tool.check].tee] = "production"]
  /\ \/ Finishes
     \/ tool' = Off /\ Failure /\ UNCHANGED <<file, reported>>
  /\ UNCHANGED <<node, now, extensionVars, attests, checks>>

EndsWithoutPromotion ==
  /\ tool.stage = "p" /\ "p" \notin tool.command
  /\ Finishes
  /\ UNCHANGED <<node, now, extensionVars, requestVars>>

\* The step cannot succeed: the transaction reverts, or nothing ever answers
\* for the check that is polled.
Impossible ==
  \/ Due("r") /\ machine[tool.tee] = "absent" /\ ~CanRegister(tool.tee, tool.code)
  \/ Due("R") /\ machine[tool.tee] = "absent"
  \/ Due("a") /\ ~ChallengeValid(tool.tee, tool.attest)
  \/ /\ tool.stage = "p" /\ "p" \in tool.command /\ ~ProofReady(tool.check)
     /\ tool.check \in DOMAIN checks => checks[tool.check].tee # node.tee

Fatal ==
  /\ Impossible
  /\ tool' = Off
  /\ UNCHANGED <<node, now, extensionVars, requestVars, file, reported, failures>>

\* Anything else that ends the process: a service that is down, a proxy whose
\* signing policy is out of sync, fifteen polls without an answer, a signal.
Interrupted ==
  /\ tool # Off
  /\ tool' = Off /\ Failure
  /\ UNCHANGED <<node, now, extensionVars, requestVars, file, reported>>

-----------------------------------------------------------------------------
(* The surroundings. *)

Relaunch(code) ==
  /\ node.tee < MaxLaunches
  /\ node' = [tee |-> node.tee + 1, code |-> code]
  /\ UNCHANGED <<now, extensionVars, requestVars, tool, file, reported, failures>>

\* Providers reach the node that is running.
Prove(check) ==
  /\ check \in DOMAIN checks /\ ~checks[check].proven
  /\ checks[check].tee = node.tee
  /\ checks' = [checks EXCEPT ![check].proven = TRUE]
  /\ UNCHANGED <<node, now, extensionVars, machine, attests, tool, file, reported,
                 failures>>

Tick ==
  /\ now < MaxTime
  /\ now' = now + 1
  /\ UNCHANGED <<node, extensionVars, requestVars, tool, file, reported, failures>>

ToolStep ==
  \/ AllowTeeVersion \/ SetTeeGovernance \/ Begin
  \/ \E letter \in {"r", "R", "a"} : Passes(letter)
  \/ PreRegister \/ RequestTeeAttestation \/ RequestFTDCAvailabilityCheck
  \/ ToProduction \/ EndsWithoutPromotion \/ Fatal

RegNext ==
  \/ \E command \in Commands, resume \in Resumes : Start(command, resume)
  \/ ToolStep \/ Interrupted
  \/ \E code \in Codes : Relaunch(code)
  \/ \E check \in DOMAIN checks : Prove(check)
  \/ Tick

RegSpec == RegInit /\ [][RegNext]_regVars

\* The tool runs, the operator starts it without -resume again and again, and
\* the providers answer.  Failures, relaunches and time are bounded, so from
\* some point on nothing goes wrong any more.
RegFairSpec ==
  /\ RegSpec
  /\ WF_regVars(ToolStep)
  /\ WF_regVars(\E check \in DOMAIN checks : Prove(check))
  /\ SF_regVars(\E command \in Commands : Start(command, FALSE))

-----------------------------------------------------------------------------

\* What the state file records happened: an attestation step has the id of a
\* request that was made, and the check step the id of a check that was made
\* for the TEE of the recorded, spent attestation (saveState in RegisterNode).
FileIsTrue ==
  file \notin {NoFile, Corrupt} =>
    /\ file.completed \cap {"r", "R"} # {} => file.attest \in DOMAIN attests
    /\ "a" \in file.completed /\ file.attest # 0 =>
         /\ file.check \in DOMAIN checks
         /\ checks[file.check].tee = attests[file.attest].tee

\* A run without -resume that was to promote and says "Registered TEE node" has
\* brought that very machine into production, whatever runs, relaunches and
\* lost receipts came before (register-tee main, RegisterNode).
FreshReportIsTrue ==
  reported # Off /\ ~reported.resume /\ "p" \in reported.command =>
    machine[reported.tee] = "production"

StateType == [completed: SUBSET {"r", "R", "a"}, attest: Nat, check: Nat]

ToolType ==
  [stage: {"off", "allow", "govern", "begin", "r", "R", "a", "p"},
   command: Commands \cup {{}}, resume: BOOLEAN, tee: TeeIds \cup {0},
   code: Codes \cup {""}, state: StateType, attest: Nat, check: Nat]

\* register-tee has read /info and the state file.
Loaded == tool.stage \in {"r", "R", "a", "p"}

RegTypeOK ==
  /\ node \in [tee: TeeIds, code: Codes]
  /\ now \in Nat
  /\ versions \subseteq Codes /\ governance \in BOOLEAN
  /\ machine \in [TeeIds -> {"absent", "registered", "production"}]
  /\ attests \in Seq([tee: TeeIds, at: Nat, used: BOOLEAN])
  /\ checks \in Seq([tee: TeeIds, proven: BOOLEAN])
  /\ tool \in ToolType /\ reported \in ToolType
  /\ file \in StateType \cup {NoFile, Corrupt}
  /\ failures \in Nat
  /\ IF Loaded THEN tool.tee \in TeeIds ELSE tool.attest = 0 /\ tool.check = 0
  /\ reported # Off => reported.tee \in TeeIds

\* No machine later than tee is registered.
NoneAfter(tee) == \A t \in TeeIds : machine[t] # "absent" => t <= tee

\* The registry knows the machine of every attestation and every check, and no
\* machine later than the live one or that of the running tool.
RegistryInv ==
  /\ \A i \in DOMAIN attests : machine[attests[i].tee] # "absent"
  /\ \A i \in DOMAIN checks : machine[checks[i].tee] # "absent"
  /\ NoneAfter(node.tee)
  /\ Loaded => tool.tee <= node.tee /\ NoneAfter(tool.tee)

\* A recorded check is that of the machine of the recorded attestation, which
\* is the last one that was registered.
StateIsTrue(state) ==
  /\ state.completed \cap {"r", "R"} # {} => state.attest \in DOMAIN attests
  /\ "r" \in state.completed => NoneAfter(attests[state.attest].tee)
  /\ "a" \in state.completed =>
       /\ "r" \in state.completed /\ state.check \in DOMAIN checks
       /\ checks[state.check].tee = attests[state.attest].tee

\* The inductive invariant behind FileIsTrue: the running tool knows what the
\* file says and perhaps more, since a save may fail.
FileInv ==
  /\ RegistryInv
  /\ StateIsTrue(tool.state)
  /\ file \notin {NoFile, Corrupt} => StateIsTrue(file)
  /\ Loaded /\ file \notin {NoFile, Corrupt} =>
       file.completed \subseteq tool.state.completed
  /\ tool.stage \in {"R", "a", "p"} /\ "r" \in tool.command =>
       "r" \in tool.state.completed
  /\ tool.attest # 0 =>
       tool.attest = tool.state.attest /\ tool.command \cap {"r", "R"} # {}

\* Behind FreshReportIsTrue: a run without -resume checks its own machine.
RunInv ==
  /\ ~tool.resume /\ Loaded /\ tool.check # 0 =>
       tool.check \in DOMAIN checks /\ checks[tool.check].tee = tool.tee
  /\ ~tool.resume /\ tool.stage \in {"r", "R", "a"} =>
       "a" \notin tool.state.completed

\* The types and the two inductive invariants.
RegInv == RegTypeOK /\ FileInv /\ RunInv

\* Commands that ask for a fresh challenge and a check pre-register too: rRap
\* (post-build.sh), rap (the default of -command) and single steps.
PreRegistersFirst ==
  \A command \in Commands : {"R", "a"} \subseteq command => "r" \in command

\* An operator who runs post-build.sh again after every failure gets the
\* machine that is live in the end into production (RegisterNode, r on a machine
\* that is registered already).
RerunsRegister == <>[](machine[node.tee] = "production")

-----------------------------------------------------------------------------

\* register-tee ends a resumed run with "Registered TEE node with id %s": the
\* machine it names is in production.
ResumedReportIsTrue ==
  reported # Off /\ "p" \in reported.command => machine[reported.tee] = "production"
=============================================================================
