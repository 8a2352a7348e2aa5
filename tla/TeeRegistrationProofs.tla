------------------------ MODULE TeeRegistrationProofs ------------------------
(***************************************************************************)
(* Proofs about register-tee: what a run reports and what its state file   *)
(* records, for any number of runs, relaunches, lost receipts and failed   *)
(* saves. RegInv has three parts: the types; RunInv, behind the report of  *)
(* a run without -resume; and FileInv, behind the state file, which also   *)
(* needs commands that pre-register before they ask for a check.           *)
(***************************************************************************)
EXTENDS TeeRegistration, SequenceTheorems, TLAPS

Letters == {"r", "R", "a"}

\* The stages follow each other, and TEE ids are positive.
LEMMA StageTypes ==
  /\ Successor["allow"] = "govern" /\ Successor["govern"] = "begin"
  /\ Successor["begin"] = "r" /\ Successor["r"] = "R" /\ Successor["R"] = "a"
  /\ Successor["a"] = "p"
  /\ TeeIds \subseteq Nat \ {0} /\ 1 \in TeeIds
  BY RegistrationAssumption DEF Successor, TeeIds

\* The entries of a sequence are in its set.
LEMMA Entries ==
  ASSUME NEW S, NEW q \in Seq(S)
  PROVE  \A i \in DOMAIN q : q[i] \in S
  BY LenProperties, ElementOfSeq

\* A tool that is off, and an empty state, are typed.
LEMMA OffType == Off \in ToolType /\ EmptyState \in StateType
  BY DEF Off, EmptyState, ToolType, StateType

\* A step that is not due leaves the run as it is, but for the ids it takes
\* from the state file.
LEMMA PassesEffect ==
  ASSUME RegTypeOK, NEW letter \in Letters, Passes(letter)
  PROVE  /\ tool' \in ToolType
         /\ tool.stage = letter /\ tool'.stage = Successor[letter]
         /\ tool'.command = tool.command /\ tool'.resume = tool.resume
         /\ tool'.tee = tool.tee /\ tool'.state = tool.state
         /\ tool'.attest = IF letter \in tool.command \ {"a"} THEN tool.state.attest
                           ELSE tool.attest
         /\ tool'.check = IF letter \in tool.command \cap {"a"} THEN tool.state.check
                          ELSE tool.check
         /\ letter \in tool.command => letter \in tool.state.completed
<1>t. PICK t \in ToolType : t = tool
  BY DEF RegTypeOK
<1>1. PICK at, ch, st :
        /\ at = IF letter \in t.command \ {"a"} THEN t.state.attest ELSE t.attest
        /\ ch = IF letter \in t.command \cap {"a"} THEN t.state.check ELSE t.check
        /\ st = Successor[letter]
  OBVIOUS
<1>2. at \in Nat /\ ch \in Nat /\ st \in {"R", "a", "p"}
  BY <1>1, StageTypes DEF ToolType, StateType, Letters
<1>3. tool' = [t EXCEPT !.stage = st, !.attest = at, !.check = ch]
  BY <1>t, <1>1 DEF Passes, ToolType
<1>4. /\ tool' \in ToolType /\ tool'.stage = st /\ tool'.attest = at /\ tool'.check = ch
      /\ tool'.command = t.command /\ tool'.resume = t.resume
      /\ tool'.tee = t.tee /\ tool'.state = t.state
  BY <1>2, <1>3 DEF ToolType
<1> QED
  BY <1>t, <1>1, <1>4 DEF Passes

\* A step whose receipt arrives is remembered, and saved unless the save fails.
LEMMA ConfirmedEffect ==
  ASSUME RegTypeOK, NEW letter \in Letters, NEW attest \in Nat, NEW check \in Nat,
         Confirmed(letter, attest, check)
  PROVE  /\ tool' \in ToolType /\ tool'.stage = Successor[letter]
         /\ tool'.command = tool.command /\ tool'.resume = tool.resume
         /\ tool'.tee = tool.tee /\ tool'.attest = attest
         /\ tool'.check = IF letter = "a" THEN check ELSE tool.check
         /\ tool'.state \in StateType
         /\ tool'.state.completed = tool.state.completed \cup {letter}
         /\ tool'.state.attest = attest /\ tool'.state.check = check
         /\ file' \in {file, tool'.state} /\ failures' \in Nat
<1>t. PICK t \in ToolType : t = tool
  BY DEF RegTypeOK
<1>1. PICK state, ch, st :
        /\ state = [completed |-> t.state.completed \cup {letter},
                    attest |-> attest, check |-> check]
        /\ ch = IF letter = "a" THEN check ELSE t.check
        /\ st = Successor[letter]
  OBVIOUS
<1>2. /\ state \in StateType /\ state.attest = attest /\ state.check = check
      /\ state.completed = t.state.completed \cup {letter}
      /\ ch \in Nat /\ st \in {"R", "a", "p"}
  BY <1>1, StageTypes DEF ToolType, StateType, Letters
<1>3. tool' = [t EXCEPT !.stage = st, !.state = state, !.attest = attest, !.check = ch]
  BY <1>t, <1>1 DEF Confirmed, ToolType
<1>4. /\ tool' \in ToolType /\ tool'.stage = st /\ tool'.attest = attest
      /\ tool'.check = ch /\ tool'.state = state /\ tool'.command = t.command
      /\ tool'.resume = t.resume /\ tool'.tee = t.tee
  BY <1>2, <1>3 DEF ToolType
<1>5. file' \in {file, state} /\ failures' \in Nat
  BY <1>t, <1>1 DEF Confirmed, Failure, RegTypeOK
<1> QED
  BY <1>t, <1>1, <1>2, <1>4, <1>5

\* A new attestation request is that of its machine, and touches no other.
LEMMA IssueEffect ==
  ASSUME RegTypeOK, NEW tee \in TeeIds, IssueAttestation(tee)
  PROVE  /\ attests' \in Seq([tee: TeeIds, at: Nat, used: BOOLEAN])
         /\ Len(attests') \in Nat /\ Len(attests') \in DOMAIN attests'
         /\ DOMAIN attests' = DOMAIN attests \cup {Len(attests')}
         /\ attests'[Len(attests')].tee = tee
         /\ \A i \in DOMAIN attests : attests'[i] = attests[i]
<1> DEFINE new == [tee |-> tee, at |-> now, used |-> FALSE]
<1>1. new \in [tee: TeeIds, at: Nat, used: BOOLEAN] /\ new.tee = tee
  BY DEF RegTypeOK
<1>2. attests \in Seq([tee: TeeIds, at: Nat, used: BOOLEAN]) /\ attests' = Append(attests, new)
  BY DEF RegTypeOK, IssueAttestation
<1> HIDE DEF new
<1>3. /\ Len(attests') = Len(attests) + 1 /\ attests'[Len(attests) + 1] = new
      /\ attests' \in Seq([tee: TeeIds, at: Nat, used: BOOLEAN])
      /\ \A i \in 1 .. Len(attests) : attests'[i] = attests[i]
  BY <1>1, <1>2, AppendProperties
<1>4. /\ DOMAIN attests = 1 .. Len(attests) /\ DOMAIN attests' = 1 .. Len(attests')
      /\ Len(attests) \in Nat
  BY <1>2, <1>3, LenProperties
<1> QED
  BY <1>1, <1>3, <1>4

\* A new check is that of its machine; its attestation is spent, but stays that
\* of its machine.
LEMMA CheckEffect ==
  ASSUME RegTypeOK, NEW tee \in TeeIds, NEW i \in DOMAIN attests,
         checks' = Append(checks, [tee |-> tee, proven |-> FALSE]),
         attests' = [attests EXCEPT ![i].used = TRUE]
  PROVE  /\ attests' \in Seq([tee: TeeIds, at: Nat, used: BOOLEAN])
         /\ checks' \in Seq([tee: TeeIds, proven: BOOLEAN])
         /\ Len(checks') \in Nat /\ Len(checks') \in DOMAIN checks'
         /\ DOMAIN checks \subseteq DOMAIN checks' /\ DOMAIN attests' = DOMAIN attests
         /\ checks'[Len(checks')].tee = tee
         /\ \A j \in DOMAIN checks : checks'[j] = checks[j]
         /\ \A j \in DOMAIN attests : attests'[j].tee = attests[j].tee
<1> DEFINE new == [tee |-> tee, proven |-> FALSE]
           A == [tee: TeeIds, at: Nat, used: BOOLEAN]
<1>1. new \in [tee: TeeIds, proven: BOOLEAN] /\ new.tee = tee
  OBVIOUS
<1>2. checks \in Seq([tee: TeeIds, proven: BOOLEAN]) /\ checks' = Append(checks, new)
  BY DEF RegTypeOK
<1> HIDE DEF new
<1>3. /\ Len(checks') = Len(checks) + 1 /\ checks'[Len(checks) + 1] = new
      /\ checks' \in Seq([tee: TeeIds, proven: BOOLEAN])
      /\ \A j \in 1 .. Len(checks) : checks'[j] = checks[j]
  BY <1>1, <1>2, AppendProperties
<1>4. /\ DOMAIN checks = 1 .. Len(checks) /\ DOMAIN checks' = 1 .. Len(checks')
      /\ Len(checks) \in Nat
  BY <1>2, <1>3, LenProperties
<1>5. PICK q \in Seq(A) : q = attests
  BY DEF RegTypeOK
<1>6. DOMAIN q = 1 .. Len(q) /\ Len(q) \in Nat /\ i \in 1 .. Len(q)
  BY <1>5, LenProperties
<1>7. PICK a \in A : a = q[i]
  BY <1>6, ElementOfSeq
<1>8. PICK s : s = [a EXCEPT !.used = TRUE]
  OBVIOUS
<1>13. s \in A /\ s.tee = a.tee
  BY <1>8
<1>9. attests' = [q EXCEPT ![i] = s]
  BY <1>5, <1>7, <1>8
<1> HIDE DEF A
<1>11. /\ attests' \in Seq(A) /\ Len(attests') = Len(q)
       /\ \A j \in 1 .. Len(q) : attests'[j] = IF j = i THEN s ELSE q[j]
  <2>1. /\ [q EXCEPT ![i] = s] \in Seq(A) /\ Len([q EXCEPT ![i] = s]) = Len(q)
        /\ \A j \in 1 .. Len(q) : [q EXCEPT ![i] = s][j] = IF j = i THEN s ELSE q[j]
    BY <1>6, <1>13, ExceptSeq
  <2> QED
    BY <1>9, <2>1
<1>12. DOMAIN attests' = DOMAIN attests
  BY <1>5, <1>6, <1>11, LenProperties
<1>10. \A j \in DOMAIN attests : attests'[j].tee = attests[j].tee
  BY <1>5, <1>6, <1>7, <1>11, <1>13
<1> QED
  BY <1>1, <1>3, <1>4, <1>10, <1>11, <1>12 DEF A

\* A run starts with nothing, and stops with nothing.
LEMMA StartEffect ==
  ASSUME RegTypeOK, NEW command \in Commands, NEW resume \in Resumes,
         Start(command, resume)
  PROVE  /\ tool' \in ToolType /\ tool'.stage = "allow" /\ tool'.state = EmptyState
         /\ tool'.command = command /\ tool'.resume = resume
         /\ tool'.attest = 0 /\ tool'.check = 0
         /\ failures' \in Nat
<1>1. resume \in BOOLEAN
  BY RegistrationAssumption
<1>2. tool' = [Off EXCEPT !.stage = "allow", !.command = command, !.resume = resume]
  BY DEF Start
<1>3. PICK o \in ToolType :
        o = Off /\ o.state = EmptyState /\ o.attest = 0 /\ o.check = 0
  BY OffType DEF Off
<1>4. /\ tool' \in ToolType /\ tool'.stage = "allow" /\ tool'.state = o.state
      /\ tool'.command = command /\ tool'.resume = resume
      /\ tool'.attest = o.attest /\ tool'.check = o.check
  BY <1>1, <1>2, <1>3 DEF ToolType
<1>5. failures' \in Nat
  BY DEF Start, Failure, RegTypeOK
<1> QED
  BY <1>3, <1>4, <1>5

\* Advancing before register-tee has begun.
LEMMA AdvanceEffect ==
  ASSUME RegTypeOK, NEW stage \in {"govern", "begin"},
         tool' = [tool EXCEPT !.stage = stage]
  PROVE  /\ tool' \in ToolType /\ tool'.stage = stage /\ tool'.state = tool.state
         /\ tool'.command = tool.command /\ tool'.resume = tool.resume
         /\ tool'.attest = tool.attest /\ tool'.check = tool.check
<1>t. PICK t \in ToolType : t = tool
  BY DEF RegTypeOK
<1> QED
  BY <1>t DEF ToolType

\* register-tee reads the live TEE, and the state file if it is to resume.
LEMMA BeginEffect ==
  ASSUME RegTypeOK, Begin
  PROVE  \/ tool' = Off /\ file' \in {file, NoFile}
         \/ /\ tool' \in ToolType /\ tool'.stage = "r" /\ tool'.tee = node.tee
            /\ tool'.command = tool.command /\ tool'.resume = tool.resume
            /\ tool'.attest = 0 /\ tool'.check = 0
            /\ \/ file' = NoFile /\ tool'.state = EmptyState
               \/ /\ file' = file /\ file \notin {NoFile, Corrupt} /\ tool.resume
                  /\ tool'.state = file
<1>t. PICK t \in ToolType : t = tool
  BY DEF RegTypeOK
<1>1. t.attest = 0 /\ t.check = 0
  BY <1>t DEF RegTypeOK, Loaded, Begin
<1>2. CASE file' = Corrupt
  BY <1>2 DEF Begin
<1>3. CASE file' # Corrupt
  <2>1. PICK state : /\ state = IF file' = NoFile THEN EmptyState ELSE file'
                     /\ Loads(state)
    BY <1>3 DEF Begin
  <2>2. /\ state \in StateType
        /\ \/ file' = NoFile /\ state = EmptyState
           \/ /\ file' = file /\ file \notin {NoFile, Corrupt} /\ tool.resume
              /\ state = file
    BY <1>3, <2>1, OffType DEF Begin, RegTypeOK
  <2>3. node.tee \in TeeIds /\ node.code \in Codes
    BY DEF RegTypeOK
  <2>4. tool' = [t EXCEPT !.stage = "r", !.tee = node.tee, !.code = node.code, !.state = state]
    BY <1>t, <2>1 DEF Loads
  <2>5. /\ tool' \in ToolType /\ tool'.stage = "r" /\ tool'.tee = node.tee
        /\ tool'.command = t.command /\ tool'.resume = t.resume
        /\ tool'.attest = t.attest /\ tool'.check = t.check /\ tool'.state = state
    BY <2>2, <2>3, <2>4 DEF ToolType
  <2> QED
    BY <1>t, <1>1, <2>2, <2>5
<1> QED
  BY <1>2, <1>3

\* A proof touches one check, which stays that of its machine.
LEMMA ProveEffect ==
  ASSUME RegTypeOK, NEW i \in DOMAIN checks, Prove(i)
  PROVE  /\ checks' \in Seq([tee: TeeIds, proven: BOOLEAN])
         /\ DOMAIN checks' = DOMAIN checks
         /\ \A j \in DOMAIN checks : checks'[j].tee = checks[j].tee
<1> DEFINE C == [tee: TeeIds, proven: BOOLEAN]
<1>1. PICK q \in Seq(C) : q = checks
  BY DEF RegTypeOK
<1>2. DOMAIN q = 1 .. Len(q) /\ Len(q) \in Nat /\ i \in 1 .. Len(q)
  BY <1>1, LenProperties
<1>3. PICK c \in C : c = q[i]
  BY <1>2, ElementOfSeq
<1>4. PICK s : s = [c EXCEPT !.proven = TRUE]
  OBVIOUS
<1>5. s \in C /\ s.tee = c.tee
  BY <1>4
<1>6. checks' = [q EXCEPT ![i] = s]
  BY <1>1, <1>3, <1>4 DEF Prove
<1> HIDE DEF C
<1>7. /\ [q EXCEPT ![i] = s] \in Seq(C) /\ Len([q EXCEPT ![i] = s]) = Len(q)
      /\ \A j \in 1 .. Len(q) : [q EXCEPT ![i] = s][j] = IF j = i THEN s ELSE q[j]
  BY <1>2, <1>5, ExceptSeq
<1>8. /\ checks' \in Seq(C) /\ Len(checks') = Len(q)
      /\ \A j \in 1 .. Len(q) : checks'[j] = IF j = i THEN s ELSE q[j]
  BY <1>6, <1>7
<1>9. DOMAIN checks' = DOMAIN checks
  BY <1>1, <1>2, <1>8, LenProperties
<1> QED
  BY <1>1, <1>2, <1>3, <1>5, <1>8, <1>9 DEF C

-----------------------------------------------------------------------------
(* Types. *)

\* At first everything is typed.
LEMMA RegTypeInit == RegInit => RegTypeOK
<1> SUFFICES ASSUME RegInit
             PROVE  RegTypeOK
  OBVIOUS
<1>1. /\ node \in [tee: TeeIds, code: Codes] /\ now \in Nat /\ failures \in Nat
      /\ versions \subseteq Codes /\ governance \in BOOLEAN
      /\ machine \in [TeeIds -> {"absent", "registered", "production"}]
      /\ file \in StateType \cup {NoFile, Corrupt}
  BY StageTypes DEF RegInit
<1>2. /\ attests \in Seq([tee: TeeIds, at: Nat, used: BOOLEAN])
      /\ checks \in Seq([tee: TeeIds, proven: BOOLEAN])
  BY EmptySeq DEF RegInit
<1>3. tool \in ToolType /\ reported \in ToolType /\ reported = Off
  BY OffType DEF RegInit
<1>4. ~Loaded /\ tool.attest = 0 /\ tool.check = 0
  BY DEF RegInit, Loaded, Off
<1> QED
  BY <1>1, <1>2, <1>3, <1>4 DEF RegTypeOK

\* A tool that has stopped is well typed.
LEMMA StoppedTypes ==
  ASSUME tool' = Off
  PROVE  tool' \in ToolType /\ ~Loaded' /\ tool'.attest = 0 /\ tool'.check = 0
  BY OffType DEF Off, Loaded

\* The first two tools and the start and the end of register-tee.
LEMMA RunTypes ==
  ASSUME RegTypeOK,
         \/ \E command \in Commands, resume \in Resumes : Start(command, resume)
         \/ AllowTeeVersion \/ SetTeeGovernance \/ Begin
         \/ EndsWithoutPromotion \/ Fatal \/ Interrupted
         \/ \E letter \in Letters : Passes(letter)
  PROVE  RegTypeOK'
<1>1. CASE \E command \in Commands, resume \in Resumes : Start(command, resume)
  <2>1. /\ tool' \in ToolType /\ tool'.stage = "allow"
        /\ tool'.attest = 0 /\ tool'.check = 0 /\ failures' \in Nat
    BY <1>1, StartEffect
  <2>2. UNCHANGED <<node, now, extensionVars, requestVars, file, reported>>
    BY <1>1 DEF Start
  <2> QED
    BY <2>1, <2>2 DEF RegTypeOK, Loaded, extensionVars, requestVars
<1>2. CASE AllowTeeVersion \/ SetTeeGovernance
  <2>1. /\ tool' \in ToolType /\ ~Loaded' /\ tool'.attest = 0 /\ tool'.check = 0
        /\ failures' \in Nat
    <3>1. ~Loaded
      BY <1>2 DEF AllowTeeVersion, SetTeeGovernance, Loaded
    <3>2. CASE tool' = Off
      BY <1>2, <3>2, StoppedTypes DEF AllowTeeVersion, SetTeeGovernance, Failure, RegTypeOK
    <3>3. CASE \E stage \in {"govern", "begin"} :
                 tool' = [tool EXCEPT !.stage = stage] /\ UNCHANGED failures
      BY <3>1, <3>3, AdvanceEffect DEF Loaded, RegTypeOK
    <3> QED
      BY <1>2, <3>2, <3>3 DEF AllowTeeVersion, SetTeeGovernance
  <2>2. versions' \subseteq Codes /\ governance' \in BOOLEAN
    BY <1>2 DEF AllowTeeVersion, SetTeeGovernance, RegTypeOK
  <2>3. UNCHANGED <<node, now, requestVars, file, reported>>
    BY <1>2 DEF AllowTeeVersion, SetTeeGovernance
  <2> QED
    BY <2>1, <2>2, <2>3 DEF RegTypeOK, requestVars
<1>3. CASE Begin
  <2>1. /\ tool' \in ToolType
        /\ IF Loaded' THEN tool'.tee \in TeeIds ELSE tool'.attest = 0 /\ tool'.check = 0
    BY <1>3, BeginEffect, StoppedTypes DEF Loaded, RegTypeOK
  <2>2. file' \in {file, NoFile}
    BY <1>3 DEF Begin
  <2>3. UNCHANGED <<node, now, extensionVars, requestVars, reported, failures>>
    BY <1>3 DEF Begin
  <2> QED
    BY <2>1, <2>2, <2>3 DEF RegTypeOK, extensionVars, requestVars
<1>4. CASE EndsWithoutPromotion
  <2>1. tool' = Off /\ file' = NoFile /\ reported' = tool /\ tool.tee \in TeeIds
    BY <1>4 DEF EndsWithoutPromotion, Finishes, RegTypeOK, Loaded
  <2>2. UNCHANGED <<node, now, extensionVars, requestVars, failures>>
    BY <1>4 DEF EndsWithoutPromotion, Finishes
  <2> QED
    BY <2>1, <2>2, StoppedTypes DEF RegTypeOK, extensionVars, requestVars
<1>5. CASE Fatal \/ Interrupted
  <2>1. tool' = Off /\ failures' \in Nat
    BY <1>5 DEF Fatal, Interrupted, Failure, RegTypeOK
  <2>2. UNCHANGED <<node, now, extensionVars, requestVars, file, reported>>
    BY <1>5 DEF Fatal, Interrupted
  <2> QED
    BY <2>1, <2>2, StoppedTypes DEF RegTypeOK, extensionVars, requestVars
<1>6. ASSUME NEW letter \in Letters, Passes(letter)
      PROVE  RegTypeOK'
  <2>1. tool' \in ToolType /\ Loaded' /\ tool'.tee \in TeeIds
    BY <1>6, PassesEffect, StageTypes DEF RegTypeOK, Loaded, Letters
  <2>2. UNCHANGED <<node, now, extensionVars, requestVars, file, reported, failures>>
    BY <1>6 DEF Passes
  <2> QED
    BY <2>1, <2>2 DEF RegTypeOK, extensionVars, requestVars
<1> QED
  BY <1>1, <1>2, <1>3, <1>4, <1>5, <1>6

\* How a transaction of a step ends, for the types.
LEMMA OutcomeTypes ==
  ASSUME RegTypeOK, NEW letter \in Letters, NEW attest \in Nat, NEW check \in Nat,
         tool.stage = letter,
         Confirmed(letter, attest, check) \/ Unconfirmed(letter)
  PROVE  /\ tool' \in ToolType /\ file' \in StateType \cup {NoFile, Corrupt}
         /\ failures' \in Nat
         /\ IF Loaded' THEN tool'.tee \in TeeIds ELSE tool'.attest = 0 /\ tool'.check = 0
<1>1. CASE Confirmed(letter, attest, check)
  <2>1. /\ tool' \in ToolType /\ tool'.tee = tool.tee /\ tool'.stage = Successor[letter]
        /\ file' \in {file, tool'.state} /\ tool'.state \in StateType /\ failures' \in Nat
    BY <1>1, ConfirmedEffect
  <2>2. Loaded' /\ tool.tee \in TeeIds
    BY <2>1, StageTypes DEF Loaded, Letters, RegTypeOK
  <2> QED
    BY <2>1, <2>2 DEF RegTypeOK
<1>2. CASE Unconfirmed(letter)
  <2>1. tool' = Off /\ file' \in {file, Corrupt} /\ failures' \in Nat
    BY <1>2 DEF Unconfirmed, Failure, RegTypeOK
  <2> QED
    BY <2>1, StoppedTypes DEF RegTypeOK
<1> QED
  BY <1>1, <1>2

\* The transactions of register-tee.
LEMMA TransactionTypes ==
  ASSUME RegTypeOK,
         \/ PreRegister \/ RequestTeeAttestation \/ RequestFTDCAvailabilityCheck
         \/ ToProduction
  PROVE  RegTypeOK'
<1>t. tool \in ToolType /\ tool.tee \in TeeIds
  BY DEF PreRegister, RequestTeeAttestation, RequestFTDCAvailabilityCheck, ToProduction,
     Due, RegTypeOK, Loaded
<1>s. tool.state.attest \in Nat /\ tool.state.check \in Nat
  BY <1>t DEF ToolType, StateType
<1>1. CASE PreRegister \/ RequestTeeAttestation
  <2>1. PICK letter \in {"r", "R"} :
          /\ tool.stage = letter
          /\ \/ Confirmed(letter, Len(attests'), tool.state.check)
             \/ Unconfirmed(letter)
    BY <1>1 DEF PreRegister, RequestTeeAttestation, Due
  <2>2. /\ attests' \in Seq([tee: TeeIds, at: Nat, used: BOOLEAN]) /\ Len(attests') \in Nat
    BY <1>1, <1>t, IssueEffect DEF PreRegister, RequestTeeAttestation
  <2>3. /\ tool' \in ToolType /\ file' \in StateType \cup {NoFile, Corrupt}
        /\ failures' \in Nat
        /\ IF Loaded' THEN tool'.tee \in TeeIds ELSE tool'.attest = 0 /\ tool'.check = 0
    BY <1>s, <2>1, <2>2, OutcomeTypes DEF Letters
  <2>4. machine' \in [TeeIds -> {"absent", "registered", "production"}]
    BY <1>1 DEF PreRegister, RequestTeeAttestation, RegTypeOK
  <2>5. UNCHANGED <<node, now, extensionVars, checks, reported>>
    BY <1>1 DEF PreRegister, RequestTeeAttestation
  <2> QED
    BY <2>2, <2>3, <2>4, <2>5 DEF RegTypeOK, extensionVars
<1>2. CASE RequestFTDCAvailabilityCheck
  <2>1. tool.attest \in DOMAIN attests
    BY <1>2 DEF RequestFTDCAvailabilityCheck, ChallengeValid
  <2>2. /\ attests' \in Seq([tee: TeeIds, at: Nat, used: BOOLEAN])
        /\ checks' \in Seq([tee: TeeIds, proven: BOOLEAN]) /\ Len(checks') \in Nat
    BY <1>2, <1>t, <2>1, CheckEffect DEF RequestFTDCAvailabilityCheck
  <2>3. /\ tool' \in ToolType /\ file' \in StateType \cup {NoFile, Corrupt}
        /\ failures' \in Nat
        /\ IF Loaded' THEN tool'.tee \in TeeIds ELSE tool'.attest = 0 /\ tool'.check = 0
    BY <1>2, <1>s, <2>2, OutcomeTypes DEF Letters, RequestFTDCAvailabilityCheck, Due
  <2>4. UNCHANGED <<node, now, extensionVars, machine, reported>>
    BY <1>2 DEF RequestFTDCAvailabilityCheck
  <2> QED
    BY <2>2, <2>3, <2>4 DEF RegTypeOK, extensionVars
<1>3. CASE ToProduction
  <2>1. machine' \in [TeeIds -> {"absent", "registered", "production"}]
    BY <1>3 DEF ToProduction, RegTypeOK
  <2>2. /\ tool' = Off /\ file' \in {file, NoFile} /\ failures' \in Nat
        /\ reported' \in {reported, tool}
    BY <1>3 DEF ToProduction, Finishes, Failure, RegTypeOK
  <2>3. UNCHANGED <<node, now, extensionVars, attests, checks>>
    BY <1>3 DEF ToProduction
  <2> QED
    BY <1>t, <2>1, <2>2, <2>3, StoppedTypes DEF RegTypeOK, extensionVars
<1> QED
  BY <1>1, <1>2, <1>3

\* The surroundings.
LEMMA SurroundingTypes ==
  ASSUME RegTypeOK,
         \/ \E code \in Codes : Relaunch(code)
         \/ \E check \in DOMAIN checks : Prove(check)
         \/ Tick \/ UNCHANGED regVars
  PROVE  RegTypeOK'
<1>1. CASE \E code \in Codes : Relaunch(code)
  <2>1. node' \in [tee: TeeIds, code: Codes]
    BY <1>1, RegistrationAssumption DEF Relaunch, RegTypeOK, TeeIds
  <2>2. UNCHANGED <<now, extensionVars, requestVars, tool, file, reported, failures>>
    BY <1>1 DEF Relaunch
  <2> QED
    BY <2>1, <2>2 DEF RegTypeOK, Loaded, extensionVars, requestVars
<1>2. ASSUME NEW check \in DOMAIN checks, Prove(check)
      PROVE  RegTypeOK'
  <2>1. checks' \in Seq([tee: TeeIds, proven: BOOLEAN])
    BY <1>2, ProveEffect
  <2>2. UNCHANGED <<node, now, extensionVars, machine, attests, tool, file, reported,
                    failures>>
    BY <1>2 DEF Prove
  <2> QED
    BY <2>1, <2>2 DEF RegTypeOK, Loaded, extensionVars
<1>3. CASE Tick \/ UNCHANGED regVars
  <2>1. now' \in Nat
    BY <1>3 DEF Tick, regVars, RegTypeOK
  <2>2. UNCHANGED <<node, extensionVars, requestVars, tool, file, reported, failures>>
    BY <1>3 DEF Tick, regVars
  <2> QED
    BY <2>1, <2>2 DEF RegTypeOK, Loaded, extensionVars, requestVars
<1> QED
  BY <1>1, <1>2, <1>3

\* Every step keeps the types.
LEMMA RegTypeNext == RegTypeOK /\ [RegNext]_regVars => RegTypeOK'
  BY RunTypes, TransactionTypes, SurroundingTypes DEF RegNext, ToolStep, Letters

-----------------------------------------------------------------------------
(* The report. *)

\* No step takes a machine out of production or off the registry, or an
\* attestation or a check away from its machine.
LEMMA RegistryGrows ==
  ASSUME RegTypeOK, [RegNext]_regVars
  PROVE  /\ \A t \in TeeIds :
              /\ machine[t] = "production" => machine'[t] = "production"
              /\ machine[t] # "absent" => machine'[t] # "absent"
         /\ \A i \in DOMAIN attests :
              i \in DOMAIN attests' /\ attests'[i].tee = attests[i].tee
         /\ \A i \in DOMAIN checks :
              i \in DOMAIN checks' /\ checks'[i].tee = checks[i].tee
<1>0. machine \in [TeeIds -> {"absent", "registered", "production"}]
  BY DEF RegTypeOK
<1>t. tool.stage \in {"r", "R", "a", "p"} => tool.tee \in TeeIds
  BY DEF RegTypeOK, Loaded
<1>1. CASE PreRegister \/ RequestTeeAttestation
  <2>1. tool.tee \in TeeIds /\ IssueAttestation(tool.tee) /\ UNCHANGED checks
    BY <1>1, <1>t DEF PreRegister, RequestTeeAttestation, Due
  <2>2. \A i \in DOMAIN attests : i \in DOMAIN attests' /\ attests'[i] = attests[i]
    BY <2>1, IssueEffect
  <2>3. \A t \in TeeIds :
          /\ machine[t] = "production" => machine'[t] = "production"
          /\ machine[t] # "absent" => machine'[t] # "absent"
    BY <1>0, <1>1 DEF PreRegister, RequestTeeAttestation, CanRegister
  <2> QED
    BY <2>1, <2>2, <2>3
<1>2. CASE RequestFTDCAvailabilityCheck
  <2>1. tool.tee \in TeeIds /\ tool.attest \in DOMAIN attests /\ UNCHANGED machine
    BY <1>2, <1>t DEF RequestFTDCAvailabilityCheck, ChallengeValid, Due
  <2> QED
    BY <1>2, <2>1, CheckEffect DEF RequestFTDCAvailabilityCheck
<1>3. CASE ToProduction
  BY <1>0, <1>3 DEF ToProduction
<1>4. CASE \E check \in DOMAIN checks : Prove(check)
  BY <1>4, ProveEffect DEF Prove
<1>5. CASE UNCHANGED requestVars
  BY <1>5 DEF requestVars
<1>6. ASSUME \/ \E command \in Commands, resume \in Resumes : Start(command, resume)
             \/ AllowTeeVersion \/ SetTeeGovernance \/ Begin
             \/ \E letter \in Letters : Passes(letter)
             \/ EndsWithoutPromotion \/ Fatal \/ Interrupted \/ Tick \/ UNCHANGED regVars
             \/ \E code \in Codes : Relaunch(code)
      PROVE  UNCHANGED requestVars
  BY <1>6 DEF Start, AllowTeeVersion, SetTeeGovernance, Begin, Passes,
     EndsWithoutPromotion, Fatal, Interrupted, Tick, Relaunch, regVars, requestVars
<1> QED
  BY <1>1, <1>2, <1>3, <1>4, <1>5, <1>6 DEF RegNext, ToolStep, Letters

\* RunInv says nothing of a tool that has stopped.
LEMMA RunInvStops ==
  ASSUME ~Loaded'
  PROVE  RunInv'
  BY DEF RunInv, Loaded, Letters

\* RunInv is inductive.
LEMMA RunInvNext ==
  ASSUME RegTypeOK, RunInv, [RegNext]_regVars
  PROVE  RunInv'
<1>g. \A i \in DOMAIN checks : i \in DOMAIN checks' /\ checks'[i].tee = checks[i].tee
  BY RegistryGrows
<1>1. CASE tool' = tool
  BY <1>1, <1>g DEF RunInv, Loaded
<1>2. CASE \E command \in Commands, resume \in Resumes : Start(command, resume)
  BY <1>2, StartEffect, RunInvStops DEF Loaded
<1>3. CASE AllowTeeVersion \/ SetTeeGovernance
  <2>1. CASE tool' = Off
    BY <2>1, StoppedTypes, RunInvStops
  <2>2. CASE \E stage \in {"govern", "begin"} : tool' = [tool EXCEPT !.stage = stage]
    BY <2>2, AdvanceEffect, RunInvStops DEF Loaded
  <2> QED
    BY <1>3, <2>1, <2>2 DEF AllowTeeVersion, SetTeeGovernance
<1>4. CASE Begin
  <2>1. CASE tool' = Off
    BY <2>1, StoppedTypes, RunInvStops
  <2>2. CASE tool' # Off
    <3>1. /\ tool'.check = 0 /\ tool'.resume = tool.resume
          /\ tool.resume \/ tool'.state = EmptyState
      BY <1>4, <2>2, BeginEffect
    <3> QED
      BY <3>1 DEF RunInv, EmptyState
  <2> QED
    BY <2>1, <2>2
<1>5. ASSUME NEW letter \in Letters, Passes(letter)
      PROVE  RunInv'
  <2>1. /\ tool.stage = letter /\ tool'.resume = tool.resume /\ tool'.tee = tool.tee
        /\ tool'.state = tool.state
        /\ ~tool.resume => tool'.check = tool.check
    BY <1>5, PassesEffect DEF RunInv
  <2>2. checks' = checks
    BY <1>5 DEF Passes, requestVars
  <2> QED
    BY <2>1, <2>2 DEF RunInv, Loaded, Letters
<1>6. CASE PreRegister \/ RequestTeeAttestation
  <2>1. PICK letter \in {"r", "R"} :
          /\ tool.stage = letter
          /\ \/ Confirmed(letter, Len(attests'), tool.state.check)
             \/ Unconfirmed(letter)
    BY <1>6 DEF PreRegister, RequestTeeAttestation, Due
  <2>2. CASE Unconfirmed(letter)
    BY <2>2, StoppedTypes, RunInvStops DEF Unconfirmed
  <2>3. CASE Confirmed(letter, Len(attests'), tool.state.check)
    <3>1. Len(attests') \in Nat /\ tool.state.check \in Nat
      <4>1. tool.tee \in TeeIds /\ IssueAttestation(tool.tee)
        BY <1>6, <2>1 DEF PreRegister, RequestTeeAttestation, RegTypeOK, Loaded
      <4> QED
        BY <4>1, IssueEffect DEF RegTypeOK, ToolType, StateType
    <3>2. /\ tool'.resume = tool.resume /\ tool'.tee = tool.tee
          /\ tool'.check = tool.check
          /\ tool'.state.completed = tool.state.completed \cup {letter}
      BY <2>1, <2>3, <3>1, ConfirmedEffect DEF Letters
    <3> QED
      BY <1>g, <2>1, <3>2 DEF RunInv, Loaded, Letters
  <2> QED
    BY <2>1, <2>2, <2>3
<1>7. CASE RequestFTDCAvailabilityCheck
  <2>1. /\ tool.stage = "a"
        /\ \/ Confirmed("a", tool.state.attest, Len(checks'))
           \/ Unconfirmed("a")
    BY <1>7 DEF RequestFTDCAvailabilityCheck, Due
  <2>2. CASE Unconfirmed("a")
    BY <2>2, StoppedTypes, RunInvStops DEF Unconfirmed
  <2>3. CASE Confirmed("a", tool.state.attest, Len(checks'))
    <3>1. /\ Len(checks') \in Nat /\ Len(checks') \in DOMAIN checks'
          /\ checks'[Len(checks')].tee = tool.tee /\ tool.state.attest \in Nat
      <4>1. tool.tee \in TeeIds /\ tool.attest \in DOMAIN attests
        BY <1>7, <2>1 DEF RequestFTDCAvailabilityCheck, ChallengeValid, RegTypeOK, Loaded
      <4> QED
        BY <1>7, <4>1, CheckEffect DEF RequestFTDCAvailabilityCheck, RegTypeOK, ToolType,
           StateType
    <3>2. tool'.tee = tool.tee /\ tool'.check = Len(checks') /\ tool'.stage = "p"
      BY <2>3, <3>1, ConfirmedEffect, StageTypes DEF Letters
    <3> QED
      BY <3>1, <3>2 DEF RunInv, Letters
  <2> QED
    BY <2>1, <2>2, <2>3
<1>8. CASE ToProduction \/ EndsWithoutPromotion \/ Fatal \/ Interrupted
  <2>1. tool' = Off
    BY <1>8 DEF ToProduction, EndsWithoutPromotion, Finishes, Fatal, Interrupted
  <2> QED
    BY <2>1, StoppedTypes, RunInvStops
<1>9. ASSUME \/ \E code \in Codes : Relaunch(code)
             \/ \E check \in DOMAIN checks : Prove(check)
             \/ Tick \/ UNCHANGED regVars
      PROVE  tool' = tool
  BY <1>9 DEF Relaunch, Prove, Tick, regVars
<1> QED
  BY <1>1, <1>2, <1>3, <1>4, <1>5, <1>6, <1>7, <1>8, <1>9 DEF RegNext, ToolStep, Letters

\* A report is made by the run that promoted, and stays true.
LEMMA ReportNext ==
  ASSUME RegTypeOK, RunInv, FreshReportIsTrue, [RegNext]_regVars
  PROVE  FreshReportIsTrue'
<1>1. CASE reported' = reported
  BY <1>1, RegistryGrows DEF FreshReportIsTrue, RegTypeOK
<1>2. CASE ToProduction /\ Finishes
  <2>1. /\ reported' = tool /\ tool.stage = "p" /\ tool.tee \in TeeIds
        /\ tool.check \in DOMAIN checks
        /\ machine' = [machine EXCEPT ![checks[tool.check].tee] = "production"]
    BY <1>2 DEF ToProduction, Finishes, ProofReady, RegTypeOK, Loaded
  <2>2. tool.check # 0
    BY <2>1, LenProperties DEF RegTypeOK
  <2>3. ~tool.resume => checks[tool.check].tee = tool.tee
    BY <2>1, <2>2 DEF RunInv, Loaded
  <2> QED
    BY <2>1, <2>3 DEF FreshReportIsTrue, RegTypeOK
<1>3. CASE EndsWithoutPromotion
  BY <1>3 DEF EndsWithoutPromotion, Finishes, FreshReportIsTrue
<1>4. ASSUME ~EndsWithoutPromotion, ~(ToProduction /\ Finishes)
      PROVE  reported' = reported
  BY <1>4 DEF RegNext, ToolStep, regVars, Start, AllowTeeVersion, SetTeeGovernance, Begin,
     Passes, PreRegister, RequestTeeAttestation, RequestFTDCAvailabilityCheck,
     ToProduction, Fatal, Interrupted, Relaunch, Prove, Tick
<1> QED
  BY <1>1, <1>2, <1>3, <1>4

\* At first nothing runs and nothing has been reported.
LEMMA ReportInit == RegInit => RunInv /\ FreshReportIsTrue
<1> SUFFICES ASSUME RegInit
             PROVE  RunInv /\ FreshReportIsTrue
  OBVIOUS
<1>1. tool = Off /\ reported = Off
  BY DEF RegInit
<1> QED
  BY <1>1 DEF RunInv, FreshReportIsTrue, Loaded, Off

\* The types of the tool, of the registry and of the state file.
THEOREM RegTypeCorrect == RegSpec => []RegTypeOK
  BY RegTypeInit, RegTypeNext, PTL DEF RegSpec

\* Whatever runs, relaunches, lost receipts and failed saves came before, and
\* for any number of them: a run without -resume that was to promote reports a
\* machine that is in production.
THEOREM FreshReportsAreTrue == RegSpec => []FreshReportIsTrue
<1>1. RegInit => RegTypeOK /\ RunInv /\ FreshReportIsTrue
  BY RegTypeInit, ReportInit
<1>2. RegTypeOK /\ RunInv /\ FreshReportIsTrue /\ [RegNext]_regVars
        => RegTypeOK' /\ RunInv' /\ FreshReportIsTrue'
  BY RegTypeNext, RunInvNext, ReportNext
<1> QED
  BY <1>1, <1>2, PTL DEF RegSpec

-----------------------------------------------------------------------------
(* The state file. *)

\* No step but pre-registration puts a machine on the registry.
NoNewMachine == \A t \in TeeIds : machine'[t] # "absent" => machine[t] # "absent"

\* A machine joins the registry in PreRegister, and it is the tool's.
LEMMA OnlyPreRegisters ==
  ASSUME RegTypeOK, RegistryInv, [RegNext]_regVars
  PROVE  \/ NoNewMachine
         \/ /\ PreRegister
            /\ \A t \in TeeIds :
                 machine'[t] # "absent" => machine[t] # "absent" \/ t = tool.tee
<1>1. CASE PreRegister
  BY <1>1 DEF PreRegister, RegTypeOK
<1>2. CASE ToProduction
  <2>1. /\ tool.check \in DOMAIN checks
        /\ machine' = [machine EXCEPT ![checks[tool.check].tee] = "production"]
    BY <1>2 DEF ToProduction, ProofReady
  <2>2. machine[checks[tool.check].tee] # "absent"
    BY <2>1 DEF RegistryInv
  <2> QED
    BY <2>1, <2>2 DEF NoNewMachine, RegTypeOK
<1>3. ASSUME ~PreRegister, ~ToProduction
      PROVE  machine' = machine
  BY <1>3 DEF RegNext, ToolStep, regVars, Start, AllowTeeVersion, SetTeeGovernance, Begin,
     Passes, RequestTeeAttestation, RequestFTDCAvailabilityCheck, EndsWithoutPromotion,
     Fatal, Interrupted, Relaunch, Prove, Tick, requestVars
<1> QED
  BY <1>1, <1>2, <1>3 DEF NoNewMachine

\* What the tool's next state may be.
LEMMA RunMoves ==
  ASSUME RegTypeOK, [RegNext]_regVars
  PROVE  \/ UNCHANGED tool /\ UNCHANGED file
         \/ ~Loaded' /\ tool'.attest = 0 /\ tool'.state \in {tool.state, EmptyState}
            /\ file' \in {file, NoFile, Corrupt}
         \/ Begin /\ Loaded'
         \/ \E letter \in Letters : Passes(letter)
         \/ /\ PreRegister
            /\ Confirmed("r", Len(attests'), tool.state.check)
         \/ /\ RequestTeeAttestation
            /\ Confirmed("R", Len(attests'), tool.state.check)
         \/ /\ RequestFTDCAvailabilityCheck
            /\ Confirmed("a", tool.state.attest, Len(checks'))
<1> DEFINE Stops == /\ ~Loaded' /\ tool'.attest = 0
                    /\ tool'.state \in {tool.state, EmptyState}
                    /\ file' \in {file, NoFile, Corrupt}
<1>0. ASSUME tool' = Off, file' \in {file, NoFile, Corrupt}
      PROVE  Stops
  BY <1>0, StoppedTypes DEF Off
<1>1. CASE \E command \in Commands, resume \in Resumes : Start(command, resume)
  <2>1. tool'.stage = "allow" /\ tool'.state = EmptyState /\ tool'.attest = 0
    BY <1>1, StartEffect
  <2> QED
    BY <1>1, <2>1 DEF Start, Loaded
<1>2. CASE AllowTeeVersion \/ SetTeeGovernance
  <2>1. file' = file /\ ~Loaded
    BY <1>2 DEF AllowTeeVersion, SetTeeGovernance, Loaded
  <2>2. ASSUME NEW stage \in {"govern", "begin"}, tool' = [tool EXCEPT !.stage = stage]
        PROVE  Stops
    BY <2>1, <2>2, AdvanceEffect DEF Loaded, RegTypeOK
  <2> HIDE DEF Stops
  <2> QED
    BY <1>0, <1>2, <2>1, <2>2 DEF AllowTeeVersion, SetTeeGovernance, Stops
<1>3. CASE Begin /\ ~Loaded'
  <2>1. tool' = Off /\ file' \in {file, NoFile}
    BY <1>3, BeginEffect DEF Loaded
  <2> QED
    BY <1>0, <2>1
<1>4. CASE PreRegister
  <2>1. CASE Unconfirmed("r")
    BY <1>0, <2>1 DEF Unconfirmed
  <2> QED
    BY <1>4, <2>1 DEF PreRegister
<1>5. CASE RequestTeeAttestation
  <2>1. CASE Unconfirmed("R")
    BY <1>0, <2>1 DEF Unconfirmed
  <2> QED
    BY <1>5, <2>1 DEF RequestTeeAttestation
<1>6. CASE RequestFTDCAvailabilityCheck
  <2>1. CASE Unconfirmed("a")
    BY <1>0, <2>1 DEF Unconfirmed
  <2> QED
    BY <1>6, <2>1 DEF RequestFTDCAvailabilityCheck
<1>7. CASE ToProduction \/ EndsWithoutPromotion \/ Fatal \/ Interrupted
  <2>1. tool' = Off /\ file' \in {file, NoFile}
    BY <1>7 DEF ToProduction, EndsWithoutPromotion, Finishes, Fatal, Interrupted
  <2> QED
    BY <1>0, <2>1
<1>8. ASSUME \/ \E code \in Codes : Relaunch(code)
             \/ \E check \in DOMAIN checks : Prove(check)
             \/ Tick \/ UNCHANGED regVars
      PROVE  UNCHANGED tool /\ UNCHANGED file
  BY <1>8 DEF Relaunch, Prove, Tick, regVars
<1> HIDE DEF Stops
<1>9. \/ \E command \in Commands, resume \in Resumes : Start(command, resume)
      \/ AllowTeeVersion \/ SetTeeGovernance \/ Begin
      \/ \E letter \in Letters : Passes(letter)
      \/ PreRegister \/ RequestTeeAttestation \/ RequestFTDCAvailabilityCheck
      \/ ToProduction \/ EndsWithoutPromotion \/ Fatal \/ Interrupted
      \/ \E code \in Codes : Relaunch(code)
      \/ \E check \in DOMAIN checks : Prove(check)
      \/ Tick \/ UNCHANGED regVars
  BY DEF RegNext, ToolStep, Letters
<1> QED
  BY <1>1, <1>2, <1>3, <1>4, <1>5, <1>6, <1>7, <1>8, <1>9

\* Before and after every step the registry has no machine later than the live
\* one, and knows those it made requests for.
LEMMA RegistryNext ==
  ASSUME RegTypeOK, RegTypeOK', RegistryInv, [RegNext]_regVars
  PROVE  RegistryInv'
<1> DEFINE Old(t) == machine[t] # "absent"
           New(t) == machine'[t] # "absent"
<1>t. /\ node.tee \in Nat /\ TeeIds \subseteq Nat
      /\ \A i \in DOMAIN attests : attests[i].tee \in TeeIds
      /\ \A i \in DOMAIN checks : checks[i].tee \in TeeIds
      /\ Loaded => tool.tee \in TeeIds /\ tool.tee \in Nat
  <2>1. /\ \A i \in DOMAIN attests : attests[i] \in [tee: TeeIds, at: Nat, used: BOOLEAN]
        /\ \A i \in DOMAIN checks : checks[i] \in [tee: TeeIds, proven: BOOLEAN]
    <3>1. /\ attests \in Seq([tee: TeeIds, at: Nat, used: BOOLEAN])
          /\ checks \in Seq([tee: TeeIds, proven: BOOLEAN])
      BY DEF RegTypeOK
    <3> QED
      BY <3>1, Entries
  <2> QED
    BY <2>1, StageTypes DEF RegTypeOK
<1>g. /\ \A t \in TeeIds : Old(t) => New(t)
      /\ \A i \in DOMAIN attests : i \in DOMAIN attests' /\ attests'[i].tee = attests[i].tee
      /\ \A i \in DOMAIN checks : i \in DOMAIN checks' /\ checks'[i].tee = checks[i].tee
  BY RegistryGrows
<1>n. \/ \A t \in TeeIds : New(t) => Old(t)
      \/ /\ PreRegister /\ Loaded
         /\ \A t \in TeeIds : New(t) => Old(t) \/ t = tool.tee
  BY OnlyPreRegisters DEF NoNewMachine, PreRegister, Due, Loaded
<1>1. \A i \in DOMAIN attests' : New(attests'[i].tee)
  <2>1. CASE PreRegister \/ RequestTeeAttestation
    <3>1. tool.tee \in TeeIds /\ IssueAttestation(tool.tee) /\ New(tool.tee)
      BY <2>1, <1>t DEF PreRegister, RequestTeeAttestation, Due, Loaded, RegTypeOK
    <3>2. /\ DOMAIN attests' = DOMAIN attests \cup {Len(attests')}
          /\ attests'[Len(attests')].tee = tool.tee
      BY <3>1, IssueEffect
    <3> QED
      BY <1>g, <1>t, <3>1, <3>2 DEF RegistryInv
  <2>2. CASE DOMAIN attests' = DOMAIN attests
    BY <1>g, <1>t, <2>2 DEF RegistryInv
  <2>3. CASE RequestFTDCAvailabilityCheck
    <3>1. attests' = [attests EXCEPT ![tool.attest].used = TRUE]
      BY <2>3 DEF RequestFTDCAvailabilityCheck
    <3> QED
      BY <2>2, <3>1
  <2>4. ASSUME ~PreRegister, ~RequestTeeAttestation, ~RequestFTDCAvailabilityCheck
        PROVE  attests' = attests
    BY <2>4 DEF RegNext, ToolStep, regVars, Start, AllowTeeVersion, SetTeeGovernance,
       Begin, Passes, ToProduction, EndsWithoutPromotion, Fatal, Interrupted, Relaunch,
       Prove, Tick, requestVars
  <2> QED
    BY <2>1, <2>2, <2>3, <2>4
<1>2. \A i \in DOMAIN checks' : New(checks'[i].tee)
  <2>1. CASE RequestFTDCAvailabilityCheck
    <3>1. /\ tool.tee \in TeeIds /\ tool.attest \in DOMAIN attests
          /\ attests[tool.attest].tee = tool.tee
      BY <2>1, <1>t DEF RequestFTDCAvailabilityCheck, ChallengeValid, Due, Loaded
    <3>2. New(tool.tee)
      BY <1>g, <3>1 DEF RegistryInv
    <3>3. /\ checks' = Append(checks, [tee |-> tool.tee, proven |-> FALSE])
          /\ checks \in Seq([tee: TeeIds, proven: BOOLEAN])
      BY <2>1 DEF RequestFTDCAvailabilityCheck, RegTypeOK
    <3>4. /\ \A i \in DOMAIN checks' : i \in DOMAIN checks \/ i = Len(checks')
          /\ checks'[Len(checks')].tee = tool.tee
      <4>1. checks'[Len(checks')].tee = tool.tee
        BY <2>1, <3>1, CheckEffect DEF RequestFTDCAvailabilityCheck
      <4>2. Len(checks') = Len(checks) + 1 /\ Len(checks) \in Nat
            /\ DOMAIN checks = 1 .. Len(checks) /\ DOMAIN checks' = 1 .. Len(checks')
        BY <3>3, LenProperties DEF RegTypeOK
      <4> QED
        BY <4>1, <4>2
    <3> QED
      BY <1>g, <1>t, <3>2, <3>4 DEF RegistryInv
  <2>2. CASE DOMAIN checks' = DOMAIN checks
    BY <1>g, <1>t, <2>2 DEF RegistryInv
  <2>3. CASE \E check \in DOMAIN checks : Prove(check)
    BY <2>2, <2>3, ProveEffect
  <2>4. ASSUME ~RequestFTDCAvailabilityCheck, ~\E check \in DOMAIN checks : Prove(check)
        PROVE  checks' = checks
    BY <2>4 DEF RegNext, ToolStep, regVars, Start, AllowTeeVersion, SetTeeGovernance,
       Begin, Passes, ToProduction, EndsWithoutPromotion, Fatal, Interrupted, Relaunch,
       PreRegister, RequestTeeAttestation, Tick, requestVars
  <2> QED
    BY <2>1, <2>2, <2>3, <2>4
<1>3. node'.tee \in Nat /\ node.tee <= node'.tee
  <2>1. CASE \E code \in Codes : Relaunch(code)
    BY <1>t, <2>1 DEF Relaunch
  <2>2. ASSUME ~\E code \in Codes : Relaunch(code)
        PROVE  node' = node
    BY <2>2 DEF RegNext, ToolStep, regVars, Start, AllowTeeVersion, SetTeeGovernance,
       Begin, Passes, ToProduction, EndsWithoutPromotion, Fatal, Interrupted, Prove,
       PreRegister, RequestTeeAttestation, RequestFTDCAvailabilityCheck, Tick
  <2> QED
    BY <1>t, <2>1, <2>2
<1>4. \A t \in TeeIds : New(t) => t <= node.tee
  BY <1>n, <1>t DEF RegistryInv, NoneAfter
<1>5. Loaded' => /\ tool'.tee <= node'.tee
                 /\ \A t \in TeeIds : New(t) => t <= tool'.tee
  <2>1. CASE Loaded /\ tool'.tee = tool.tee
    BY <1>n, <1>3, <1>t, <2>1 DEF RegistryInv, NoneAfter
  <2>2. CASE Begin /\ Loaded'
    <3>1. tool'.tee = node.tee
      BY <2>2, BeginEffect, StoppedTypes
    <3> QED
      BY <1>3, <1>4, <1>t, <3>1
  <2>3. ASSUME Loaded', ~Begin
        PROVE  Loaded /\ tool'.tee = tool.tee
    <3>1. CASE \E letter \in Letters : Passes(letter)
      BY <3>1, PassesEffect DEF Loaded, Letters
    <3>2. ASSUME NEW letter \in Letters, NEW attest \in Nat, NEW check \in Nat,
                 Due(letter), Confirmed(letter, attest, check)
          PROVE  Loaded /\ tool'.tee = tool.tee
      BY <3>2, ConfirmedEffect DEF Due, Loaded, Letters
    <3>3. /\ Loaded => tool.state.attest \in Nat /\ tool.state.check \in Nat
          /\ Len(attests') \in Nat /\ Len(checks') \in Nat
      BY LenProperties DEF RegTypeOK, ToolType, StateType
    <3>4. CASE \/ PreRegister /\ Confirmed("r", Len(attests'), tool.state.check)
               \/ RequestTeeAttestation /\ Confirmed("R", Len(attests'), tool.state.check)
               \/ /\ RequestFTDCAvailabilityCheck
                  /\ Confirmed("a", tool.state.attest, Len(checks'))
      <4>1. Loaded
        BY <3>4 DEF PreRegister, RequestTeeAttestation, RequestFTDCAvailabilityCheck,
           Due, Loaded
      <4> QED
        BY <3>2, <3>3, <3>4, <4>1 DEF PreRegister, RequestTeeAttestation,
           RequestFTDCAvailabilityCheck, Letters
    <3>5. CASE UNCHANGED tool
      BY <2>3, <3>5 DEF Loaded
    <3> QED
      BY <2>3, <3>1, <3>4, <3>5, RunMoves
  <2> QED
    BY <2>1, <2>2, <2>3
<1> QED
  BY <1>1, <1>2, <1>3, <1>4, <1>5, <1>t DEF RegistryInv, NoneAfter, RegTypeOK

\* What a state file or the running tool records stays true while no machine
\* is registered, and longer if it has no pre-registration.
LEMMA StateKept ==
  ASSUME RegTypeOK, RegistryInv, [RegNext]_regVars, NEW state, StateIsTrue(state),
         "r" \notin state.completed \/ NoNewMachine
  PROVE  StateIsTrue(state)'
<1>1. /\ \A i \in DOMAIN attests : i \in DOMAIN attests' /\ attests'[i].tee = attests[i].tee
      /\ \A i \in DOMAIN checks : i \in DOMAIN checks' /\ checks'[i].tee = checks[i].tee
  BY RegistryGrows
<1>2. state.completed \cap {"r", "R"} # {} => state.attest \in DOMAIN attests
  BY DEF StateIsTrue
<1>3. "r" \in state.completed =>
        \A t \in TeeIds : machine'[t] # "absent" => t <= attests'[state.attest].tee
  BY <1>1, <1>2 DEF StateIsTrue, NoneAfter, NoNewMachine
<1>4. "a" \in state.completed =>
        /\ "r" \in state.completed /\ state.check \in DOMAIN checks'
        /\ checks'[state.check].tee = attests'[state.attest].tee
  BY <1>1, <1>2 DEF StateIsTrue
<1> QED
  BY <1>1, <1>2, <1>3, <1>4 DEF StateIsTrue, NoneAfter

\* A new attestation is that of the machine of the recorded one, if that was a
\* pre-registration: none is registered that is later.
LEMMA SameMachine ==
  ASSUME RegTypeOK, RegistryInv, Loaded, StateIsTrue(tool.state),
         "r" \in tool.state.completed, machine[tool.tee] # "absent"
  PROVE  attests[tool.state.attest].tee = tool.tee
<1>1. tool.state.attest \in DOMAIN attests
  BY DEF StateIsTrue
<1>2. attests[tool.state.attest].tee \in TeeIds
  <2>1. attests \in Seq([tee: TeeIds, at: Nat, used: BOOLEAN])
    BY DEF RegTypeOK
  <2>2. attests[tool.state.attest] \in [tee: TeeIds, at: Nat, used: BOOLEAN]
    BY <1>1, <2>1, Entries
  <2> QED
    BY <2>2
<1>3. tool.tee <= attests[tool.state.attest].tee
  BY DEF StateIsTrue, NoneAfter, RegTypeOK
<1>4. attests[tool.state.attest].tee <= tool.tee
  BY <1>1, <1>2 DEF RegistryInv, NoneAfter
<1>5. tool.tee \in Nat /\ attests[tool.state.attest].tee \in Nat
  <2>1. tool.tee \in TeeIds
    BY DEF RegTypeOK
  <2> QED
    BY <1>2, <2>1, StageTypes
<1> QED
  BY <1>3, <1>4, <1>5

\* What a confirmed transaction makes of the tool and of the file.
LEMMA MineEffect ==
  ASSUME RegTypeOK,
         \/ PreRegister /\ Confirmed("r", Len(attests'), tool.state.check)
         \/ RequestTeeAttestation /\ Confirmed("R", Len(attests'), tool.state.check)
         \/ /\ RequestFTDCAvailabilityCheck
            /\ Confirmed("a", tool.state.attest, Len(checks'))
  PROVE  /\ \E letter \in Letters :
              tool'.state.completed = tool.state.completed \cup {letter}
         /\ file' \in {file, tool'.state}
<1>1. tool.tee \in TeeIds /\ tool.state.attest \in Nat /\ tool.state.check \in Nat
  BY DEF PreRegister, RequestTeeAttestation, RequestFTDCAvailabilityCheck, Due, Loaded,
     RegTypeOK, ToolType, StateType
<1>2. CASE \/ PreRegister /\ Confirmed("r", Len(attests'), tool.state.check)
           \/ RequestTeeAttestation /\ Confirmed("R", Len(attests'), tool.state.check)
  <2>1. Len(attests') \in Nat
    BY <1>1, <1>2, IssueEffect DEF PreRegister, RequestTeeAttestation
  <2> QED
    BY <1>1, <1>2, <2>1, ConfirmedEffect DEF Letters
<1>3. CASE /\ RequestFTDCAvailabilityCheck
           /\ Confirmed("a", tool.state.attest, Len(checks'))
  <2>1. Len(checks') \in Nat
    BY <1>1, <1>3, CheckEffect DEF RequestFTDCAvailabilityCheck, ChallengeValid
  <2> QED
    BY <1>1, <1>3, <2>1, ConfirmedEffect DEF Letters
<1> QED
  BY <1>2, <1>3

\* The parts of FileInv about the tool, for every kind of move.
ToolPart ==
  /\ StateIsTrue(tool.state)
  /\ tool.stage \in {"R", "a", "p"} /\ "r" \in tool.command =>
       "r" \in tool.state.completed
  /\ tool.attest # 0 =>
       tool.attest = tool.state.attest /\ tool.command \cap {"r", "R"} # {}

\* The parts about the file.
FilePart ==
  /\ file \notin {NoFile, Corrupt} => StateIsTrue(file)
  /\ Loaded /\ file \notin {NoFile, Corrupt} =>
       file.completed \subseteq tool.state.completed

\* The invariant of the file is that of the registry, the tool and the file.
LEMMA FileInvParts ==
  /\ FileInv <=> RegistryInv /\ ToolPart /\ FilePart
  /\ FileInv' <=> RegistryInv' /\ ToolPart' /\ FilePart'
  BY DEF FileInv, ToolPart, FilePart

\* A step whose receipt arrives after an attestation request.
LEMMA AttestConfirmed ==
  ASSUME RegTypeOK, RegistryInv, RegistryInv', ToolPart, [RegNext]_regVars,
         NEW letter \in {"r", "R"}, Due(letter),
         \/ PreRegister /\ letter = "r"
         \/ RequestTeeAttestation /\ letter = "R",
         Confirmed(letter, Len(attests'), tool.state.check)
  PROVE  ToolPart'
<1>1. tool.stage = letter /\ letter \in tool.command /\ Loaded
  BY DEF Due, Loaded
<1>2. tool.tee \in TeeIds /\ IssueAttestation(tool.tee) /\ UNCHANGED checks
  BY <1>1 DEF PreRegister, RequestTeeAttestation, RegTypeOK
<1>3. /\ Len(attests') \in Nat /\ Len(attests') \in DOMAIN attests'
      /\ attests'[Len(attests')].tee = tool.tee
      /\ tool.state.check \in Nat
  BY <1>2, IssueEffect DEF RegTypeOK, ToolType, StateType
<1>4. PICK s : s = tool'.state
  OBVIOUS
<1>5. /\ tool'.stage = Successor[letter] /\ tool'.command = tool.command
      /\ tool'.tee = tool.tee /\ tool'.attest = Len(attests')
      /\ s.completed = tool.state.completed \cup {letter}
      /\ s.attest = Len(attests') /\ s.check = tool.state.check
  BY <1>3, <1>4, ConfirmedEffect DEF Letters
<1>6. NoneAfter(tool.tee)'
  <2>1. Loaded'
    BY <1>5, StageTypes DEF Loaded
  <2> QED
    BY <1>5, <2>1 DEF RegistryInv, NoneAfter
<1>7. ASSUME "a" \in s.completed
      PROVE  /\ "r" \in s.completed /\ s.check \in DOMAIN checks
             /\ checks[s.check].tee = tool.tee
  <2>1. "a" \in tool.state.completed /\ "r" \in tool.state.completed
    BY <1>5, <1>7 DEF ToolPart, StateIsTrue
  <2>2. RequestTeeAttestation /\ machine[tool.tee] # "absent"
    BY <2>1 DEF Due, RequestTeeAttestation
  <2>3. attests[tool.state.attest].tee = tool.tee
    BY <1>1, <2>1, <2>2, SameMachine DEF ToolPart
  <2> QED
    BY <1>5, <2>1, <2>3 DEF ToolPart, StateIsTrue
<1>8. StateIsTrue(s)'
  BY <1>2, <1>3, <1>5, <1>6, <1>7 DEF StateIsTrue, NoneAfter
<1>9. tool'.stage \in {"R", "a", "p"} /\ "r" \in tool'.command => "r" \in s.completed
  BY <1>1, <1>5 DEF ToolPart
<1> QED
  BY <1>1, <1>4, <1>5, <1>8, <1>9 DEF ToolPart, StateIsTrue, NoneAfter

\* A step whose receipt arrives after an availability check: the check is for
\* the machine of the recorded attestation, and the run has pre-registered it.
LEMMA CheckConfirmed ==
  ASSUME PreRegistersFirst, RegTypeOK, RegistryInv, ToolPart, [RegNext]_regVars,
         RequestFTDCAvailabilityCheck, Confirmed("a", tool.state.attest, Len(checks'))
  PROVE  ToolPart'
<1>1. /\ tool.stage = "a" /\ "a" \in tool.command /\ Loaded
      /\ tool.attest \in DOMAIN attests /\ attests[tool.attest].tee = tool.tee
  BY DEF RequestFTDCAvailabilityCheck, Due, Loaded, ChallengeValid
<1>2. tool.tee \in TeeIds /\ tool.state.attest \in Nat
  BY <1>1 DEF RegTypeOK, ToolType, StateType
<1>3. /\ Len(checks') \in Nat /\ Len(checks') \in DOMAIN checks'
      /\ checks'[Len(checks')].tee = tool.tee
      /\ DOMAIN attests' = DOMAIN attests
      /\ \A i \in DOMAIN attests : attests'[i].tee = attests[i].tee
  BY <1>1, <1>2, CheckEffect DEF RequestFTDCAvailabilityCheck
<1>4. PICK s : s = tool'.state
  OBVIOUS
<1>5. /\ tool'.stage = "p" /\ tool'.command = tool.command
      /\ tool'.attest = tool.state.attest
      /\ s.completed = tool.state.completed \cup {"a"}
      /\ s.attest = tool.state.attest /\ s.check = Len(checks')
  BY <1>2, <1>3, <1>4, ConfirmedEffect, StageTypes DEF Letters
<1>6. tool.attest = tool.state.attest /\ tool.command \cap {"r", "R"} # {}
  <2>1. tool.attest # 0
    BY <1>1, LenProperties DEF RegTypeOK
  <2> QED
    BY <2>1 DEF ToolPart
<1>7. "r" \in tool.state.completed
  <2>1. tool.command \in Commands
    BY <1>1 DEF RegTypeOK, ToolType
  <2>2. "r" \in tool.command
    BY <1>1, <1>6, <2>1 DEF PreRegistersFirst
  <2> QED
    BY <1>1, <2>2 DEF ToolPart
<1>8. NoneAfter(attests[tool.state.attest].tee) /\ UNCHANGED machine
  BY <1>7 DEF ToolPart, StateIsTrue, RequestFTDCAvailabilityCheck
<1>9. StateIsTrue(s)'
  BY <1>1, <1>3, <1>5, <1>6, <1>7, <1>8 DEF StateIsTrue, NoneAfter
<1> QED
  BY <1>4, <1>5, <1>6, <1>7, <1>9 DEF ToolPart, StateIsTrue, NoneAfter

\* What the file and the tool said before a step is true after it.
LEMMA RecordsKept ==
  ASSUME RegTypeOK, RegistryInv, ToolPart, FilePart, [RegNext]_regVars
  PROVE  /\ StateIsTrue(EmptyState)'
         /\ StateIsTrue(tool.state) /\ \A s : s = tool.state => StateIsTrue(s)'
         /\ file \notin {NoFile, Corrupt} =>
              StateIsTrue(file) /\ \A s : s = file => StateIsTrue(s)'
<1>1. StateIsTrue(EmptyState)'
  BY DEF StateIsTrue, EmptyState
<1>2. \/ NoNewMachine
      \/ /\ "r" \notin tool.state.completed
         /\ file \notin {NoFile, Corrupt} => "r" \notin file.completed
  BY OnlyPreRegisters DEF PreRegister, Due, FilePart, Loaded
<1>3. ASSUME NEW s, StateIsTrue(s), "r" \notin s.completed \/ NoNewMachine
      PROVE  StateIsTrue(s)'
  BY <1>3, StateKept
<1> QED
  BY <1>1, <1>2, <1>3 DEF ToolPart, FilePart

\* Every step keeps what the tool knows true.
LEMMA ToolPartNext ==
  ASSUME PreRegistersFirst, RegTypeOK, RegistryInv, RegistryInv', ToolPart, FilePart,
         [RegNext]_regVars
  PROVE  ToolPart'
<1>k. PICK s : s = tool'.state
  OBVIOUS
<1>q. StateIsTrue(s)' => StateIsTrue(tool.state)'
  BY <1>k DEF StateIsTrue, NoneAfter
<1>1. CASE UNCHANGED tool
  <2>1. StateIsTrue(s)'
    BY <1>1, <1>k, RecordsKept
  <2> QED
    BY <1>1, <1>q, <2>1 DEF ToolPart
<1>2. CASE ~Loaded' /\ tool'.attest = 0 /\ tool'.state \in {tool.state, EmptyState}
  <2>1. StateIsTrue(s)'
    <3>1. CASE s = EmptyState
      BY <3>1, RecordsKept
    <3> QED
      BY <1>2, <1>k, <3>1, RecordsKept
  <2> QED
    BY <1>2, <1>q, <2>1 DEF ToolPart, Loaded
<1>3. CASE Begin /\ Loaded'
  <2>1. /\ tool'.stage = "r" /\ tool'.attest = 0
        /\ \/ s = EmptyState
           \/ file \notin {NoFile, Corrupt} /\ s = file
    BY <1>3, <1>k, BeginEffect, StoppedTypes
  <2>2. StateIsTrue(s)'
    <3>1. CASE s = EmptyState
      BY <3>1, RecordsKept
    <3> QED
      BY <2>1, <3>1, RecordsKept
  <2> QED
    BY <1>q, <2>1, <2>2 DEF ToolPart
<1>4. ASSUME NEW letter \in Letters, Passes(letter)
      PROVE  ToolPart'
  <2>1. /\ tool.stage = letter /\ tool'.stage = Successor[letter]
        /\ tool'.command = tool.command /\ tool'.state = tool.state
        /\ tool'.attest = IF letter \in tool.command \ {"a"} THEN tool.state.attest
                          ELSE tool.attest
        /\ letter \in tool.command => letter \in tool.state.completed
    BY <1>4, PassesEffect
  <2>2. StateIsTrue(s)'
    BY <1>k, <2>1, RecordsKept
  <2>3. tool'.stage \in {"R", "a", "p"} /\ "r" \in tool'.command =>
          "r" \in tool'.state.completed
    BY <2>1 DEF ToolPart, Letters
  <2>4. tool'.attest # 0 => /\ tool'.attest = tool'.state.attest
                            /\ tool'.command \cap {"r", "R"} # {}
    BY <2>1 DEF ToolPart, Letters
  <2> QED
    BY <1>q, <2>2, <2>3, <2>4 DEF ToolPart
<1>5. CASE PreRegister /\ Confirmed("r", Len(attests'), tool.state.check)
  <2>1. Due("r")
    BY <1>5 DEF PreRegister
  <2> QED
    BY <1>5, <2>1, AttestConfirmed
<1>6. CASE RequestTeeAttestation /\ Confirmed("R", Len(attests'), tool.state.check)
  <2>1. Due("R")
    BY <1>6 DEF RequestTeeAttestation
  <2> QED
    BY <1>6, <2>1, AttestConfirmed
<1>7. CASE /\ RequestFTDCAvailabilityCheck
           /\ Confirmed("a", tool.state.attest, Len(checks'))
  BY <1>7, CheckConfirmed
<1> QED
  BY <1>1, <1>2, <1>3, <1>4, <1>5, <1>6, <1>7, RunMoves

\* Every step keeps what the file records true.
LEMMA FilePartNext ==
  ASSUME RegTypeOK, RegistryInv, ToolPart, ToolPart', FilePart, [RegNext]_regVars
  PROVE  FilePart'
<1>k. PICK f : f = file'
  OBVIOUS
<1>q. (f \notin {NoFile, Corrupt} => StateIsTrue(f)') =>
        (file' \notin {NoFile, Corrupt} => StateIsTrue(file)')
  BY <1>k DEF StateIsTrue, NoneAfter
<1>1. CASE file' \in {file, NoFile, Corrupt}
  <2>1. file' \notin {NoFile, Corrupt} => StateIsTrue(file)'
    BY <1>1, <1>k, <1>q, RecordsKept
  <2>2. ASSUME Loaded', file' \notin {NoFile, Corrupt}
        PROVE  file'.completed \subseteq tool'.state.completed
    <3>1. file' = file
      BY <1>1, <2>2
    <3>2. CASE Begin
      <4>1. tool'.state = file
        BY <2>2, <3>1, <3>2, BeginEffect, StoppedTypes
      <4> QED
        BY <3>1, <4>1
    <3>3. CASE ~Begin
      <4>1. Loaded /\ tool.state.completed \subseteq tool'.state.completed
        <5>1. CASE \E letter \in Letters : Passes(letter)
          BY <5>1, PassesEffect DEF Loaded, Letters
        <5>2. CASE UNCHANGED tool
          BY <2>2, <5>2 DEF Loaded
        <5>3. CASE \/ PreRegister /\ Confirmed("r", Len(attests'), tool.state.check)
                   \/ RequestTeeAttestation /\ Confirmed("R", Len(attests'), tool.state.check)
                   \/ /\ RequestFTDCAvailabilityCheck
                      /\ Confirmed("a", tool.state.attest, Len(checks'))
          <6>1. Loaded
            BY <5>3 DEF PreRegister, RequestTeeAttestation, RequestFTDCAvailabilityCheck,
               Due, Loaded
          <6>2. \E letter \in Letters :
                  tool'.state.completed = tool.state.completed \cup {letter}
            BY <5>3, MineEffect
          <6> QED
            BY <6>1, <6>2
        <5> QED
          BY <2>2, <3>3, <5>1, <5>2, <5>3, RunMoves
      <4> QED
        BY <2>2, <3>1, <4>1 DEF FilePart
    <3> QED
      BY <3>2, <3>3
  <2> QED
    BY <2>1, <2>2 DEF FilePart
<1>2. CASE file' = tool'.state
  <2>1. file' \notin {NoFile, Corrupt} => StateIsTrue(file)'
    BY <1>2 DEF ToolPart, StateIsTrue, NoneAfter
  <2> QED
    BY <1>2, <2>1 DEF FilePart
<1>3. file' \in {file, NoFile, Corrupt} \/ file' = tool'.state
  <2>1. CASE \/ PreRegister /\ Confirmed("r", Len(attests'), tool.state.check)
             \/ RequestTeeAttestation /\ Confirmed("R", Len(attests'), tool.state.check)
             \/ /\ RequestFTDCAvailabilityCheck
                /\ Confirmed("a", tool.state.attest, Len(checks'))
    BY <2>1, MineEffect
  <2>2. CASE Begin \/ \E letter \in Letters : Passes(letter)
    BY <2>2 DEF Begin, Passes
  <2> QED
    BY <2>1, <2>2, RunMoves
<1> QED
  BY <1>1, <1>2, <1>3

\* At first there is no file, no machine and no request.
LEMMA FileInvInit == RegInit => FileInv
<1> SUFFICES ASSUME RegInit
             PROVE  FileInv
  OBVIOUS
<1>1. /\ tool.stage = "off" /\ tool.attest = 0 /\ tool.state.completed = {}
      /\ ~Loaded /\ file = NoFile
  BY DEF RegInit, Off, EmptyState, Loaded
<1>2. \A t \in TeeIds : machine[t] = "absent"
  BY DEF RegInit
<1>3. DOMAIN attests = {} /\ DOMAIN checks = {}
  <2>1. attests = <<>> /\ checks = <<>>
    BY DEF RegInit
  <2> QED
    BY <2>1
<1> QED
  BY <1>1, <1>2, <1>3 DEF FileInv, RegistryInv, NoneAfter, StateIsTrue

\* The invariant of the registration tool, for the documented commands.
THEOREM RegInvariant ==
  ASSUME PreRegistersFirst
  PROVE  RegSpec => []RegInv
<1>1. RegInit => RegInv
  BY RegTypeInit, FileInvInit, ReportInit DEF RegInv
<1>2. RegInv /\ [RegNext]_regVars => RegInv'
  BY RegTypeNext, RegistryNext, ToolPartNext, FilePartNext, FileInvParts, RunInvNext
     DEF RegInv
<1> QED
  BY <1>1, <1>2, PTL DEF RegSpec

\* The state file is true after any runs, relaunches, lost receipts and failed
\* saves, if the commands are the documented ones: a run that asks for "Ra"
\* without "r", resumed as "r" on a relaunched machine, would mix two machines.
THEOREM StateFileIsTrue ==
  ASSUME PreRegistersFirst
  PROVE  RegSpec => []FileIsTrue
<1>1. RegInv => FileIsTrue
  BY DEF RegInv, FileInv, StateIsTrue, FileIsTrue
<1> QED
  BY <1>1, RegInvariant, PTL
=============================================================================
