------------------------- MODULE TypeScriptExtension -------------------------
(***************************************************************************)
(* The TypeScript extension, which runs Aurelith's settlement handler:     *)
(* base/server.ts routes and decodes a request in one turn of the event    *)
(* loop and puts the handler call, or the state read, on a promise chain.  *)
(*                                                                         *)
(* A HandlerFunc may be async, so the handler is let suspend between its   *)
(* two assignments; handleSettlement as shipped does not, which is one of  *)
(* the behaviours.  The answer's log, id, tag and version are left out.    *)
(* main.ts closes the server on a signal and exits once it is closed.      *)
(* serve is awaited by nobody, so a promise that rejects there ends the    *)
(* process.  handleSettlement, which catches everything, never rejects,    *)
(* but Framework.lookup throws on an opType or opCommand that is no string.*)
(***************************************************************************)
EXTENDS SettlementCompute, FiniteSets

CONSTANTS
  Clients, Requests, NoRequest, NoAnswer,
  NoAction,        \* a missing instruction id, or no policy yet
  Registrations    \* the sequence of registrations passed to Framework.handle

VARIABLES
  request,   \* the request each client sent
  pc,        \* how far it has been served
  app,       \* processed and lastPolicyId of app/handlers.ts
  queue,     \* the chain: calls that have not settled, oldest first
  answer,
  server     \* "listening", "closed" to new requests, or "exited"

tsVars == <<request, pc, app, queue, answer, server>>

Fresh == [processed |-> 0, lastPolicyId |-> NoAction]

\* handleSettlement computes: an action id is given and the message decodes.
Accepts(q) == q.payload.actionId # NoAction /\ ValidRequest(q.payload.message)

FirstOf(S) == {Registrations[i].handler : i \in {i \in S : \A j \in S : i <= j}}

Registered(opType, opCommand) ==
  {i \in DOMAIN Registrations : /\ Registrations[i].opType = opType
                                /\ Registrations[i].opCommand = opCommand}

\* Framework.lookup: the exact pair first, then the op type's wildcard; the
\* handler found, as a set, empty if there is none.
lookup(opType, opCommand) ==
  IF Registered(opType, opCommand) # {} THEN FirstOf(Registered(opType, opCommand))
  ELSE FirstOf(Registered(opType, ""))

TsInit ==
  /\ request = [c \in Clients |-> NoRequest]
  /\ pc = [c \in Clients |-> "idle"]
  /\ app = Fresh
  /\ queue = <<>>
  /\ answer = [c \in Clients |-> NoAnswer]
  /\ server = "listening"

Reply(c, a) ==
  /\ answer' = [answer EXCEPT ![c] = a]
  /\ pc' = [pc EXCEPT ![c] = "done"]

\* The body is read before anything is looked at.
readBody(c, q) ==
  /\ server = "listening" /\ pc[c] = "idle"
  /\ request' = [request EXCEPT ![c] = q]
  /\ pc' = [pc EXCEPT ![c] = "serving"]
  /\ UNCHANGED <<app, queue, answer, server>>

\* No status: normalize calls toLowerCase on what is no string.
Rejects == 1

\* handleRequest's routing and processAction's decoding: 0 if it goes on.
handleRequest(q) ==
  IF q.path = "/action" THEN IF q.method # "POST"                        THEN 405
                        ELSE IF q.body = "mistyped"                      THEN Rejects
                        ELSE IF q.body # "valid"                         THEN 400
                        ELSE IF lookup(q.opType, q.opCommand) = {} THEN 501 ELSE 0
  ELSE IF q.path = "/state" THEN IF q.method # "GET" THEN 405 ELSE 0
  ELSE 404

RefuseRequest(c) ==
  /\ pc[c] = "serving" /\ handleRequest(request[c]) \notin {0, Rejects}
  /\ Reply(c, [http |-> handleRequest(request[c])])
  /\ UNCHANGED <<request, app, queue, server>>

\* processAction and serve reject, and nobody handles it: the process ends.
LookupThrows(c) ==
  /\ pc[c] = "serving" /\ handleRequest(request[c]) = Rejects
  /\ server' = "exited"
  /\ UNCHANGED <<request, pc, app, queue, answer>>

serialize(c) ==
  /\ pc[c] = "serving" /\ handleRequest(request[c]) = 0
  /\ queue' = Append(queue, c)
  /\ pc' = [pc EXCEPT ![c] = "queued"]
  /\ UNCHANGED <<request, app, answer, server>>

\* A bug to rule out: a call starts without waiting for the one before it.
TurnOfAnyone(c) == pc[c] = "queued"

\* Everything queued before has settled.
Turn(c) == pc[c] = "queued" /\ Head(queue) = c

\* The call whose turn it was has settled: the next one's turn comes.
Settled == queue' = Tail(queue)

processState(c) ==
  /\ Turn(c) /\ request[c].path = "/state"
  /\ Reply(c, [http |-> 200, state |-> app])
  /\ Settled
  /\ UNCHANGED <<request, app, server>>

Handler(c) == CHOOSE h \in lookup(request[c].opType, request[c].opCommand) : TRUE

\* A bug to rule out: a handler that lets its error escape ends the process.
HandlerRejects(c) ==
  /\ Turn(c) /\ request[c].path = "/action" /\ ~Accepts(request[c])
  /\ server' = "exited"
  /\ UNCHANGED <<request, app, queue, pc, answer>>

\* handleSettlement catches what it throws and answers with status 0.
HandlerFails(c) ==
  /\ Turn(c) /\ request[c].path = "/action" /\ ~Accepts(request[c])
  /\ Reply(c, [http |-> 200, status |-> 0, handler |-> Handler(c)])
  /\ Settled
  /\ UNCHANGED <<request, app, server>>

\* processed++
Count(c) ==
  /\ Turn(c) /\ request[c].path = "/action" /\ Accepts(request[c])
  /\ app' = [app EXCEPT !.processed = @ + 1]
  /\ pc' = [pc EXCEPT ![c] = "suspended"]
  /\ UNCHANGED <<request, queue, answer, server>>

\* lastPolicyId = ..., the handler's promise resolves, the answer is sent.
Resolve(c) ==
  LET p == request[c].payload IN
  /\ pc[c] = "suspended"
  /\ app' = [app EXCEPT !.lastPolicyId = p.message.policyId]
  /\ Reply(c, [http |-> 200, status |-> 1, handler |-> Handler(c),
               data |-> decodeAndComputeSettlement(p.message, p.actionId)])
  /\ Settled
  /\ UNCHANGED <<request, server>>

Serve(c) ==
  /\ server # "exited"
  /\ \/ RefuseRequest(c) \/ LookupThrows(c) \/ serialize(c)
     \/ processState(c) \/ HandlerFails(c) \/ Count(c) \/ Resolve(c)

\* SIGTERM or SIGINT: no new request is taken, those under way go on.
shutdown ==
  /\ server = "listening"
  /\ server' = "closed"
  /\ UNCHANGED <<request, pc, app, queue, answer>>

\* close has called back, after the last answer was sent.
Exit ==
  /\ server = "closed" /\ \A c \in Clients : pc[c] \in {"idle", "done"}
  /\ server' = "exited"
  /\ UNCHANGED <<request, pc, app, queue, answer>>

TsNext ==
  \/ \E c \in Clients : Serve(c) \/ \E q \in Requests[c] : readBody(c, q)
  \/ shutdown \/ Exit

\* The event loop runs every callback that is ready; handlers finish.
TsSpec ==
  TsInit /\ [][TsNext]_tsVars /\ \A c \in Clients : WF_tsVars(Serve(c))

-----------------------------------------------------------------------------

\* A handler between its two assignments has not taken effect yet.
CommittedState ==
  [app EXCEPT !.processed = @ - Cardinality({c \in Clients : pc[c] = "suspended"})]

AppliedTo(h, q, s) ==
  [processed |-> s.processed + 1, lastPolicyId |-> q.payload.message.policyId]

DataOf(h, q, s) == decodeAndComputeSettlement(q.payload.message, q.payload.actionId)

Contract == INSTANCE ExtensionContract WITH
  Handlers <- {Registrations[i] : i \in DOMAIN Registrations},
  InitialState <- Fresh, Applied <- AppliedTo, Data <- DataOf,
  state <- CommittedState

\* Nobody has sent an opType or opCommand that is no string.
Typed ==
  \A c \in Clients : pc[c] # "idle" => handleRequest(request[c]) # Rejects

KeepsContract ==
  Contract!ContractSafety /\ ([]Typed => \A c \in Clients : Contract!Answered(c))

\* Types; what a client has sent and how far it has been served go together.
TsTypeOK ==
  /\ pc \in [Clients -> {"idle", "serving", "queued", "suspended", "done"}]
  /\ request = [c \in Clients |-> request[c]]
  /\ answer = [c \in Clients |-> answer[c]]
  /\ queue \in Seq(Clients)
  /\ app = [processed |-> app.processed, lastPolicyId |-> app.lastPolicyId]
  /\ app.processed \in Nat
  /\ \A c \in Clients : IF pc[c] = "idle" THEN request[c] = NoRequest
                                        ELSE request[c] \in Requests[c]

\* A call that has not settled is on the chain, and one that has started is the
\* oldest: at most one handler is between its two assignments.
ChainOrder ==
  \A c \in Clients :
    /\ pc[c] \in {"queued", "suspended"} =>
         /\ \E i \in DOMAIN queue : queue[i] = c
         /\ handleRequest(request[c]) = 0
    /\ pc[c] = "suspended" => /\ Head(queue) = c
                              /\ request[c].path = "/action" /\ Accepts(request[c])

\* What client c has been answered, if it was answered as computed, is the
\* computation's result for the request it sent.
AnswerIsComputed(c) ==
  \/ answer[c].http # 200 \/ request[c].path # "/action" \/ answer[c].status = 0
  \/ /\ Accepts(request[c])
     /\ answer[c].data = decodeAndComputeSettlement(request[c].payload.message,
                                                    request[c].payload.actionId)

AnswersAreComputed ==
  \A c \in Clients : IF pc[c] = "done" THEN AnswerIsComputed(c)
                                      ELSE answer[c] = NoAnswer

TsInv == TsTypeOK /\ ChainOrder /\ AnswersAreComputed

-----------------------------------------------------------------------------

Computed == {c \in Clients : answer[c] # NoAnswer /\ request[c].path = "/action"
                               /\ answer[c].http = 200 /\ answer[c].status = 1}
Asked(c) == request[c].payload.message
Paid(c) == answer[c].data.amounts

ExactFor(c) ==
  LET last == Len(Paid(c)) IN
  /\ SumFunction(Paid(c)) = Asked(c).total
  /\ answer[c].data.recipients = Asked(c).recipients
  /\ last = Len(Asked(c).recipients)
  /\ \A i \in 1 .. last :
       LET over == Paid(c)[i] * BPS_DENOMINATOR - Asked(c).total * Asked(c).sharesBps[i]
       IN  /\ -BPS_DENOMINATOR < over
           /\ over <= IF i = last THEN (last - 1) * BPS_DENOMINATOR ELSE 0
=============================================================================
