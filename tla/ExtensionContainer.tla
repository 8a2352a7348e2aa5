-------------------------- MODULE ExtensionContainer --------------------------
(***************************************************************************)
(* The extension container: start-services.sh builds it in the language    *)
(* that .env selects, and the tee-node calls it without knowing which.     *)
(* The greeting clients call a Go or Python container, the settlement      *)
(* clients a TypeScript one.                                               *)
(***************************************************************************)
EXTENDS SettlementCompute, FiniteSets

CONSTANTS
  GreetingClients, GreetingRequests, GreetingHandlers,
  SettlementClients, SettlementRequests, SettlementHandlers,
  NoRequest, NoAnswer, NoAction

VARIABLES
  language,
  goRequest, goPc, e, mu, goLocal, goAnswer,
  pyRequest, pyPc, globals, lock, pyLocal, pyAnswer,
  tsRequest, tsPc, app, queue, tsAnswer, tsServer

Go == INSTANCE GoExtension WITH
  Clients <- GreetingClients, Requests <- GreetingRequests,
  request <- goRequest, pc <- goPc, local <- goLocal, answer <- goAnswer

Python == INSTANCE PythonExtension WITH
  Clients <- GreetingClients, Requests <- GreetingRequests,
  Registrations <- GreetingHandlers,
  request <- pyRequest, pc <- pyPc, local <- pyLocal, answer <- pyAnswer

TypeScript == INSTANCE TypeScriptExtension WITH
  Clients <- SettlementClients, Requests <- SettlementRequests,
  Registrations <- SettlementHandlers,
  request <- tsRequest, pc <- tsPc, answer <- tsAnswer, server <- tsServer

goVars == <<goRequest, goPc, e, mu, goLocal, goAnswer>>
pyVars == <<pyRequest, pyPc, globals, lock, pyLocal, pyAnswer>>
tsVars == <<tsRequest, tsPc, app, queue, tsAnswer, tsServer>>
containerVars == <<language, goVars, pyVars, tsVars>>

ContainerInit ==
  /\ language \in {"go", "python", "typescript"}
  /\ Go!GoInit /\ Python!PyInit /\ TypeScript!TsInit

InGo(A)         == language = "go" /\ A /\ UNCHANGED <<language, pyVars, tsVars>>
InPython(A)     == language = "python" /\ A /\ UNCHANGED <<language, goVars, tsVars>>
InTypeScript(A) == language = "typescript" /\ A /\ UNCHANGED <<language, goVars, pyVars>>

ContainerNext ==
  InGo(Go!GoNext) \/ InPython(Python!PyNext) \/ InTypeScript(TypeScript!TsNext)

\* Goroutines and threads are scheduled, and no lock starves anybody: with one
\* request per client it is free again and again.  The event loop runs every
\* callback that is ready, and handlers finish.
ContainerSpec ==
  /\ ContainerInit /\ [][ContainerNext]_containerVars
  /\ \A c \in GreetingClients :
       /\ WF_containerVars(InGo(Go!Serve(c)))
       /\ WF_containerVars(InPython(Python!Serve(c)))
  /\ \A c \in SettlementClients : WF_containerVars(InTypeScript(TypeScript!Serve(c)))

-----------------------------------------------------------------------------

\* A client sends a request or none.  A settlement message that decodes has the
\* ABI's types (abi.ts, requestParams).  The registered handlers are the modelled
\* ones.
ASSUME ContainerAssumption ==
  /\ \A c \in GreetingClients : NoRequest \notin GreetingRequests[c]
  /\ \A c \in SettlementClients : NoRequest \notin SettlementRequests[c]
  /\ \A c \in SettlementClients : \A q \in SettlementRequests[c] :
       q.path = "/action" /\ TypeScript!Accepts(q) =>
         /\ q.payload.message.total \in Nat
         /\ q.payload.message.sharesBps \in Seq(Nat)
  /\ GreetingHandlers \in Seq([opType : STRING, opCommand : STRING,
                               handler : DOMAIN Python!CountOf])
  /\ SettlementHandlers \in Seq([opType : STRING, opCommand : STRING,
                                 handler : STRING])

\* Whatever the language, only one handler is ever between its two assignments
\* to the application's state, nobody reads in between, what has been read for an
\* answer is current when it is sent, and nobody is answered twice.
ContainerInv == Go!GoInv /\ Python!PyInv /\ TypeScript!TsInv

\* The Go server keeps the extension contract: its status codes, its dispatch,
\* and, with several goroutines inside the handlers at once, actions and state
\* reads that take effect one at a time and are all answered
\* (actionHandler, processAction, stateHandler).
GoKeepsContract == Go!KeepsContract

\* The Python server keeps the extension contract: its status codes, its
\* dispatch, and, with a thread per request, actions and state reads that take
\* effect one at a time; and whatever others send it, a client is answered, but
\* for one whose data.message, DataFixed, opType or opCommand is JSON of another
\* type than it should be (_process_action, _process_state, Framework.lookup).
PythonKeepsContract == Python!KeepsContract

\* The TypeScript server keeps the extension contract: its status codes, its
\* dispatch, and, for handlers that may suspend, actions and state reads that
\* take effect one at a time; and as long as nobody sends an opType or opCommand
\* that is no string all are answered, through a shutdown too: no other request
\* makes the process exit, and a signal only after the answers are sent
\* (serialize, processAction, processState, handleSettlement, close).
TypeScriptKeepsContract == TypeScript!KeepsContract

\* A settlement that is answered as computed pays out exactly the total, to
\* exactly the message's recipients; no recipient is a whole unit below its
\* exact share, only the last is above it, and by at most one unit per other
\* recipient (decodeAndComputeSettlement).
AllocationIsExact == \A c \in TypeScript!Computed : TypeScript!ExactFor(c)
=============================================================================
