-------------------------- MODULE ExtensionContract --------------------------
(***************************************************************************)
(* What an extension container promises to the tee-node that calls it      *)
(* (docs/extension-contract.md, sections 2 and 5), whatever language it is *)
(* written in: the HTTP status of every request, the handler an action is  *)
(* routed to, and that actions and state reads take effect one at a time,  *)
(* so that no read sees half of a mutation.                                *)
(*                                                                         *)
(* A request is a record with fields method, path, body, opType, opCommand *)
(* and payload.  body says how far it decodes: "valid"; "undecodable", no  *)
(* JSON, hex or required field; "misshapen", JSON but data.message is no   *)
(* string or the DataFixed is no object; "mistyped", all of that, but an   *)
(* opType or opCommand that is not empty and no string.                    *)
(***************************************************************************)
EXTENDS Naturals

CONSTANTS
  Clients,            \* each sends one request
  Requests,           \* the requests each client may send
  Handlers,           \* the registrations: opType, opCommand and handler
  InitialState,       \* the extension's state at start-up
  Accepts(_),         \* the handler succeeds on the payload
  Applied(_, _, _),   \* the state after a handler ran on a request
  Data(_, _, _),      \* what the handler answers, given the new state
  NoRequest, NoAnswer

VARIABLES
  request,            \* what each client sent
  state,              \* the state GET /state reports
  answer              \* what each client is answered

contractVars == <<request, state, answer>>

\* Section 5: the exact pair first, then the op type's wildcard.
Registered(opType, opCommand) ==
  {r.handler : r \in {r \in Handlers : r.opType = opType /\ r.opCommand = opCommand}}

Routes(q) ==
  IF Registered(q.opType, q.opCommand) # {}
    THEN Registered(q.opType, q.opCommand) ELSE Registered(q.opType, "")

\* Section 2, the two tables.
HttpStatus(q) ==
  IF q.path = "/action" THEN IF q.method # "POST"  THEN 405
                        ELSE IF q.body # "valid"   THEN 400
                        ELSE IF Routes(q) = {}     THEN 501 ELSE 200
  ELSE IF q.path = "/state" THEN IF q.method # "GET" THEN 405 ELSE 200
  ELSE 404

Answer(c, a) ==
  /\ request[c] # NoRequest /\ answer[c] = NoAnswer
  /\ answer' = [answer EXCEPT ![c] = a]
  /\ UNCHANGED request

Send(c, q) ==
  /\ request[c] = NoRequest
  /\ request' = [request EXCEPT ![c] = q]
  /\ UNCHANGED <<state, answer>>

Refuse(c) ==
  /\ request[c] # NoRequest /\ HttpStatus(request[c]) # 200
  /\ Answer(c, [http |-> HttpStatus(request[c])])
  /\ UNCHANGED state

\* A handler that fails answers 200 with status 0 and changes nothing.
Fail(c) ==
  /\ request[c] # NoRequest /\ HttpStatus(request[c]) = 200
  /\ request[c].path = "/action" /\ ~Accepts(request[c])
  /\ \E h \in Routes(request[c]) :
       Answer(c, [http |-> 200, status |-> 0, handler |-> h])
  /\ UNCHANGED state

Act(c) ==
  /\ request[c] # NoRequest /\ HttpStatus(request[c]) = 200
  /\ request[c].path = "/action" /\ Accepts(request[c])
  /\ \E h \in Routes(request[c]) :
       /\ state' = Applied(h, request[c], state)
       /\ Answer(c, [http |-> 200, status |-> 1, handler |-> h,
                     data |-> Data(h, request[c], state')])

Read(c) ==
  /\ request[c] # NoRequest /\ HttpStatus(request[c]) = 200
  /\ request[c].path = "/state"
  /\ Answer(c, [http |-> 200, state |-> state])
  /\ UNCHANGED state

Serve(c) == Refuse(c) \/ Fail(c) \/ Act(c) \/ Read(c)

ContractInit ==
  /\ request = [c \in Clients |-> NoRequest]
  /\ state = InitialState
  /\ answer = [c \in Clients |-> NoAnswer]

ContractNext == \E c \in Clients : Serve(c) \/ \E q \in Requests[c] : Send(c, q)

ContractSafety == ContractInit /\ [][ContractNext]_contractVars

\* The request of client c is answered.
Answered(c) == WF_contractVars(Serve(c))

ContractSpec == ContractSafety /\ \A c \in Clients : Answered(c)
=============================================================================
