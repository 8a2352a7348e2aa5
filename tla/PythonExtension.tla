--------------------------- MODULE PythonExtension ---------------------------
(***************************************************************************)
(* The Python extension: ThreadingHTTPServer runs each request in a thread *)
(* of its own; base/server.py routes and decodes outside the lock and      *)
(* calls the registered handler, or report_state, with the lock held.  The *)
(* handlers of app/handlers.py keep plain module-level state.              *)
(*                                                                         *)
(* Log lines and the echoed id, tag and version of the answer are left     *)
(* out; a greeting's text is the tuple of what is formatted into it.       *)
(***************************************************************************)
EXTENDS Naturals, Sequences, FiniteSets

CONSTANTS
  Clients, Requests, NoRequest, NoAnswer,
  Registrations   \* the sequence of registrations passed to Framework.handle

VARIABLES
  request,   \* the request each client sent
  pc,        \* where the thread serving it is
  globals,   \* the module-level state of app/handlers.py
  lock,      \* the thread holding Server._lock, as a set
  local,     \* the part of the state report_state has read so far
  answer

pyVars == <<request, pc, globals, lock, local, answer>>

CountOf == [handle_say_hello |-> "_greeting_count",
            handle_say_goodbye |-> "_farewell_count"]
TextOf  == [handle_say_hello |-> "_last_greeting",
            handle_say_goodbye |-> "_last_farewell"]

Reset == [_greeting_count |-> 0, _last_greeting |-> <<>>,
          _farewell_count |-> 0, _last_farewell |-> <<>>]

\* The order in which report_state reads them.
Reported ==
  <<"_greeting_count", "_last_greeting", "_farewell_count", "_last_farewell">>

\* handle_say_hello and handle_say_goodbye: decode, then validate.
Accepts(q) == q.payload.decodes /\ q.payload.name # ""

Text(h, q) ==
  IF h = "handle_say_hello" THEN <<"Hello", q.payload.name>>
  ELSE <<"Goodbye", q.payload.name, q.payload.reason>>

\* The first registration of a list that satisfies a test, as a set.
FirstOf(S) == {Registrations[i].handler : i \in {i \in S : \A j \in S : i <= j}}

Registered(opType, opCommand) ==
  {i \in DOMAIN Registrations : /\ Registrations[i].opType = opType
                                /\ Registrations[i].opCommand = opCommand}

\* Framework.lookup: the exact pair first, then the op type's wildcard; the
\* handler found, as a set, empty if there is none.
lookup(opType, opCommand) ==
  IF Registered(opType, opCommand) # {} THEN FirstOf(Registered(opType, opCommand))
  ELSE FirstOf(Registered(opType, ""))

PyInit ==
  /\ request = [c \in Clients |-> NoRequest]
  /\ pc = [c \in Clients |-> "idle"]
  /\ globals = Reset
  /\ lock = {}
  /\ local = [c \in Clients |-> <<>>]
  /\ answer = [c \in Clients |-> NoAnswer]

Reply(c, a) ==
  /\ answer' = [answer EXCEPT ![c] = a]
  /\ pc' = [pc EXCEPT ![c] = "done"]

Release(c) == lock' = lock \ {c}

Arrive(c, q) ==
  /\ pc[c] = "idle"
  /\ request' = [request EXCEPT ![c] = q]
  /\ pc' = [pc EXCEPT ![c] = "serving"]
  /\ UNCHANGED <<globals, lock, local, answer>>

\* No status: an AttributeError, which _process_action does not catch.
Raises == 1

\* handle_request's routing and _process_action's decoding: 0 if it goes on.
handle_request(q) ==
  IF q.path = "/action" THEN IF q.method # "POST"                        THEN 405
                        ELSE IF q.body \in {"misshapen", "mistyped"}     THEN Raises
                        ELSE IF q.body # "valid"                         THEN 400
                        ELSE IF lookup(q.opType, q.opCommand) = {} THEN 501 ELSE 0
  ELSE IF q.path = "/state" THEN IF q.method # "GET" THEN 405 ELSE 0
  ELSE 404

RefuseRequest(c) ==
  /\ pc[c] = "serving" /\ handle_request(request[c]) \notin {0, Raises}
  /\ Reply(c, [http |-> handle_request(request[c])])
  /\ UNCHANGED <<request, globals, lock, local>>

\* The thread ends and its connection closes without an answer.
Drop(c) ==
  /\ pc[c] = "serving" /\ handle_request(request[c]) = Raises
  /\ pc' = [pc EXCEPT ![c] = "dropped"]
  /\ UNCHANGED <<request, globals, lock, local, answer>>

\* A bug to rule out: _process_state reads without the lock.
AcquireToActOnly(c) ==
  /\ pc[c] = "serving" /\ handle_request(request[c]) = 0
  /\ request[c].path = "/state" \/ lock = {}
  /\ lock' = IF request[c].path = "/state" THEN lock ELSE {c}
  /\ pc' = [pc EXCEPT ![c] = "locked"]
  /\ UNCHANGED <<request, globals, local, answer>>

Acquire(c) ==
  /\ pc[c] = "serving" /\ handle_request(request[c]) = 0
  /\ lock = {}
  /\ lock' = {c}
  /\ pc' = [pc EXCEPT ![c] = "locked"]
  /\ UNCHANGED <<request, globals, local, answer>>

Handling(c) == pc[c] = "locked" /\ request[c].path = "/action"

Handler(c) == CHOOSE h \in lookup(request[c].opType, request[c].opCommand) : TRUE

\* A decoding error or an empty name.
HandlerFails(c) ==
  /\ Handling(c) /\ ~Accepts(request[c])
  /\ Reply(c, [http |-> 200, status |-> 0, handler |-> Handler(c)])
  /\ Release(c)
  /\ UNCHANGED <<request, globals, local>>

\* _greeting_count += 1
Count(c) ==
  /\ Handling(c) /\ Accepts(request[c])
  /\ globals' = [globals EXCEPT ![CountOf[Handler(c)]] = @ + 1]
  /\ pc' = [pc EXCEPT ![c] = "counted"]
  /\ UNCHANGED <<request, lock, local, answer>>

\* _last_greeting = greeting, then the answer with the count as it is now.
StoreAndRelease(c) ==
  LET h == Handler(c) IN
  /\ pc[c] = "counted"
  /\ globals' = [globals EXCEPT ![TextOf[h]] = Text(h, request[c])]
  /\ Reply(c, [http |-> 200, status |-> 1, handler |-> h,
               data |-> <<Text(h, request[c]), globals[CountOf[h]]>>])
  /\ Release(c)
  /\ UNCHANGED <<request, local>>

\* report_state reads one variable after the other.
ReportNext(c) ==
  /\ pc[c] = "locked" /\ request[c].path = "/state"
  /\ Len(local[c]) < Len(Reported)
  /\ local' = [local EXCEPT ![c] = Append(@, globals[Reported[Len(@) + 1]])]
  /\ UNCHANGED <<request, pc, globals, lock, answer>>

ReportAndRelease(c) ==
  /\ pc[c] = "locked" /\ Len(local[c]) = Len(Reported)
  /\ Reply(c, [http |-> 200,
               state |-> [f \in DOMAIN Reset |->
                 local[c][CHOOSE i \in 1 .. Len(Reported) : Reported[i] = f]]])
  /\ Release(c)
  /\ UNCHANGED <<request, globals, local>>

Serve(c) ==
  \/ RefuseRequest(c) \/ Drop(c) \/ Acquire(c) \/ HandlerFails(c) \/ Count(c)
  \/ StoreAndRelease(c) \/ ReportNext(c) \/ ReportAndRelease(c)

PyNext == \E c \in Clients : Serve(c) \/ \E q \in Requests[c] : Arrive(c, q)

\* Threads are scheduled; with one request per client the lock is free again
\* and again, so a thread waiting for it gets it.
PySpec ==
  PyInit /\ [][PyNext]_pyVars /\ \A c \in Clients : WF_pyVars(Serve(c))

-----------------------------------------------------------------------------

\* A count that is already raised while its text is not yet stored.
Raised(f) ==
  {c \in Clients : pc[c] = "counted" /\ CountOf[Handler(c)] = f}

CommittedState ==
  [f \in DOMAIN Reset |->
     IF f \in {"_greeting_count", "_farewell_count"}
       THEN globals[f] - Cardinality(Raised(f)) ELSE globals[f]]

AppliedTo(h, q, s) ==
  [s EXCEPT ![CountOf[h]] = @ + 1, ![TextOf[h]] = Text(h, q)]

DataOf(h, q, s) == <<Text(h, q), s[CountOf[h]]>>

Contract == INSTANCE ExtensionContract WITH
  Handlers <- {Registrations[i] : i \in DOMAIN Registrations},
  InitialState <- Reset, Applied <- AppliedTo, Data <- DataOf,
  state <- CommittedState

\* What client c has sent is not dropped.
Parsed(c) == pc[c] # "idle" => handle_request(request[c]) # Raises

KeepsContract ==
  Contract!ContractSafety /\ \A c \in Clients : []Parsed(c) => Contract!Answered(c)

PyTypeOK ==
  /\ pc \in [Clients -> {"idle", "serving", "dropped", "locked", "counted", "done"}]
  /\ request = [c \in Clients |-> request[c]]
  /\ answer = [c \in Clients |-> answer[c]]
  /\ local = [c \in Clients |-> local[c]]
  /\ globals = [f \in DOMAIN Reset |-> globals[f]]
  /\ globals._greeting_count \in Nat /\ globals._farewell_count \in Nat
  /\ lock \in SUBSET Clients
  /\ \A c \in Clients : IF pc[c] = "idle" THEN request[c] = NoRequest
                                        ELSE request[c] \in Requests[c]

\* A thread inside a handler or report_state is alone with the globals, and has
\* read variables that still have these values.
HolderIsAlone ==
  \A c \in Clients : pc[c] \in {"locked", "counted"} =>
    /\ lock = {c} /\ handle_request(request[c]) = 0
    /\ pc[c] = "counted" => request[c].path = "/action" /\ Accepts(request[c])
    /\ IF request[c].path = "/action" THEN local[c] = <<>>
       ELSE \E n \in 0 .. Len(Reported) :
              local[c] = [i \in 1 .. n |-> globals[Reported[i]]]

Unserved ==
  \A c \in Clients : /\ pc[c] # "done" => answer[c] = NoAnswer
                     /\ pc[c] \in {"idle", "serving"} => local[c] = <<>>

PyInv == PyTypeOK /\ HolderIsAlone /\ Unserved
=============================================================================
