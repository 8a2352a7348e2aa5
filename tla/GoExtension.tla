----------------------------- MODULE GoExtension -----------------------------
(***************************************************************************)
(* The Go extension: net/http runs each request in a goroutine of its own, *)
(* decoding happens outside the lock, and the four counters of the         *)
(* greeting application are guarded by a sync.RWMutex.  Each read or write *)
(* of a guarded field is a step of its own.                                *)
(*                                                                         *)
(* Log lines and the echoed id, tag and version of the answer are left     *)
(* out; a greeting's text is the tuple of what is formatted into it.       *)
(***************************************************************************)
EXTENDS Naturals, Sequences, FiniteSets

CONSTANTS Clients, Requests, NoRequest, NoAnswer

VARIABLES
  request,   \* the request each client sent
  pc,        \* where the goroutine serving it is
  e,         \* the Extension's four fields
  mu,        \* the RWMutex: its writer and its readers
  local,     \* greetingNumber, or the fields stateHandler has copied so far
  answer

goVars == <<request, pc, e, mu, local, answer>>

\* processAction and processGreeting know these pairs.
Handlers ==
  {[opType |-> "GREETING", opCommand |-> "SAY_HELLO", handler |-> "processSayHello"],
   [opType |-> "GREETING", opCommand |-> "SAY_GOODBYE", handler |-> "processSayGoodbye"]}

CountOf == [processSayHello |-> "greetingCount", processSayGoodbye |-> "farewellCount"]
TextOf  == [processSayHello |-> "lastGreeting", processSayGoodbye |-> "lastFarewell"]

Zero == [greetingCount |-> 0, lastGreeting |-> <<>>,
         farewellCount |-> 0, lastFarewell |-> <<>>]

\* The order in which stateHandler copies the fields.
StateFields == <<"greetingCount", "lastGreeting", "farewellCount", "lastFarewell">>

\* The payload decodes (no unknown field) and names somebody.
Accepts(q) == q.payload.decodes /\ q.payload.name # ""

Text(h, q) ==
  IF h = "processSayHello" THEN <<"Hello", q.payload.name>>
  ELSE <<"Goodbye", q.payload.name, q.payload.reason>>

GoInit ==
  /\ request = [c \in Clients |-> NoRequest]
  /\ pc = [c \in Clients |-> "idle"]
  /\ e = Zero
  /\ mu = [writers |-> {}, readers |-> {}]
  /\ local = [c \in Clients |-> <<>>]
  /\ answer = [c \in Clients |-> NoAnswer]

Reply(c, a) ==
  /\ answer' = [answer EXCEPT ![c] = a]
  /\ pc' = [pc EXCEPT ![c] = "done"]

Arrive(c, q) ==
  /\ pc[c] = "idle"
  /\ request' = [request EXCEPT ![c] = q]
  /\ pc' = [pc EXCEPT ![c] = "serving"]
  /\ UNCHANGED <<e, mu, local, answer>>

\* What the mux, actionHandler and processAction refuse, and with what code.
Refusal(q) ==
  IF q.path = "/action" THEN IF q.method # "POST"                       THEN 405
                        ELSE IF q.body # "valid"                        THEN 400
                        ELSE IF \/ q.opType # "GREETING"
                                \/ q.opCommand \notin {"SAY_HELLO", "SAY_GOODBYE"}
                             THEN 501 ELSE 0
  ELSE IF q.path = "/state" THEN IF q.method # "GET" THEN 405 ELSE 0
  ELSE 404

RefuseRequest(c) ==
  /\ pc[c] = "serving" /\ Refusal(request[c]) # 0
  /\ Reply(c, [http |-> Refusal(request[c])])
  /\ UNCHANGED <<request, e, mu, local>>

Routed(c, path) ==
  pc[c] = "serving" /\ Refusal(request[c]) = 0 /\ request[c].path = path

\* processGreeting's switch.
Handler(c) ==
  IF request[c].opCommand = "SAY_HELLO" THEN "processSayHello" ELSE "processSayGoodbye"

\* A decoding error or an empty name: buildResult with status 0, no lock taken.
FailHandler(c) ==
  /\ Routed(c, "/action") /\ ~Accepts(request[c])
  /\ Reply(c, [http |-> 200, status |-> 0, handler |-> Handler(c)])
  /\ UNCHANGED <<request, e, mu, local>>

\* A bug to rule out: the handler does not take the lock.
LockNothing(c) ==
  /\ Routed(c, "/action") /\ Accepts(request[c])
  /\ pc' = [pc EXCEPT ![c] = "locked"]
  /\ UNCHANGED <<request, e, mu, local, answer>>

Lock(c) ==
  /\ Routed(c, "/action") /\ Accepts(request[c])
  /\ mu.writers = {} /\ mu.readers = {}
  /\ mu' = [mu EXCEPT !.writers = {c}]
  /\ pc' = [pc EXCEPT ![c] = "locked"]
  /\ UNCHANGED <<request, e, local, answer>>

\* e.greetingCount++; greetingNumber := e.greetingCount
Count(c) ==
  LET f == CountOf[Handler(c)] IN
  /\ pc[c] = "locked"
  /\ e' = [e EXCEPT ![f] = @ + 1]
  /\ local' = [local EXCEPT ![c] = <<e[f] + 1>>]
  /\ pc' = [pc EXCEPT ![c] = "counted"]
  /\ UNCHANGED <<request, mu, answer>>

\* e.lastGreeting = greeting, unlock, answer with the number taken before.
StoreAndUnlock(c) ==
  /\ pc[c] = "counted"
  /\ e' = [e EXCEPT ![TextOf[Handler(c)]] = Text(Handler(c), request[c])]
  /\ mu' = [mu EXCEPT !.writers = @ \ {c}]
  /\ Reply(c, [http |-> 200, status |-> 1, handler |-> Handler(c),
               data |-> <<Text(Handler(c), request[c]), local[c][1]>>])
  /\ UNCHANGED <<request, local>>

\* stateHandler: readers share the lock.
RLock(c) ==
  /\ Routed(c, "/state")
  /\ mu.writers = {}
  /\ mu' = [mu EXCEPT !.readers = @ \cup {c}]
  /\ pc' = [pc EXCEPT ![c] = "reading"]
  /\ UNCHANGED <<request, e, local, answer>>

CopyField(c) ==
  /\ pc[c] = "reading" /\ Len(local[c]) < Len(StateFields)
  /\ local' = [local EXCEPT ![c] = Append(@, e[StateFields[Len(@) + 1]])]
  /\ UNCHANGED <<request, pc, e, mu, answer>>

RUnlock(c) ==
  /\ pc[c] = "reading" /\ Len(local[c]) = Len(StateFields)
  /\ mu' = [mu EXCEPT !.readers = @ \ {c}]
  /\ Reply(c, [http |-> 200,
               state |-> [f \in DOMAIN Zero |->
                 local[c][CHOOSE i \in 1 .. Len(StateFields) : StateFields[i] = f]]])
  /\ UNCHANGED <<request, e, local>>

Serve(c) ==
  \/ RefuseRequest(c) \/ FailHandler(c)
  \/ Lock(c) \/ Count(c) \/ StoreAndUnlock(c)
  \/ RLock(c) \/ CopyField(c) \/ RUnlock(c)

GoNext == \E c \in Clients : Serve(c) \/ \E q \in Requests[c] : Arrive(c, q)

\* Goroutines are scheduled and RWMutex starves nobody.
GoSpec ==
  GoInit /\ [][GoNext]_goVars /\ \A c \in Clients : WF_goVars(Serve(c))

-----------------------------------------------------------------------------

\* A count that is already raised while its text is not yet stored.
Raised(f) ==
  {c \in Clients : pc[c] = "counted" /\ CountOf[Handler(c)] = f}

CommittedState ==
  [f \in DOMAIN Zero |->
     IF f \in {"greetingCount", "farewellCount"} THEN e[f] - Cardinality(Raised(f))
     ELSE e[f]]

AppliedTo(h, q, s) ==
  [s EXCEPT ![CountOf[h]] = @ + 1, ![TextOf[h]] = Text(h, q)]

DataOf(h, q, s) == <<Text(h, q), s[CountOf[h]]>>

Contract == INSTANCE ExtensionContract WITH
  InitialState <- Zero, Applied <- AppliedTo, Data <- DataOf,
  state <- CommittedState

KeepsContract == Contract!ContractSpec

GoTypeOK ==
  /\ pc \in [Clients -> {"idle", "serving", "locked", "counted", "reading", "done"}]
  /\ request = [c \in Clients |-> request[c]]
  /\ answer = [c \in Clients |-> answer[c]]
  /\ local = [c \in Clients |-> local[c]]
  /\ e = [f \in DOMAIN Zero |-> e[f]] /\ e.greetingCount \in Nat /\ e.farewellCount \in Nat
  /\ mu \in [writers : SUBSET Clients, readers : SUBSET Clients]
  /\ \A c \in Clients : IF pc[c] = "idle" THEN request[c] = NoRequest
                                        ELSE request[c] \in Requests[c]

\* A goroutine that writes is alone with the fields, and has taken the number it
\* answers with from a count nobody has changed since.
WriterIsAlone ==
  \A c \in Clients : pc[c] \in {"locked", "counted"} =>
    /\ mu = [writers |-> {c}, readers |-> {}]
    /\ Refusal(request[c]) = 0 /\ request[c].path = "/action" /\ Accepts(request[c])
    /\ pc[c] = "counted" => local[c] = <<e[CountOf[Handler(c)]]>>

\* A goroutine that reads has copied fields that still have these values.
ReadersAreCurrent ==
  \A c \in Clients : pc[c] = "reading" =>
    /\ mu.writers = {} /\ c \in mu.readers
    /\ Refusal(request[c]) = 0 /\ request[c].path = "/state"
    /\ \E n \in 0 .. Len(StateFields) : local[c] = [i \in 1 .. n |-> e[StateFields[i]]]

Unserved ==
  \A c \in Clients : /\ pc[c] # "done" => answer[c] = NoAnswer
                     /\ pc[c] \in {"idle", "serving"} => local[c] = <<>>

GoInv == GoTypeOK /\ WriterIsAlone /\ ReadersAreCurrent /\ Unserved
=============================================================================
