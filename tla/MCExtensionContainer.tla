------------------------ MODULE MCExtensionContainer ------------------------
(***************************************************************************)
(* Every way a request can be routed or refused; greetings the handlers    *)
(* accept and reject; settlement messages for all splits of the basis      *)
(* points over up to three recipients, and messages the handler throws on. *)
(***************************************************************************)
EXTENDS ExtensionContainer, TLC

CONSTANTS c1, c2, c3, pol1, pol2, alice, bob, carol, MaxTotal

Request(method, path, body, opType, opCommand, payload) ==
  [method |-> method, path |-> path, body |-> body,
   opType |-> opType, opCommand |-> opCommand, payload |-> payload]

Post(body, opType, opCommand, payload) ==
  Request("POST", "/action", body, opType, opCommand, payload)

Registration(opType, opCommand, handler) ==
  [opType |-> opType, opCommand |-> opCommand, handler |-> handler]

\* What is refused, or is no action, whatever is registered.
Elsewhere(opType, opCommand, payload) ==
  {Post("valid", "NOPE", opCommand, payload),
   Post("undecodable", opType, opCommand, payload),
   Post("misshapen", opType, opCommand, payload),
   Post("mistyped", opType, opCommand, payload),
   Request("GET", "/state", "valid", "", "", payload),
   Request("GET", "/action", "valid", opType, opCommand, payload),
   Request("POST", "/state", "valid", "", "", payload),
   Request("GET", "/other", "valid", "", "", payload)}

-----------------------------------------------------------------------------

Name(decodes, name) == [decodes |-> decodes, name |-> name, reason |-> "moving"]
Alice == Name(TRUE, "Alice")
Greeting(command, payload) == Post("valid", "GREETING", command, payload)

\* What register of the Python extension wires up, after a default for GREETING.
MCGreetingHandlers ==
  <<Registration("GREETING", "", "handle_say_hello"),
    Registration("GREETING", "SAY_HELLO", "handle_say_hello"),
    Registration("GREETING", "SAY_GOODBYE", "handle_say_goodbye")>>

GreetingKinds ==
  Elsewhere("GREETING", "SAY_HELLO", Alice) \cup
  {Greeting("SAY_HELLO", Alice), Greeting("SAY_GOODBYE", Alice),
   Greeting("SAY_HELLO", Name(TRUE, "")), Greeting("SAY_GOODBYE", Name(FALSE, "Alice")),
   Greeting("WAVE", Alice), Greeting("", Alice)}

StateRead == Request("GET", "/state", "valid", "", "", Alice)

\* One client sends anything, the others what reads or changes the state.
MCGreetingRequests ==
  c1 :> GreetingKinds @@
  c2 :> {Greeting("SAY_HELLO", Name(TRUE, "Bob")), Greeting("SAY_GOODBYE", Alice), StateRead} @@
  c3 :> {Greeting("SAY_HELLO", Alice), StateRead}

-----------------------------------------------------------------------------

Message(policy, to, shares, total) ==
  [schemaVersion |-> "AURELITH_SETTLEMENT_V1", policyId |-> policy,
   externalProofDigest |-> "d", privateInputHash |-> "h", recipients |-> to,
   sharesBps |-> shares, total |-> total, nonce |-> 1, expiry |-> 1]

Payload(message, id) == [message |-> message, actionId |-> id]
Settlement(payload) == Post("valid", "AURELITH", "SETTLE", payload)
Plain(policy) == Payload(Message(policy, <<alice, bob>>, <<1, BPS_DENOMINATOR - 1>>, 3), "id")

Splits ==
  {s \in UNION {[1 .. n -> 1 .. BPS_DENOMINATOR] : n \in 1 .. 3} :
     SumFunction(s) = BPS_DENOMINATOR}

FirstOnes(n) == SubSeq(<<alice, bob, carol>>, 1, n)

\* A default for AURELITH registered before SETTLE.
MCSettlementHandlers ==
  <<Registration("AURELITH", "", "defaultHandler"),
    Registration("AURELITH", "SETTLE", "handleSettlement")>>

SettlementKinds ==
  Elsewhere("AURELITH", "SETTLE", Plain(pol1)) \cup
  {Settlement(Payload(Message(pol1, FirstOnes(Len(s)), s, total), "id")) :
     s \in Splits, total \in 1 .. MaxTotal} \cup
  {Settlement(Plain(pol2)), Post("valid", "AURELITH", "", Plain(pol2)),
   Settlement(Payload(Message(pol1, <<alice>>, <<1>>, 1), "id")),
   Settlement(Payload(Message(pol1, <<>>, <<>>, 1), "id")),
   Settlement(Payload([Plain(pol1).message EXCEPT !.schemaVersion = "V2"], "id")),
   Settlement(Payload(Plain(pol1).message, NoAction))}

MCSettlementRequests ==
  c1 :> SettlementKinds @@
  c2 :> {Settlement(Plain(pol2)), Request("GET", "/state", "valid", "", "", Plain(pol1))} @@
  c3 :> {Settlement(Plain(pol1))}
=============================================================================
