----------------------- MODULE ExtensionContainerProofs -----------------------
(***************************************************************************)
(* Proofs about the extension container, for any number of clients and any *)
(* requests: in each of the three languages the handlers and state reads   *)
(* take effect one at a time, as the extension contract asks, and a        *)
(* settlement that is answered as computed is exact.                       *)
(***************************************************************************)
EXTENDS ExtensionContainer, SumProofs, SequenceTheorems

-----------------------------------------------------------------------------
(***************************************************************************)
(* The operators of an instance's own copy of the libraries.               *)
(***************************************************************************)

LEMMA TsCardinality ==
  ASSUME NEW S PROVE TypeScript!Cardinality(S) = Cardinality(S)
  BY DEF TypeScript!Cardinality, Cardinality

LEMMA GoCardinality ==
  ASSUME NEW S PROVE Go!Cardinality(S) = Cardinality(S)
  BY DEF Go!Cardinality, Cardinality

LEMMA PyCardinality ==
  ASSUME NEW S PROVE Python!Cardinality(S) = Cardinality(S)
  BY DEF Python!Cardinality, Cardinality

LEMMA TsSum ==
  ASSUME NEW f PROVE TypeScript!SumFunction(f) = SumFunction(f)
  BY DEF TypeScript!SumFunction, SumFunction,
         TypeScript!SumFunctionOnSet, SumFunctionOnSet,
         TypeScript!FoldFunctionOnSet, FoldFunctionOnSet,
         TypeScript!MapThenFoldSet, MapThenFoldSet

LEMMA TsCompute ==
  ASSUME NEW m, NEW id
  PROVE  TypeScript!decodeAndComputeSettlement(m, id) = decodeAndComputeSettlement(m, id)
  BY TsSum DEF TypeScript!decodeAndComputeSettlement, decodeAndComputeSettlement,
               TypeScript!Allocation, Allocation, TypeScript!Portion, Portion

LEMMA SingletonCount ==
  ASSUME NEW x PROVE Cardinality({}) = 0 /\ Cardinality({x}) = 1
  BY FS_EmptySet, FS_Singleton

-----------------------------------------------------------------------------
(***************************************************************************)
(* TypeScript: what a step of the server does.                             *)
(***************************************************************************)

\* Framework.lookup finds a handler that the contract routes to, if there is one.
LEMMA TsRoutes ==
  ASSUME NEW q
  PROVE  LET found == TypeScript!lookup(q.opType, q.opCommand)
         IN  /\ found \subseteq TypeScript!Contract!Routes(q)
             /\ found = {} <=> TypeScript!Contract!Routes(q) = {}
<1> DEFINE R(a, b) == TypeScript!Registered(a, b)
           H(S) == {SettlementHandlers[i].handler : i \in S}
<1>1. ASSUME NEW a, NEW b
      PROVE  /\ R(a, b) \subseteq Nat
             /\ TypeScript!Contract!Registered(a, b) = H(R(a, b))
  <2>1. DOMAIN SettlementHandlers \subseteq Nat
    BY ContainerAssumption
  <2> QED
    BY <2>1 DEF TypeScript!Registered, TypeScript!Contract!Registered
<1>2. ASSUME NEW S, S \subseteq Nat
      PROVE  /\ TypeScript!FirstOf(S) \subseteq H(S)
             /\ TypeScript!FirstOf(S) = {} <=> H(S) = {}
  <2>1. CASE S = {}
    BY <2>1 DEF TypeScript!FirstOf
  <2>2. CASE S # {}
    <3>1. PICK i \in S : \A j \in S : i <= j
      BY <1>2, <2>2, LeastNatural
    <3> QED
      BY <3>1 DEF TypeScript!FirstOf
  <2> QED
    BY <2>1, <2>2
<1>3. \A S : H(S) = {} <=> S = {}
  OBVIOUS
<1> HIDE DEF R, H
<1>4. \A a, b : LET S == R(a, b)
                IN  /\ TypeScript!FirstOf(S) \subseteq TypeScript!Contract!Registered(a, b)
                    /\ TypeScript!FirstOf(S) = {} <=> TypeScript!Contract!Registered(a, b) = {}
                    /\ TypeScript!Contract!Registered(a, b) = {} <=> S = {}
  BY <1>1, <1>2, <1>3
<1> QED
  BY <1>4 DEF R, TypeScript!lookup, TypeScript!Contract!Routes

LEMMA TsStatus ==
  ASSUME NEW q, TypeScript!handleRequest(q) # TypeScript!Rejects
  PROVE  TypeScript!Contract!HttpStatus(q)
           = IF TypeScript!handleRequest(q) = 0 THEN 200 ELSE TypeScript!handleRequest(q)
<1>1. TypeScript!lookup(q.opType, q.opCommand) = {} <=> TypeScript!Contract!Routes(q) = {}
  BY TsRoutes
<1> QED
  BY <1>1 DEF TypeScript!Contract!HttpStatus, TypeScript!handleRequest, TypeScript!Rejects

\* A refusal is not answered 200.
LEMMA TsRefusals ==
  ASSUME NEW q PROVE TypeScript!handleRequest(q) # 200
  BY DEF TypeScript!handleRequest, TypeScript!Rejects

\* What the routing lets through is an action with a handler or a state read.
LEMMA TsLetsThrough ==
  ASSUME NEW q, TypeScript!handleRequest(q) = 0
  PROVE  /\ q.path \in {"/action", "/state"}
         /\ q.path = "/action" => TypeScript!lookup(q.opType, q.opCommand) # {}
  BY DEF TypeScript!handleRequest, TypeScript!Rejects

-----------------------------------------------------------------------------
(***************************************************************************)
(* TypeScript: the invariant.                                              *)
(***************************************************************************)

\* Whoever's turn it is was let through, and nobody is between two assignments.
LEMMA TsTurn ==
  ASSUME TypeScript!TsInv, NEW c \in SettlementClients, TypeScript!Turn(c)
  PROVE  /\ TypeScript!handleRequest(tsRequest[c]) = 0
         /\ \A d \in SettlementClients : tsPc[d] # "suspended"
  BY DEF TypeScript!TsInv, TypeScript!ChainOrder, TypeScript!Turn

\* When the oldest call settles, all others are still on the chain, unstarted.
LEMMA TsSettles ==
  ASSUME TypeScript!TsInv, NEW c \in SettlementClients,
         tsPc[c] \in {"queued", "suspended"}, Head(queue) = c
  PROVE  /\ Tail(queue) \in Seq(SettlementClients)
         /\ \A d \in SettlementClients \ {c} :
              tsPc[d] \in {"queued", "suspended"} =>
                /\ tsPc[d] = "queued"
                /\ \E i \in DOMAIN Tail(queue) : Tail(queue)[i] = d
<1>1. queue \in Seq(SettlementClients) /\ queue # <<>>
  BY DEF TypeScript!TsInv, TypeScript!ChainOrder, TypeScript!TsTypeOK
<1>2. /\ Tail(queue) \in Seq(SettlementClients)
      /\ Len(Tail(queue)) = Len(queue) - 1
      /\ \A i \in 1 .. Len(Tail(queue)) : Tail(queue)[i] = queue[i + 1]
  BY <1>1, HeadTailProperties
<1>3. ASSUME NEW d \in SettlementClients \ {c}, tsPc[d] \in {"queued", "suspended"}
      PROVE  /\ tsPc[d] = "queued"
             /\ \E i \in DOMAIN Tail(queue) : Tail(queue)[i] = d
  <2>1. tsPc[d] = "queued"
    BY <1>3 DEF TypeScript!TsInv, TypeScript!ChainOrder
  <2>2. PICK i \in DOMAIN queue : queue[i] = d
    BY <1>3 DEF TypeScript!TsInv, TypeScript!ChainOrder
  <2>3. i \in 2 .. Len(queue)
    BY <1>1, <2>2
  <2>4. i - 1 \in DOMAIN Tail(queue) /\ Tail(queue)[i - 1] = d
    BY <1>1, <1>2, <2>2, <2>3
  <2> QED
    BY <2>1, <2>4
<1> QED
  BY <1>2, <1>3

LEMMA TsInitInv == TypeScript!TsInit => TypeScript!TsInv
<1> SUFFICES ASSUME TypeScript!TsInit PROVE TypeScript!TsInv
  OBVIOUS
<1>1. TypeScript!TsTypeOK
  BY DEF TypeScript!TsInit, TypeScript!TsTypeOK, TypeScript!Fresh
<1>2. TypeScript!ChainOrder /\ TypeScript!AnswersAreComputed
  BY DEF TypeScript!TsInit, TypeScript!ChainOrder, TypeScript!AnswersAreComputed
<1> QED
  BY <1>1, <1>2 DEF TypeScript!TsInv

\* Each step of the server and each request keep types, chain and answers.
LEMMA TsTypeNext ==
  ASSUME TypeScript!TsInv, TypeScript!TsNext
  PROVE  TypeScript!TsTypeOK'
<1> USE DEF TypeScript!TsTypeOK, TypeScript!Reply
<1> TypeScript!TsTypeOK
  BY DEF TypeScript!TsInv
<1>1. ASSUME NEW c \in SettlementClients, NEW q \in SettlementRequests[c],
             TypeScript!readBody(c, q)
      PROVE  TypeScript!TsTypeOK'
  BY <1>1 DEF TypeScript!readBody
<1>2. ASSUME NEW c \in SettlementClients, TypeScript!RefuseRequest(c)
      PROVE  TypeScript!TsTypeOK'
  BY <1>2 DEF TypeScript!RefuseRequest
<1>3. ASSUME NEW c \in SettlementClients, TypeScript!serialize(c)
      PROVE  TypeScript!TsTypeOK'
  <2>1. queue' \in Seq(SettlementClients)
    BY <1>3 DEF TypeScript!serialize
  <2> QED
    BY <1>3, <2>1 DEF TypeScript!serialize
<1>4. ASSUME NEW c \in SettlementClients, TypeScript!processState(c)
      PROVE  TypeScript!TsTypeOK'
  <2>1. queue' \in Seq(SettlementClients)
    BY <1>4, TsSettles DEF TypeScript!processState, TypeScript!Turn, TypeScript!Settled
  <2> QED
    BY <1>4, <2>1 DEF TypeScript!processState, TypeScript!Turn
<1>5. ASSUME NEW c \in SettlementClients, TypeScript!HandlerFails(c)
      PROVE  TypeScript!TsTypeOK'
  <2>1. queue' \in Seq(SettlementClients)
    BY <1>5, TsSettles DEF TypeScript!HandlerFails, TypeScript!Turn, TypeScript!Settled
  <2> QED
    BY <1>5, <2>1 DEF TypeScript!HandlerFails, TypeScript!Turn
<1>6. ASSUME NEW c \in SettlementClients, TypeScript!Count(c)
      PROVE  TypeScript!TsTypeOK'
  BY <1>6 DEF TypeScript!Count, TypeScript!Turn
<1>7. ASSUME NEW c \in SettlementClients, TypeScript!Resolve(c)
      PROVE  TypeScript!TsTypeOK'
  <2>1. Head(queue) = c
    BY <1>7 DEF TypeScript!Resolve, TypeScript!TsInv, TypeScript!ChainOrder
  <2>2. queue' \in Seq(SettlementClients)
    BY <1>7, <2>1, TsSettles DEF TypeScript!Resolve, TypeScript!Settled
  <2> QED
    BY <1>7, <2>2 DEF TypeScript!Resolve
<1>8. ASSUME TypeScript!shutdown \/ TypeScript!Exit PROVE TypeScript!TsTypeOK'
  BY <1>8 DEF TypeScript!shutdown, TypeScript!Exit
<1>9. ASSUME NEW c \in SettlementClients, TypeScript!LookupThrows(c)
      PROVE  TypeScript!TsTypeOK'
  BY <1>9 DEF TypeScript!LookupThrows
<1> QED
  BY <1>1, <1>2, <1>3, <1>4, <1>5, <1>6, <1>7, <1>8, <1>9 DEF TypeScript!TsNext, TypeScript!Serve

LEMMA TsChainNext ==
  ASSUME TypeScript!TsInv, TypeScript!TsNext
  PROVE  TypeScript!ChainOrder'
<1> USE DEF TypeScript!ChainOrder, TypeScript!Reply
<1> TypeScript!TsTypeOK /\ TypeScript!ChainOrder
  BY DEF TypeScript!TsInv
<1> tsPc \in [SettlementClients -> {"idle", "serving", "queued", "suspended", "done"}]
  BY DEF TypeScript!TsTypeOK
<1>1. ASSUME NEW c \in SettlementClients, NEW q \in SettlementRequests[c],
             TypeScript!readBody(c, q)
      PROVE  TypeScript!ChainOrder'
  <2>1. \A d \in SettlementClients \ {c} : tsRequest'[d] = tsRequest[d]
    BY <1>1 DEF TypeScript!readBody, TypeScript!TsTypeOK
  <2> QED
    BY <1>1, <2>1 DEF TypeScript!readBody, TypeScript!handleRequest, TypeScript!Accepts
<1>2. ASSUME NEW c \in SettlementClients, TypeScript!RefuseRequest(c)
      PROVE  TypeScript!ChainOrder'
  BY <1>2 DEF TypeScript!RefuseRequest, TypeScript!handleRequest, TypeScript!Accepts
<1>3. ASSUME NEW c \in SettlementClients, TypeScript!serialize(c)
      PROVE  TypeScript!ChainOrder'
  <2>1. queue' = Append(queue, c) /\ queue \in Seq(SettlementClients)
    BY <1>3 DEF TypeScript!serialize, TypeScript!TsTypeOK
  <2>2. /\ DOMAIN queue' = 1 .. Len(queue) + 1 /\ queue'[Len(queue) + 1] = c
        /\ \A i \in DOMAIN queue : i \in DOMAIN queue' /\ queue'[i] = queue[i]
        /\ queue # <<>> => Head(queue') = Head(queue)
    BY <2>1
  <2>3. \A d \in SettlementClients :
          d = c \/ tsPc[d] \in {"queued", "suspended"} => \E i \in DOMAIN queue' : queue'[i] = d
    <3>1. Len(queue) + 1 \in DOMAIN queue'
      BY <2>1, <2>2
    <3> QED
      BY <2>2, <3>1
  <2>4. \A d \in SettlementClients : tsPc[d] = "suspended" => Head(queue') = d
    BY <2>1, <2>2
  <2> QED
    BY <1>3, <2>3, <2>4 DEF TypeScript!serialize, TypeScript!handleRequest, TypeScript!Accepts
<1>4. ASSUME NEW c \in SettlementClients, tsPc[c] \in {"queued", "suspended"},
             Head(queue) = c, TypeScript!Settled, tsRequest' = tsRequest,
             tsPc' = [tsPc EXCEPT ![c] = "done"]
      PROVE  TypeScript!ChainOrder'
  <2>1. \A d \in SettlementClients \ {c} :
          tsPc[d] \in {"queued", "suspended"} =>
            tsPc[d] = "queued" /\ \E i \in DOMAIN queue' : queue'[i] = d
    BY <1>4, TsSettles DEF TypeScript!Settled
  <2> QED
    BY <1>4, <2>1 DEF TypeScript!handleRequest, TypeScript!Accepts
<1>5. ASSUME NEW c \in SettlementClients,
             TypeScript!processState(c) \/ TypeScript!HandlerFails(c) \/ TypeScript!Resolve(c)
      PROVE  TypeScript!ChainOrder'
  BY <1>4, <1>5 DEF TypeScript!processState, TypeScript!HandlerFails, TypeScript!Resolve,
                    TypeScript!Turn
<1>6. ASSUME NEW c \in SettlementClients, TypeScript!Count(c)
      PROVE  TypeScript!ChainOrder'
  <2>1. \A d \in SettlementClients : tsPc[d] # "suspended"
    BY <1>6, TsTurn DEF TypeScript!Count
  <2> QED
    BY <1>6, <2>1 DEF TypeScript!Count, TypeScript!Turn, TypeScript!handleRequest, TypeScript!Accepts
<1>8. ASSUME TypeScript!shutdown \/ TypeScript!Exit PROVE TypeScript!ChainOrder'
  BY <1>8 DEF TypeScript!shutdown, TypeScript!Exit, TypeScript!handleRequest, TypeScript!Accepts
<1>9. ASSUME NEW c \in SettlementClients, TypeScript!LookupThrows(c)
      PROVE  TypeScript!ChainOrder'
  BY <1>9 DEF TypeScript!LookupThrows, TypeScript!handleRequest, TypeScript!Accepts
<1> QED
  BY <1>1, <1>2, <1>3, <1>5, <1>6, <1>8, <1>9 DEF TypeScript!TsNext, TypeScript!Serve

LEMMA TsAnswersNext ==
  ASSUME TypeScript!TsInv, TypeScript!TsNext
  PROVE  TypeScript!AnswersAreComputed'
<1> DEFINE Fine(c) == IF tsPc[c] = "done" THEN TypeScript!AnswerIsComputed(c)
                                          ELSE tsAnswer[c] = NoAnswer
<1> /\ \A c \in SettlementClients : Fine(c)
    /\ tsPc \in [SettlementClients -> {"idle", "serving", "queued", "suspended", "done"}]
    /\ tsRequest = [c \in SettlementClients |-> tsRequest[c]]
    /\ tsAnswer = [c \in SettlementClients |-> tsAnswer[c]]
  BY DEF TypeScript!TsInv, TypeScript!AnswersAreComputed, TypeScript!TsTypeOK
<1> USE DEF TypeScript!Reply, TypeScript!AnswerIsComputed
<1>1. ASSUME NEW d \in SettlementClients, tsPc'[d] = tsPc[d], tsAnswer'[d] = tsAnswer[d],
             tsPc[d] = "idle" \/ tsRequest'[d] = tsRequest[d]
      PROVE  Fine(d)'
  BY <1>1 DEF TypeScript!Accepts
<1>2. ASSUME NEW c \in SettlementClients, NEW q \in SettlementRequests[c],
             TypeScript!readBody(c, q)
      PROVE  \A d \in SettlementClients : Fine(d)'
  <2>1. Fine(c)'
    BY <1>2 DEF TypeScript!readBody
  <2>2. \A d \in SettlementClients \ {c} :
          tsPc'[d] = tsPc[d] /\ tsAnswer'[d] = tsAnswer[d] /\ tsRequest'[d] = tsRequest[d]
    BY <1>2 DEF TypeScript!readBody
  <2> HIDE DEF Fine
  <2> QED
    BY <1>1, <2>1, <2>2
<1>3. ASSUME NEW c \in SettlementClients, TypeScript!RefuseRequest(c)
      PROVE  Fine(c)'
  BY <1>3, TsRefusals DEF TypeScript!RefuseRequest
<1>4. ASSUME NEW c \in SettlementClients,
             TypeScript!serialize(c) \/ TypeScript!Count(c) \/ TypeScript!LookupThrows(c)
      PROVE  Fine(c)'
  BY <1>4 DEF TypeScript!serialize, TypeScript!Count, TypeScript!Turn, TypeScript!LookupThrows
<1>5. ASSUME NEW c \in SettlementClients, TypeScript!processState(c)
      PROVE  Fine(c)'
  BY <1>5 DEF TypeScript!processState, TypeScript!Turn
<1>6. ASSUME NEW c \in SettlementClients, TypeScript!HandlerFails(c)
      PROVE  Fine(c)'
  BY <1>6 DEF TypeScript!HandlerFails, TypeScript!Turn
<1>7. ASSUME NEW c \in SettlementClients, TypeScript!Resolve(c)
      PROVE  Fine(c)'
  <2>1. TypeScript!Accepts(tsRequest[c])
    BY <1>7 DEF TypeScript!Resolve, TypeScript!TsInv, TypeScript!ChainOrder
  <2> QED
    BY <1>7, <2>1 DEF TypeScript!Resolve, TypeScript!Accepts
<1>8. ASSUME NEW c \in SettlementClients, TypeScript!Serve(c)
      PROVE  \A d \in SettlementClients : Fine(d)'
  <2>1. Fine(c)'
    BY <1>3, <1>4, <1>5, <1>6, <1>7, <1>8 DEF TypeScript!Serve
  <2>2. \A d \in SettlementClients \ {c} :
          tsPc'[d] = tsPc[d] /\ tsAnswer'[d] = tsAnswer[d] /\ tsRequest'[d] = tsRequest[d]
    BY <1>8 DEF TypeScript!Serve, TypeScript!RefuseRequest, TypeScript!serialize,
                TypeScript!processState, TypeScript!HandlerFails, TypeScript!Count,
                TypeScript!Resolve, TypeScript!LookupThrows
  <2> HIDE DEF Fine
  <2> QED
    BY <1>1, <2>1, <2>2
<1>9. ASSUME TypeScript!shutdown \/ TypeScript!Exit
      PROVE  \A d \in SettlementClients : Fine(d)'
  BY <1>1, <1>9 DEF TypeScript!shutdown, TypeScript!Exit
<1>10. \A d \in SettlementClients : Fine(d)'
  BY <1>2, <1>8, <1>9 DEF TypeScript!TsNext
<1> QED
  BY <1>10 DEF TypeScript!AnswersAreComputed

LEMMA TsInvNext ==
  ASSUME TypeScript!TsInv, TypeScript!TsNext
  PROVE  TypeScript!TsInv'
  BY TsTypeNext, TsChainNext, TsAnswersNext DEF TypeScript!TsInv

LEMMA TsInvStutter ==
  ASSUME TypeScript!TsInv, UNCHANGED tsVars
  PROVE  TypeScript!TsInv'
  BY DEF tsVars, TypeScript!TsInv, TypeScript!TsTypeOK, TypeScript!ChainOrder,
         TypeScript!AnswersAreComputed, TypeScript!AnswerIsComputed,
         TypeScript!handleRequest, TypeScript!Accepts

-----------------------------------------------------------------------------
(***************************************************************************)
(* TypeScript: each step is a step of the contract, or none.               *)
(***************************************************************************)

TsSuspended == {c \in SettlementClients : tsPc[c] = "suspended"}

\* What a state read may report, with no handler under way and with one.
LEMMA TsCommitted ==
  ASSUME TypeScript!TsInv
  PROVE  /\ TsSuspended = {} => TypeScript!CommittedState = app
         /\ \A c : TsSuspended = {c} =>
              TypeScript!CommittedState
                = [processed |-> app.processed - 1, lastPolicyId |-> app.lastPolicyId]
<1>1. TypeScript!CommittedState = [app EXCEPT !.processed = @ - Cardinality(TsSuspended)]
  BY TsCardinality DEF TypeScript!CommittedState, TsSuspended
<1>2. /\ app = [processed |-> app.processed, lastPolicyId |-> app.lastPolicyId]
      /\ app.processed \in Nat
  BY DEF TypeScript!TsInv, TypeScript!TsTypeOK
<1>3. PICK n, m : n = app.processed /\ m = Cardinality(TsSuspended)
  OBVIOUS
<1>4. TypeScript!CommittedState = [processed |-> n - m, lastPolicyId |-> app.lastPolicyId]
  BY <1>1, <1>2, <1>3
<1>5. n - 0 = n
  BY <1>2, <1>3
<1> QED
  BY <1>2, <1>3, <1>4, <1>5, SingletonCount

LEMMA TsCommittedNext ==
  ASSUME TypeScript!TsInv'
  PROVE  /\ TsSuspended' = {} => TypeScript!CommittedState' = app'
         /\ \A c : TsSuspended' = {c} =>
              TypeScript!CommittedState'
                = [processed |-> app'.processed - 1, lastPolicyId |-> app'.lastPolicyId]
<1>1. TypeScript!CommittedState' = [app' EXCEPT !.processed = @ - Cardinality(TsSuspended')]
  BY TsCardinality DEF TypeScript!CommittedState, TsSuspended
<1>2. /\ app' = [processed |-> app'.processed, lastPolicyId |-> app'.lastPolicyId]
      /\ app'.processed \in Nat
  BY DEF TypeScript!TsInv, TypeScript!TsTypeOK
<1>3. PICK n, m : n = app'.processed /\ m = Cardinality(TsSuspended')
  OBVIOUS
<1>4. TypeScript!CommittedState' = [processed |-> n - m, lastPolicyId |-> app'.lastPolicyId]
  BY <1>1, <1>2, <1>3
<1>5. n - 0 = n
  BY <1>2, <1>3
<1> QED
  BY <1>2, <1>3, <1>4, <1>5, SingletonCount

\* The committed state is that of the variables it is read from.
LEMMA TsCommittedKept ==
  ASSUME app' = app, TsSuspended' = TsSuspended
  PROVE  TypeScript!CommittedState' = TypeScript!CommittedState
  BY DEF TypeScript!CommittedState, TsSuspended

LEMMA TsInitMaps == TypeScript!TsInit => TypeScript!Contract!ContractInit
<1> SUFFICES ASSUME TypeScript!TsInit PROVE TypeScript!Contract!ContractInit
  OBVIOUS
<1>1. TsSuspended = {}
  BY DEF TypeScript!TsInit, TsSuspended
<1>2. TypeScript!CommittedState = TypeScript!Fresh
  BY <1>1, TsInitInv, TsCommitted DEF TypeScript!TsInit
<1> QED
  BY <1>2 DEF TypeScript!TsInit, TypeScript!Contract!ContractInit

\* A request that has been sent, has not been answered and was let through.
LEMMA TsServed ==
  ASSUME TypeScript!TsInv, NEW c \in SettlementClients,
         tsPc[c] \in {"serving", "queued", "suspended"}
  PROVE  /\ tsRequest[c] # NoRequest /\ tsAnswer[c] = NoAnswer
         /\ tsPc[c] # "serving" => TypeScript!Contract!HttpStatus(tsRequest[c]) = 200
<1>1. tsRequest[c] # NoRequest /\ tsAnswer[c] = NoAnswer
  BY ContainerAssumption DEF TypeScript!TsInv, TypeScript!TsTypeOK, TypeScript!AnswersAreComputed
<1>2. tsPc[c] # "serving" => TypeScript!handleRequest(tsRequest[c]) = 0
  BY DEF TypeScript!TsInv, TypeScript!ChainOrder
<1> QED
  BY <1>1, <1>2, TsStatus DEF TypeScript!Rejects

\* The handler that answers is one the contract routes to.
LEMMA TsHandlerRouted ==
  ASSUME NEW c, TypeScript!handleRequest(tsRequest[c]) = 0, tsRequest[c].path = "/action"
  PROVE  TypeScript!Handler(c) \in TypeScript!Contract!Routes(tsRequest[c])
  BY TsRoutes, TsLetsThrough DEF TypeScript!Handler

LEMMA TsRefuses ==
  ASSUME TypeScript!TsInv, NEW c \in SettlementClients, TypeScript!RefuseRequest(c)
  PROVE  TypeScript!Contract!Refuse(c)
<1>1. TsSuspended' = TsSuspended
  BY DEF TypeScript!RefuseRequest, TypeScript!Reply, TsSuspended, TypeScript!TsInv, TypeScript!TsTypeOK
<1>2. TypeScript!CommittedState' = TypeScript!CommittedState
  BY <1>1, TsCommittedKept DEF TypeScript!RefuseRequest
<1>3. /\ TypeScript!Contract!HttpStatus(tsRequest[c]) = TypeScript!handleRequest(tsRequest[c])
      /\ TypeScript!Contract!HttpStatus(tsRequest[c]) # 200
  BY TsStatus, TsRefusals DEF TypeScript!RefuseRequest
<1> QED
  BY <1>2, <1>3, TsServed DEF TypeScript!RefuseRequest, TypeScript!Reply,
       TypeScript!Contract!Refuse, TypeScript!Contract!Answer

LEMMA TsReads ==
  ASSUME TypeScript!TsInv, NEW c \in SettlementClients, TypeScript!processState(c)
  PROVE  TypeScript!Contract!Read(c)
<1>1. TsSuspended = {} /\ TsSuspended' = {}
  BY TsTurn DEF TypeScript!processState, TypeScript!Reply, TsSuspended, TypeScript!TsInv, TypeScript!TsTypeOK
<1>2. TypeScript!CommittedState = app /\ TypeScript!CommittedState' = TypeScript!CommittedState
  BY <1>1, TsCommitted, TsCommittedKept DEF TypeScript!processState
<1>3. tsPc[c] = "queued"
  BY DEF TypeScript!processState, TypeScript!Turn
<1> QED
  BY <1>2, <1>3, TsServed DEF TypeScript!processState, TypeScript!Reply,
       TypeScript!Contract!Read, TypeScript!Contract!Answer

LEMMA TsFails ==
  ASSUME TypeScript!TsInv, NEW c \in SettlementClients, TypeScript!HandlerFails(c)
  PROVE  TypeScript!Contract!Fail(c)
<1>1. TsSuspended = {} /\ TsSuspended' = {}
  BY TsTurn DEF TypeScript!HandlerFails, TypeScript!Reply, TsSuspended, TypeScript!TsInv, TypeScript!TsTypeOK
<1>2. TypeScript!CommittedState' = TypeScript!CommittedState
  BY <1>1, TsCommittedKept DEF TypeScript!HandlerFails
<1>3. tsPc[c] = "queued" /\ tsRequest[c].path = "/action"
  BY DEF TypeScript!HandlerFails, TypeScript!Turn
<1>4. TypeScript!Handler(c) \in TypeScript!Contract!Routes(tsRequest[c])
  BY <1>3, TsTurn, TsHandlerRouted DEF TypeScript!HandlerFails
<1> QED
  BY <1>2, <1>3, <1>4, TsServed DEF TypeScript!HandlerFails, TypeScript!Reply,
       TypeScript!Contract!Fail, TypeScript!Contract!Answer

LEMMA TsCounts ==
  ASSUME TypeScript!TsInv, TypeScript!TsInv', NEW c \in SettlementClients, TypeScript!Count(c)
  PROVE  TypeScript!CommittedState' = TypeScript!CommittedState
<1>1. TsSuspended = {} /\ TsSuspended' = {c}
  BY TsTurn DEF TypeScript!Count, TypeScript!Turn, TsSuspended, TypeScript!TsInv, TypeScript!TsTypeOK
<1>2. /\ TypeScript!CommittedState = app
      /\ TypeScript!CommittedState'
           = [processed |-> app'.processed - 1, lastPolicyId |-> app'.lastPolicyId]
  BY <1>1, TsCommitted, TsCommittedNext
<1>3. /\ app = [processed |-> app.processed, lastPolicyId |-> app.lastPolicyId]
      /\ app.processed \in Nat /\ app' = [app EXCEPT !.processed = @ + 1]
  BY DEF TypeScript!TsInv, TypeScript!TsTypeOK, TypeScript!Count
<1>4. app'.processed = app.processed + 1 /\ app'.lastPolicyId = app.lastPolicyId
  BY <1>3
<1>5. app.processed + 1 - 1 = app.processed
  BY <1>3
<1> QED
  BY <1>2, <1>3, <1>4, <1>5

LEMMA TsResolves ==
  ASSUME TypeScript!TsInv, TypeScript!TsInv', NEW c \in SettlementClients, TypeScript!Resolve(c)
  PROVE  TypeScript!Contract!Act(c)
<1> DEFINE q == tsRequest[c]
           h == TypeScript!Handler(c)
<1>1. tsPc[c] = "suspended" /\ TypeScript!handleRequest(q) = 0 /\ q.path = "/action"
      /\ TypeScript!Accepts(q) /\ h \in TypeScript!Contract!Routes(q)
  BY TsHandlerRouted DEF TypeScript!Resolve, TypeScript!TsInv, TypeScript!ChainOrder
<1>2. TsSuspended = {c} /\ TsSuspended' = {}
  <2>1. \A d \in SettlementClients : tsPc[d] = "suspended" => d = c
    BY <1>1 DEF TypeScript!TsInv, TypeScript!ChainOrder
  <2> QED
    BY <1>1, <2>1 DEF TypeScript!Resolve, TypeScript!Reply, TsSuspended, TypeScript!TsInv,
                      TypeScript!TsTypeOK
<1>3. /\ TypeScript!CommittedState
           = [processed |-> app.processed - 1, lastPolicyId |-> app.lastPolicyId]
      /\ TypeScript!CommittedState' = app'
  BY <1>2, TsCommitted, TsCommittedNext
<1>4. /\ app = [processed |-> app.processed, lastPolicyId |-> app.lastPolicyId]
      /\ app.processed \in Nat
      /\ app' = [app EXCEPT !.lastPolicyId = q.payload.message.policyId]
  BY DEF TypeScript!TsInv, TypeScript!TsTypeOK, TypeScript!Resolve
<1>5. app' = [processed |-> app.processed, lastPolicyId |-> q.payload.message.policyId]
  BY <1>4
<1>6. TypeScript!CommittedState' = TypeScript!AppliedTo(h, q, TypeScript!CommittedState)
  <2>1. app.processed - 1 + 1 = app.processed
    BY <1>4
  <2> QED
    BY <1>3, <1>5, <2>1 DEF TypeScript!AppliedTo
<1>7. TypeScript!Contract!Answer(c,
        [http |-> 200, status |-> 1, handler |-> h,
         data |-> TypeScript!DataOf(h, q, TypeScript!CommittedState')])
  BY <1>1, TsServed DEF TypeScript!Resolve, TypeScript!Reply, TypeScript!DataOf,
                        TypeScript!Contract!Answer
<1>8. q # NoRequest /\ TypeScript!Contract!HttpStatus(q) = 200
  BY <1>1, TsServed
<1> HIDE DEF q, h
<1> QED
  BY <1>1, <1>6, <1>7, <1>8 DEF q, TypeScript!Contract!Act

LEMMA TsSends ==
  ASSUME TypeScript!TsInv, NEW c \in SettlementClients, NEW q \in SettlementRequests[c],
         TypeScript!readBody(c, q)
  PROVE  TypeScript!Contract!Send(c, q)
<1>1. TsSuspended' = TsSuspended
  BY DEF TypeScript!readBody, TsSuspended, TypeScript!TsInv, TypeScript!TsTypeOK
<1>2. TypeScript!CommittedState' = TypeScript!CommittedState
  BY <1>1, TsCommittedKept DEF TypeScript!readBody
<1> QED
  BY <1>2 DEF TypeScript!readBody, TypeScript!TsInv, TypeScript!TsTypeOK, TypeScript!Contract!Send

\* Queueing a call, stopping to listen and exiting, of whatever cause, do not show.
LEMMA TsHidden ==
  ASSUME TypeScript!TsInv,
         \/ \E c \in SettlementClients : TypeScript!serialize(c) \/ TypeScript!LookupThrows(c)
         \/ TypeScript!shutdown \/ TypeScript!Exit \/ UNCHANGED tsVars
  PROVE  UNCHANGED TypeScript!Contract!contractVars
<1>1. TsSuspended' = TsSuspended /\ app' = app /\ tsRequest' = tsRequest /\ tsAnswer' = tsAnswer
  BY DEF TypeScript!serialize, TypeScript!LookupThrows, TypeScript!shutdown, TypeScript!Exit,
         tsVars, TsSuspended, TypeScript!TsInv, TypeScript!TsTypeOK
<1> QED
  BY <1>1, TsCommittedKept DEF TypeScript!Contract!contractVars

LEMMA TsStepMaps ==
  ASSUME TypeScript!TsInv, TypeScript!TsInv', TypeScript!TsNext \/ UNCHANGED tsVars
  PROVE  [TypeScript!Contract!ContractNext]_(TypeScript!Contract!contractVars)
<1>1. ASSUME NEW c \in SettlementClients, TypeScript!Serve(c)
      PROVE  \/ TypeScript!Contract!Serve(c)
             \/ UNCHANGED TypeScript!Contract!contractVars
  <2>1. CASE TypeScript!RefuseRequest(c) \/ TypeScript!processState(c)
               \/ TypeScript!HandlerFails(c) \/ TypeScript!Resolve(c)
    BY <2>1, TsRefuses, TsReads, TsFails, TsResolves DEF TypeScript!Contract!Serve
  <2>2. CASE TypeScript!serialize(c) \/ TypeScript!LookupThrows(c)
    BY <2>2, TsHidden
  <2>3. CASE TypeScript!Count(c)
    BY <2>3, TsCounts DEF TypeScript!Count, TypeScript!Contract!contractVars
  <2> QED
    BY <1>1, <2>1, <2>2, <2>3 DEF TypeScript!Serve
<1>2. ASSUME NEW c \in SettlementClients, NEW q \in SettlementRequests[c],
             TypeScript!readBody(c, q)
      PROVE  TypeScript!Contract!Send(c, q)
  BY <1>2, TsSends
<1>3. CASE TypeScript!shutdown \/ TypeScript!Exit \/ UNCHANGED tsVars
  BY <1>3, TsHidden
<1> QED
  BY <1>1, <1>2, <1>3 DEF TypeScript!TsNext, TypeScript!Contract!ContractNext

-----------------------------------------------------------------------------
(***************************************************************************)
(* The settlement: what is allocated is exact.                             *)
(***************************************************************************)

LEMMA AllocationExact ==
  ASSUME NEW m, m.total \in Nat, m.sharesBps \in Seq(Nat), ValidRequest(m)
  PROVE  LET n == Len(m.recipients)
         IN  /\ n \in Nat \ {0} /\ Len(Allocation(m)) = n
             /\ SumFunction(Allocation(m)) = m.total
             /\ \A i \in 1 .. n :
                  LET over == Over(Allocation(m)[i], m.sharesBps[i], m.total, BPS_DENOMINATOR)
                  IN  /\ -BPS_DENOMINATOR < over
                      /\ over <= IF i = n THEN (n - 1) * BPS_DENOMINATOR ELSE 0
<1>1. PICK n, s, t, b : n = Len(m.recipients) /\ s = m.sharesBps /\ t = m.total
                        /\ b = BPS_DENOMINATOR
  OBVIOUS
<1>2. /\ n \in Nat \ {0} /\ n = Len(s) /\ t \in Nat /\ b \in Nat \ {0}
      /\ DOMAIN s = 1 .. n /\ \A i \in 1 .. n : s[i] \in Nat
      /\ SumFunctionOnSet(s, 1 .. n) = b
  BY <1>1, ComputeAssumption DEF ValidRequest, SumFunction
<1>3. PICK p : p = [i \in 1 .. n |-> (t * s[i]) \div b]
  OBVIOUS
<1>4. RoundedTo(p, s, 1 .. n, t, b)
  BY <1>3 DEF RoundedTo
<1>5. PICK P, a : P = SumFunctionOnSet(p, 1 .. n) /\ a = [p EXCEPT ![n] = @ + (t - P)]
  OBVIOUS
<1>6. Allocation(m) = a
  <2>1. p = [i \in 1 .. Len(m.sharesBps) |-> Portion(m, i)]
    BY <1>1, <1>2, <1>3 DEF Portion
  <2>2. SumFunction(p) = P
    BY <1>3, <1>5 DEF SumFunction
  <2> QED
    BY <1>1, <1>2, <1>5, <2>1, <2>2 DEF Allocation
<1>7. /\ \A i \in 1 .. n : p[i] \in Nat
      /\ t - P \in Nat
      /\ \A i \in 1 .. n : -b < Over(p[i], s[i], t, b) /\ Over(p[i], s[i], t, b) <= 0
      /\ -b < Over(p[n] + (t - P), s[n], t, b)
      /\ Over(p[n] + (t - P), s[n], t, b) <= (n - 1) * b
  BY <1>2, <1>4, <1>5, RoundedShares
<1>8. p = [i \in 1 .. n |-> p[i]] /\ n \in 1 .. n
  BY <1>2, <1>3
<1>9. PICK dust : dust = t - P /\ dust \in Nat
  BY <1>7
<1>10. \A i \in 1 .. n : p[i] \in Nat
  BY <1>7
<1>11. /\ DOMAIN a = 1 .. n /\ a = [i \in 1 .. n |-> a[i]] /\ a[n] = p[n] + dust
       /\ \A i \in 1 .. n : i # n => a[i] = p[i]
  BY <1>5, <1>8, <1>9
<1>12. \A i \in 1 .. n : a[i] \in Nat
  BY <1>8, <1>9, <1>10, <1>11
<1>13. Len(a) = n
  <2>1. a \in Seq(Nat)
    BY <1>2, <1>11, <1>12
  <2> QED
    BY <1>2, <1>11, <2>1
<1>14. SumFunction(a) = t
  <2>1. IsFiniteSet(1 .. n)
    BY <1>2, FS_Interval
  <2>2. SumFunctionOnSet(a, 1 .. n) + p[n] = SumFunctionOnSet(p, 1 .. n) + a[n]
    <3>1. PICK S : S = 1 .. n
      OBVIOUS
    <3>2. /\ IsFiniteSet(S) /\ n \in S /\ \A x \in S : p[x] \in Nat /\ a[x] \in Nat
          /\ \A x \in S : x # n => a[x] = p[x]
      BY <1>8, <1>10, <1>11, <1>12, <2>1, <3>1
    <3>3. SumFunctionOnSet(a, S) + p[n] = SumFunctionOnSet(p, S) + a[n]
      BY <3>2, SumUpdate
    <3> QED
      BY <3>1, <3>3
  <2>3. P \in Nat /\ SumFunctionOnSet(a, 1 .. n) \in Nat
    BY <1>5, <1>10, <1>12, <2>1, SumType
  <2>4. SumFunctionOnSet(a, 1 .. n) = t
    BY <1>2, <1>5, <1>8, <1>9, <1>10, <1>11, <2>2, <2>3
  <2> QED
    BY <1>11, <2>4 DEF SumFunction
<1>15. ASSUME NEW i \in 1 .. n
       PROVE  /\ -b < Over(a[i], s[i], t, b)
              /\ Over(a[i], s[i], t, b) <= IF i = n THEN (n - 1) * b ELSE 0
  <2>1. CASE i = n
    BY <1>7, <1>9, <1>11, <2>1
  <2>2. CASE i # n
    BY <1>7, <1>11, <2>2
  <2> QED
    BY <2>1, <2>2
<1> QED
  BY <1>1, <1>2, <1>6, <1>13, <1>14, <1>15

LEMMA AllocationFollows ==
  ASSUME TypeScript!TsInv
  PROVE  AllocationIsExact
<1> SUFFICES ASSUME NEW c \in TypeScript!Computed PROVE TypeScript!ExactFor(c)
  BY DEF AllocationIsExact
<1> DEFINE q == tsRequest[c]
           m == q.payload.message
<1>1. /\ c \in SettlementClients /\ tsAnswer[c] # NoAnswer /\ q.path = "/action"
      /\ tsAnswer[c].http = 200 /\ tsAnswer[c].status = 1
  BY DEF TypeScript!Computed
<1>2. tsPc[c] = "done" /\ TypeScript!AnswerIsComputed(c)
  BY <1>1 DEF TypeScript!TsInv, TypeScript!AnswersAreComputed
<1>3. /\ TypeScript!Accepts(q)
      /\ tsAnswer[c].data = TypeScript!decodeAndComputeSettlement(m, q.payload.actionId)
  BY <1>1, <1>2 DEF TypeScript!AnswerIsComputed
<1>4. tsAnswer[c].data = decodeAndComputeSettlement(m, q.payload.actionId)
  BY <1>3, TsCompute
<1>5. tsAnswer[c].data.amounts = Allocation(m) /\ tsAnswer[c].data.recipients = m.recipients
  BY <1>4 DEF decodeAndComputeSettlement
<1>6. m.total \in Nat /\ m.sharesBps \in Seq(Nat)
  <2>1. q \in SettlementRequests[c]
    BY <1>1, <1>2 DEF TypeScript!TsInv, TypeScript!TsTypeOK
  <2> QED
    BY <1>1, <1>3, <2>1, ContainerAssumption
<1>7. ValidRequest(m)
  BY <1>3, TsSum DEF TypeScript!Accepts, TypeScript!ValidRequest, ValidRequest
<1> HIDE DEF q, m
<1>8. /\ Len(Allocation(m)) = Len(m.recipients) /\ SumFunction(Allocation(m)) = m.total
      /\ \A i \in 1 .. Len(m.recipients) :
           LET over == Allocation(m)[i] * BPS_DENOMINATOR - m.total * m.sharesBps[i]
           IN  /\ -BPS_DENOMINATOR < over
               /\ over <= IF i = Len(m.recipients)
                            THEN (Len(m.recipients) - 1) * BPS_DENOMINATOR ELSE 0
  BY <1>6, <1>7, AllocationExact DEF Over
<1>9. TypeScript!Paid(c) = Allocation(m) /\ TypeScript!Asked(c) = m
  BY <1>5 DEF TypeScript!Paid, TypeScript!Asked, q, m
<1> QED
  BY <1>5, <1>8, <1>9, TsSum DEF TypeScript!ExactFor

-----------------------------------------------------------------------------
(***************************************************************************)
(* Python: routing, and the application's variables.                       *)
(***************************************************************************)

\* What has been copied, one field after the other, and one field more.
LEMMA CopiedOneMore ==
  ASSUME NEW n \in Nat, NEW g, NEW order, NEW copy,
         copy = [i \in 1 .. n |-> g[order[i]]]
  PROVE  /\ Len(copy) = n
         /\ Append(copy, g[order[n + 1]]) = [i \in 1 .. n + 1 |-> g[order[i]]]
<1> DEFINE X == {g[order[i]] : i \in 1 .. n + 1}
<1>1. copy \in Seq(X) /\ Len(copy) = n
  OBVIOUS
<1>2. g[order[n + 1]] \in X
  OBVIOUS
<1> HIDE DEF X
<1>3. PICK more : more = Append(copy, g[order[n + 1]])
  OBVIOUS
<1>4. /\ more \in Seq(X) /\ Len(more) = n + 1 /\ more[n + 1] = g[order[n + 1]]
      /\ \A i \in 1 .. n : more[i] = copy[i]
  BY <1>1, <1>2, <1>3, AppendProperties
<1>5. more = [i \in 1 .. n + 1 |-> more[i]]
  BY <1>4
<1> QED
  BY <1>1, <1>3, <1>4, <1>5

LEMMA PyNames ==
  /\ DOMAIN Python!Reset = {"_greeting_count", "_last_greeting", "_farewell_count", "_last_farewell"}
  /\ DOMAIN Python!CountOf = {"handle_say_hello", "handle_say_goodbye"}
  /\ Python!CountOf["handle_say_hello"] = "_greeting_count"
  /\ Python!CountOf["handle_say_goodbye"] = "_farewell_count"
  /\ Python!TextOf["handle_say_hello"] = "_last_greeting"
  /\ Python!TextOf["handle_say_goodbye"] = "_last_farewell"
  BY DEF Python!Reset, Python!CountOf, Python!TextOf

LEMMA PyReported ==
  /\ Len(Python!Reported) = 4
  /\ Python!Reported[1] = "_greeting_count" /\ Python!Reported[2] = "_last_greeting"
  /\ Python!Reported[3] = "_farewell_count" /\ Python!Reported[4] = "_last_farewell"
  BY DEF Python!Reported

\* Framework.lookup finds a handler that the contract routes to, if there is one.
LEMMA PyRoutes ==
  ASSUME NEW q
  PROVE  LET found == Python!lookup(q.opType, q.opCommand)
         IN  /\ found \subseteq Python!Contract!Routes(q)
             /\ found \subseteq DOMAIN Python!CountOf
             /\ found = {} <=> Python!Contract!Routes(q) = {}
<1> DEFINE R(a, b) == Python!Registered(a, b)
           H(S) == {GreetingHandlers[i].handler : i \in S}
<1>1. ASSUME NEW a, NEW b
      PROVE  /\ R(a, b) \subseteq Nat /\ H(R(a, b)) \subseteq DOMAIN Python!CountOf
             /\ Python!Contract!Registered(a, b) = H(R(a, b))
  <2>1. /\ DOMAIN GreetingHandlers \subseteq Nat
        /\ \A i \in DOMAIN GreetingHandlers :
             GreetingHandlers[i].handler \in DOMAIN Python!CountOf
    <3> DEFINE K == DOMAIN Python!CountOf
               X == [opType : STRING, opCommand : STRING, handler : K]
    <3>1. GreetingHandlers \in Seq(X)
      BY ContainerAssumption
    <3>2. \A x \in X : x.handler \in K
      OBVIOUS
    <3> HIDE DEF K, X
    <3>3. DOMAIN GreetingHandlers \subseteq Nat
      BY <3>1
    <3>4. \A i \in DOMAIN GreetingHandlers : GreetingHandlers[i] \in X
      BY <3>1
    <3> QED
      BY <3>2, <3>3, <3>4 DEF K
  <2> QED
    BY <2>1 DEF Python!Registered, Python!Contract!Registered
<1>2. ASSUME NEW S, S \subseteq Nat
      PROVE  /\ Python!FirstOf(S) \subseteq H(S)
             /\ Python!FirstOf(S) = {} <=> H(S) = {}
  <2>1. CASE S = {}
    BY <2>1 DEF Python!FirstOf
  <2>2. CASE S # {}
    <3>1. PICK i \in S : \A j \in S : i <= j
      BY <1>2, <2>2, LeastNatural
    <3> QED
      BY <3>1 DEF Python!FirstOf
  <2> QED
    BY <2>1, <2>2
<1>3. \A S : H(S) = {} <=> S = {}
  OBVIOUS
<1> HIDE DEF R, H
<1>4. \A a, b : LET S == R(a, b)
                IN  /\ Python!FirstOf(S) \subseteq Python!Contract!Registered(a, b)
                    /\ Python!FirstOf(S) \subseteq DOMAIN Python!CountOf
                    /\ Python!FirstOf(S) = {} <=> Python!Contract!Registered(a, b) = {}
                    /\ Python!Contract!Registered(a, b) = {} <=> S = {}
  BY <1>1, <1>2, <1>3
<1> QED
  BY <1>4 DEF R, Python!lookup, Python!Contract!Routes

LEMMA PyStatus ==
  ASSUME NEW q, Python!handle_request(q) # Python!Raises
  PROVE  /\ Python!Contract!HttpStatus(q)
              = IF Python!handle_request(q) = 0 THEN 200 ELSE Python!handle_request(q)
         /\ Python!handle_request(q) # 200
<1>1. Python!lookup(q.opType, q.opCommand) = {} <=> Python!Contract!Routes(q) = {}
  BY PyRoutes
<1> QED
  BY <1>1 DEF Python!Contract!HttpStatus, Python!handle_request, Python!Raises

LEMMA PyLetsThrough ==
  ASSUME NEW q, Python!handle_request(q) = 0
  PROVE  /\ q.path \in {"/action", "/state"}
         /\ q.path = "/action" => Python!lookup(q.opType, q.opCommand) # {}
  BY DEF Python!handle_request, Python!Raises

\* The handler that answers is one the contract routes to, and a modelled one.
LEMMA PyHandlerRouted ==
  ASSUME NEW c, Python!handle_request(pyRequest[c]) = 0, pyRequest[c].path = "/action"
  PROVE  /\ Python!Handler(c) \in Python!Contract!Routes(pyRequest[c])
         /\ Python!Handler(c) \in {"handle_say_hello", "handle_say_goodbye"}
  BY PyRoutes, PyLetsThrough, PyNames DEF Python!Handler

-----------------------------------------------------------------------------
(***************************************************************************)
(* Python: the invariant.                                                  *)
(***************************************************************************)

LEMMA PyInitInv == Python!PyInit => Python!PyInv
<1> SUFFICES ASSUME Python!PyInit PROVE Python!PyInv
  OBVIOUS
<1>1. Python!PyTypeOK
  BY DEF Python!PyInit, Python!PyTypeOK, Python!Reset
<1>2. Python!HolderIsAlone /\ Python!Unserved
  BY DEF Python!PyInit, Python!HolderIsAlone, Python!Unserved
<1> QED
  BY <1>1, <1>2 DEF Python!PyInv

\* A handler's step changes one of the four variables, and keeps the counts.
LEMMA PyGlobalsNext ==
  ASSUME Python!PyTypeOK,
         NEW h \in {"handle_say_hello", "handle_say_goodbye"},
         \/ globals' = globals
         \/ globals' = [globals EXCEPT ![Python!CountOf[h]] = @ + 1]
         \/ \E x : globals' = [globals EXCEPT ![Python!TextOf[h]] = x]
  PROVE  /\ globals' = [f \in DOMAIN Python!Reset |-> globals'[f]]
         /\ globals'._greeting_count \in Nat /\ globals'._farewell_count \in Nat
  BY PyNames DEF Python!PyTypeOK

\* Whoever is inside a handler was let through and is alone.
LEMMA PyHolder ==
  ASSUME Python!PyInv, NEW c \in GreetingClients, pyPc[c] \in {"locked", "counted"}
  PROVE  /\ Python!handle_request(pyRequest[c]) = 0 /\ lock = {c}
         /\ \A d \in GreetingClients \ {c} : pyPc[d] \notin {"locked", "counted"}
         /\ pyPc[c] = "counted" => pyRequest[c].path = "/action"
  BY DEF Python!PyInv, Python!HolderIsAlone

LEMMA PyWaiting ==
  ASSUME Python!PyInv, NEW c \in GreetingClients, pyPc[c] = "serving"
  PROVE  pyLocal[c] = <<>>
  BY DEF Python!PyInv, Python!Unserved

LEMMA PyTypeNext ==
  ASSUME Python!PyInv, Python!PyNext
  PROVE  Python!PyTypeOK'
<1> USE DEF Python!PyTypeOK, Python!Reply, Python!Release
<1> Python!PyTypeOK
  BY DEF Python!PyInv
<1>1. ASSUME NEW c \in GreetingClients, NEW q \in GreetingRequests[c], Python!Arrive(c, q)
      PROVE  Python!PyTypeOK'
  BY <1>1 DEF Python!Arrive
<1>2. ASSUME NEW c \in GreetingClients,
             \/ Python!RefuseRequest(c) \/ Python!Drop(c) \/ Python!Acquire(c)
             \/ Python!HandlerFails(c) \/ Python!ReportNext(c) \/ Python!ReportAndRelease(c)
      PROVE  Python!PyTypeOK'
  BY <1>2 DEF Python!RefuseRequest, Python!Drop, Python!Acquire, Python!HandlerFails, Python!Handling,
              Python!ReportNext, Python!ReportAndRelease
<1>3. ASSUME NEW c \in GreetingClients, Python!Count(c) \/ Python!StoreAndRelease(c)
      PROVE  Python!PyTypeOK'
  <2>1. Python!Handler(c) \in {"handle_say_hello", "handle_say_goodbye"}
    BY <1>3, PyHolder, PyHandlerRouted DEF Python!Count, Python!Handling, Python!StoreAndRelease
  <2>2. /\ globals' = [f \in DOMAIN Python!Reset |-> globals'[f]]
        /\ globals'._greeting_count \in Nat /\ globals'._farewell_count \in Nat
    BY <1>3, <2>1, PyGlobalsNext DEF Python!Count, Python!StoreAndRelease
  <2> QED
    BY <1>3, <2>2 DEF Python!Count, Python!Handling, Python!StoreAndRelease
<1> QED
  BY <1>1, <1>2, <1>3 DEF Python!PyNext, Python!Serve

LEMMA PyHolderNext ==
  ASSUME Python!PyInv, Python!PyNext
  PROVE  Python!HolderIsAlone'
<1> DEFINE H(c) == pyPc[c] \in {"locked", "counted"} =>
             /\ lock = {c} /\ Python!handle_request(pyRequest[c]) = 0
             /\ pyPc[c] = "counted" => pyRequest[c].path = "/action" /\ Python!Accepts(pyRequest[c])
             /\ IF pyRequest[c].path = "/action" THEN pyLocal[c] = <<>>
                ELSE \E n \in 0 .. Len(Python!Reported) :
                       pyLocal[c] = [i \in 1 .. n |-> globals[Python!Reported[i]]]
<1> /\ \A c \in GreetingClients : H(c)
    /\ pyPc \in [GreetingClients -> {"idle", "serving", "dropped", "locked", "counted", "done"}]
    /\ pyRequest = [c \in GreetingClients |-> pyRequest[c]]
    /\ pyLocal = [c \in GreetingClients |-> pyLocal[c]]
  BY DEF Python!PyInv, Python!HolderIsAlone, Python!PyTypeOK
<1> USE DEF Python!Reply, Python!Release
<1>1. ASSUME NEW d \in GreetingClients, pyPc'[d] = pyPc[d], lock' = lock, globals' = globals,
             pyRequest'[d] = pyRequest[d], pyLocal'[d] = pyLocal[d]
      PROVE  H(d)'
  <2>1. /\ Python!handle_request(pyRequest[d])' = Python!handle_request(pyRequest[d])
        /\ Python!Accepts(pyRequest[d])' <=> Python!Accepts(pyRequest[d])
    <3> HIDE DEF H
    <3> QED
      BY <1>1 DEF Python!handle_request, Python!Accepts
  <2>2. \A n : [i \in 1 .. n |-> globals'[Python!Reported[i]]]
              = [i \in 1 .. n |-> globals[Python!Reported[i]]]
    BY <1>1
  <2> QED
    BY <1>1, <2>1, <2>2
<1>2. ASSUME NEW c \in GreetingClients, NEW q \in GreetingRequests[c], Python!Arrive(c, q)
      PROVE  \A d \in GreetingClients : H(d)'
  <2>1. H(c)'
    BY <1>2 DEF Python!Arrive
  <2>2. \A d \in GreetingClients \ {c} : pyPc'[d] = pyPc[d] /\ pyRequest'[d] = pyRequest[d]
    BY <1>2 DEF Python!Arrive
  <2> HIDE DEF H
  <2> QED
    BY <1>1, <1>2, <2>1, <2>2 DEF Python!Arrive
<1>3. ASSUME NEW c \in GreetingClients, Python!RefuseRequest(c) \/ Python!Drop(c)
      PROVE  \A d \in GreetingClients : H(d)'
  <2>1. H(c)'
    BY <1>3 DEF Python!RefuseRequest, Python!Drop
  <2>2. \A d \in GreetingClients \ {c} : pyPc'[d] = pyPc[d]
    BY <1>3 DEF Python!RefuseRequest, Python!Drop
  <2> HIDE DEF H
  <2> QED
    BY <1>1, <1>3, <2>1, <2>2 DEF Python!RefuseRequest, Python!Drop
<1>4. ASSUME NEW c \in GreetingClients,
             pyPc[c] \in {"locked", "counted"} \/ lock = {},
             \A d \in GreetingClients \ {c} : pyPc'[d] = pyPc[d], H(c)'
      PROVE  \A d \in GreetingClients : H(d)'
  BY <1>4
<1>5. ASSUME NEW c \in GreetingClients, Python!Acquire(c)
      PROVE  H(c)'
  <2>1. pyLocal[c] = <<>>
    BY <1>5, PyWaiting DEF Python!Acquire
  <2>2. <<>> = [i \in 1 .. 0 |-> globals[Python!Reported[i]]] /\ 0 \in 0 .. Len(Python!Reported)
    BY PyReported
  <2>3. /\ pyPc'[c] = "locked" /\ lock' = {c} /\ Python!handle_request(pyRequest[c])' = 0
        /\ pyLocal'[c] = <<>> /\ globals' = globals
    BY <1>5, <2>1 DEF Python!Acquire, Python!handle_request
  <2> QED
    BY <2>2, <2>3
<1>6. ASSUME NEW c \in GreetingClients, Python!Count(c)
      PROVE  H(c)'
  BY <1>6 DEF Python!Count, Python!Handling, Python!handle_request, Python!Accepts
<1>7. ASSUME NEW c \in GreetingClients,
             Python!HandlerFails(c) \/ Python!StoreAndRelease(c) \/ Python!ReportAndRelease(c)
      PROVE  pyPc[c] \in {"locked", "counted"} /\ H(c)'
  BY <1>7 DEF Python!HandlerFails, Python!Handling, Python!StoreAndRelease, Python!ReportAndRelease
<1>8. ASSUME NEW c \in GreetingClients, Python!ReportNext(c)
      PROVE  H(c)'
  <2>1. pyPc[c] = "locked" /\ pyRequest[c].path = "/state"
    BY <1>8 DEF Python!ReportNext
  <2>2. PICK n \in 0 .. Len(Python!Reported) :
          pyLocal[c] = [i \in 1 .. n |-> globals[Python!Reported[i]]]
    BY <2>1
  <2>3. n \in Nat /\ n < Len(Python!Reported)
    BY <1>8, <2>2, CopiedOneMore, PyReported DEF Python!ReportNext
  <2>4. pyLocal'[c] = [i \in 1 .. n + 1 |-> globals[Python!Reported[i]]]
    <3>1. Len(pyLocal[c]) = n
      BY <2>2, <2>3
    <3> QED
      BY <1>8, <2>2, <2>3, <3>1, CopiedOneMore DEF Python!ReportNext
  <2>5. n + 1 \in 0 .. Len(Python!Reported)
    BY <2>3, PyReported
  <2>6. /\ pyPc' = pyPc /\ lock' = lock /\ pyRequest' = pyRequest /\ globals' = globals
        /\ lock = {c} /\ Python!handle_request(pyRequest[c])' = 0
    BY <1>8, <2>1 DEF Python!ReportNext, Python!handle_request
  <2> QED
    BY <2>1, <2>4, <2>5, <2>6
<1>9. ASSUME NEW c \in GreetingClients, Python!Serve(c)
      PROVE  \A d \in GreetingClients : H(d)'
  <2>1. \A d \in GreetingClients \ {c} : pyPc'[d] = pyPc[d]
    BY <1>9 DEF Python!Serve, Python!RefuseRequest, Python!Drop, Python!Acquire,
                Python!HandlerFails, Python!Count, Python!StoreAndRelease, Python!ReportNext, Python!ReportAndRelease
  <2>2. CASE Python!RefuseRequest(c) \/ Python!Drop(c)
    BY <1>3, <2>2
  <2>3. CASE ~(Python!RefuseRequest(c) \/ Python!Drop(c))
    <3>1. pyPc[c] \in {"locked", "counted"} \/ lock = {}
      BY <1>7, <1>9, <2>3 DEF Python!Serve, Python!Acquire, Python!Count, Python!Handling,
                              Python!ReportNext
    <3>2. H(c)'
      BY <1>5, <1>6, <1>7, <1>8, <1>9, <2>3 DEF Python!Serve
    <3> HIDE DEF H
    <3> QED
      BY <1>4, <2>1, <3>1, <3>2
  <2> QED
    BY <2>2, <2>3
<1>10. \A d \in GreetingClients : H(d)'
  BY <1>2, <1>9 DEF Python!PyNext
<1> QED
  BY <1>10 DEF Python!HolderIsAlone

LEMMA PyUnservedNext ==
  ASSUME Python!PyInv, Python!PyNext
  PROVE  Python!Unserved'
<1> USE DEF Python!Unserved, Python!PyTypeOK, Python!Reply
<1> Python!PyTypeOK /\ Python!Unserved
  BY DEF Python!PyInv
<1>1. ASSUME NEW c \in GreetingClients, NEW q \in GreetingRequests[c], Python!Arrive(c, q)
      PROVE  Python!Unserved'
  BY <1>1 DEF Python!Arrive
<1>2. ASSUME NEW c \in GreetingClients,
             \/ Python!RefuseRequest(c) \/ Python!Drop(c)
             \/ Python!Acquire(c) \/ Python!HandlerFails(c)
      PROVE  Python!Unserved'
  BY <1>2 DEF Python!RefuseRequest, Python!Drop, Python!Acquire, Python!HandlerFails,
              Python!Handling
<1>3. ASSUME NEW c \in GreetingClients,
             \/ Python!Count(c) \/ Python!StoreAndRelease(c)
             \/ Python!ReportNext(c) \/ Python!ReportAndRelease(c)
      PROVE  Python!Unserved'
  BY <1>3 DEF Python!Count, Python!Handling, Python!StoreAndRelease, Python!ReportNext,
              Python!ReportAndRelease
<1> QED
  BY <1>1, <1>2, <1>3 DEF Python!PyNext, Python!Serve

LEMMA PyInvNext ==
  ASSUME Python!PyInv, Python!PyNext
  PROVE  Python!PyInv'
  BY PyTypeNext, PyHolderNext, PyUnservedNext DEF Python!PyInv

LEMMA PyInvStutter ==
  ASSUME Python!PyInv, UNCHANGED pyVars
  PROVE  Python!PyInv'
<1>1. Python!PyTypeOK' /\ Python!Unserved'
  BY DEF pyVars, Python!PyInv, Python!PyTypeOK, Python!Unserved
<1>2. ASSUME NEW c \in GreetingClients, pyPc[c] \in {"locked", "counted"}
      PROVE  /\ lock' = {c} /\ Python!handle_request(pyRequest[c])' = 0
             /\ pyPc[c] = "counted" => pyRequest[c].path = "/action" /\ Python!Accepts(pyRequest[c])'
             /\ IF pyRequest[c].path = "/action" THEN pyLocal[c] = <<>>
                ELSE \E n \in 0 .. Len(Python!Reported) :
                       pyLocal[c] = [i \in 1 .. n |-> globals'[Python!Reported[i]]]
  <2>1. /\ lock = {c} /\ Python!handle_request(pyRequest[c]) = 0
        /\ pyPc[c] = "counted" => pyRequest[c].path = "/action" /\ Python!Accepts(pyRequest[c])
        /\ IF pyRequest[c].path = "/action" THEN pyLocal[c] = <<>>
           ELSE \E n \in 0 .. Len(Python!Reported) :
                  pyLocal[c] = [i \in 1 .. n |-> globals[Python!Reported[i]]]
    BY <1>2 DEF Python!PyInv, Python!HolderIsAlone
  <2>2. /\ Python!handle_request(pyRequest[c])' = Python!handle_request(pyRequest[c])
        /\ Python!Accepts(pyRequest[c])' <=> Python!Accepts(pyRequest[c])
        /\ lock' = lock
    BY DEF pyVars, Python!handle_request, Python!Accepts
  <2>3. globals' = globals
    BY DEF pyVars
  <2> QED
    BY <2>1, <2>2, <2>3
<1>3. Python!HolderIsAlone'
  BY <1>2 DEF pyVars, Python!HolderIsAlone
<1> QED
  BY <1>1, <1>3 DEF Python!PyInv

-----------------------------------------------------------------------------
(***************************************************************************)
(* Python: each step is a step of the contract, or none.                   *)
(***************************************************************************)

PyHandlers == {"handle_say_hello", "handle_say_goodbye"}

PyTyped(g) ==
  /\ g = [f \in DOMAIN Python!Reset |-> g[f]]
  /\ g["_greeting_count"] \in Nat /\ g["_farewell_count"] \in Nat

\* g with n greetings and m farewells taken off the counts.
PyTakenOff(g, n, m) ==
  [f \in DOMAIN Python!Reset |-> IF f = "_greeting_count" THEN g[f] - n
                                 ELSE IF f = "_farewell_count" THEN g[f] - m
                                 ELSE g[f]]

PyOne(h, k) == IF h = k THEN 1 ELSE 0

\* g without the call of h that is under way.
PyWithout(g, h) ==
  PyTakenOff(g, PyOne(h, "handle_say_hello"), PyOne(h, "handle_say_goodbye"))

\* g after the two assignments of h.
PyRaised(g, h) == [g EXCEPT ![Python!CountOf[h]] = @ + 1]
PyStored(g, h, q) == [g EXCEPT ![Python!TextOf[h]] = Python!Text(h, q)]

LEMMA PyStates ==
  ASSUME NEW g, PyTyped(g), NEW h \in PyHandlers, NEW q
  PROVE  /\ PyTakenOff(g, 0, 0) = g
         /\ PyWithout(PyRaised(g, h), h) = g
         /\ Python!AppliedTo(h, q, PyWithout(g, h)) = PyStored(g, h, q)
         /\ PyTyped(PyStored(g, h, q))
         /\ PyStored(g, h, q)[Python!CountOf[h]] = g[Python!CountOf[h]]
<1>1. PICK gc, gt, fc, ft, D :
        /\ D = {"_greeting_count", "_last_greeting", "_farewell_count", "_last_farewell"}
        /\ gc = g["_greeting_count"] /\ gt = g["_last_greeting"]
        /\ fc = g["_farewell_count"] /\ ft = g["_last_farewell"]
  OBVIOUS
<1>2. DOMAIN Python!Reset = D /\ g = [f \in D |-> g[f]] /\ gc \in Nat /\ fc \in Nat
  BY <1>1, PyNames DEF PyTyped
<1>3. PyTakenOff(g, 0, 0) = g
  BY <1>1, <1>2 DEF PyTakenOff
<1>4. PICK t : t = Python!Text(h, q)
  OBVIOUS
<1>5. CASE h = "handle_say_hello"
  <2>1. /\ Python!CountOf[h] = "_greeting_count" /\ Python!TextOf[h] = "_last_greeting"
        /\ PyOne(h, "handle_say_hello") = 1 /\ PyOne(h, "handle_say_goodbye") = 0
    BY <1>5, PyNames DEF PyOne
  <2>2. PyWithout([g EXCEPT !["_greeting_count"] = @ + 1], h) = g
    BY <1>1, <1>2, <2>1 DEF PyWithout, PyTakenOff
  <2>3. [PyWithout(g, h) EXCEPT !["_greeting_count"] = @ + 1, !["_last_greeting"] = t]
          = [g EXCEPT !["_last_greeting"] = t]
    <3>1. PICK w : w = PyWithout(g, h)
      OBVIOUS
    <3>2. /\ w = [f \in D |-> w[f]] /\ w["_greeting_count"] = gc - 1
          /\ \A f \in D : f # "_greeting_count" => w[f] = g[f]
      BY <1>1, <1>2, <2>1, <3>1 DEF PyWithout, PyTakenOff
    <3>3. w["_greeting_count"] + 1 = g["_greeting_count"]
      BY <1>1, <1>2, <3>2
    <3>4. [w EXCEPT !["_greeting_count"] = @ + 1, !["_last_greeting"] = t] = [g EXCEPT !["_last_greeting"] = t]
      BY <1>1, <1>2, <3>2, <3>3
    <3> QED
      BY <3>1, <3>4
  <2>4. /\ PyTyped([g EXCEPT !["_last_greeting"] = t])
        /\ [g EXCEPT !["_last_greeting"] = t]["_greeting_count"] = gc
    BY <1>1, <1>2 DEF PyTyped
  <2> QED
    BY <1>1, <1>3, <1>4, <2>1, <2>2, <2>3, <2>4 DEF Python!AppliedTo, PyRaised, PyStored
<1>6. CASE h = "handle_say_goodbye"
  <2>1. /\ Python!CountOf[h] = "_farewell_count" /\ Python!TextOf[h] = "_last_farewell"
        /\ PyOne(h, "handle_say_hello") = 0 /\ PyOne(h, "handle_say_goodbye") = 1
    BY <1>6, PyNames DEF PyOne
  <2>2. PyWithout([g EXCEPT !["_farewell_count"] = @ + 1], h) = g
    BY <1>1, <1>2, <2>1 DEF PyWithout, PyTakenOff
  <2>3. [PyWithout(g, h) EXCEPT !["_farewell_count"] = @ + 1, !["_last_farewell"] = t]
          = [g EXCEPT !["_last_farewell"] = t]
    <3>1. PICK w : w = PyWithout(g, h)
      OBVIOUS
    <3>2. /\ w = [f \in D |-> w[f]] /\ w["_farewell_count"] = fc - 1
          /\ \A f \in D : f # "_farewell_count" => w[f] = g[f]
      BY <1>1, <1>2, <2>1, <3>1 DEF PyWithout, PyTakenOff
    <3>3. w["_farewell_count"] + 1 = g["_farewell_count"]
      BY <1>1, <1>2, <3>2
    <3>4. [w EXCEPT !["_farewell_count"] = @ + 1, !["_last_farewell"] = t] = [g EXCEPT !["_last_farewell"] = t]
      BY <1>1, <1>2, <3>2, <3>3
    <3> QED
      BY <3>1, <3>4
  <2>4. /\ PyTyped([g EXCEPT !["_last_farewell"] = t])
        /\ [g EXCEPT !["_last_farewell"] = t]["_farewell_count"] = fc
    BY <1>1, <1>2 DEF PyTyped
  <2> QED
    BY <1>1, <1>3, <1>4, <2>1, <2>2, <2>3, <2>4 DEF Python!AppliedTo, PyRaised, PyStored
<1> QED
  BY <1>5, <1>6 DEF PyHandlers

PyCounted == {c \in GreetingClients : pyPc[c] = "counted"}

\* What a state read may report, with no handler under way and with one.
PyCommits ==
  /\ PyCounted = {} => Python!CommittedState = PyTakenOff(globals, 0, 0)
  /\ \A c \in GreetingClients :
       PyCounted = {c} /\ Python!Handler(c) \in PyHandlers =>
         Python!CommittedState = PyWithout(globals, Python!Handler(c))

LEMMA PyCommitted == PyCommits
<1> DEFINE N(f) == Cardinality({c \in PyCounted : Python!CountOf[Python!Handler(c)] = f})
<1>1. Python!CommittedState = PyTakenOff(globals, N("_greeting_count"), N("_farewell_count"))
  <2>1. \A f : Python!Cardinality(Python!Raised(f)) = N(f)
    <3>1. \A f : Python!Raised(f) = {c \in PyCounted : Python!CountOf[Python!Handler(c)] = f}
      BY DEF PyCounted, Python!Raised
    <3> QED
      BY <3>1, PyCardinality
  <2> HIDE DEF N
  <2> QED
    BY <2>1 DEF Python!CommittedState, PyTakenOff
<1>2. ASSUME PyCounted = {} PROVE \A f : N(f) = 0
  BY <1>2, SingletonCount
<1>3. ASSUME NEW c \in GreetingClients, PyCounted = {c}, Python!Handler(c) \in PyHandlers
      PROVE  /\ N("_greeting_count") = PyOne(Python!Handler(c), "handle_say_hello")
             /\ N("_farewell_count") = PyOne(Python!Handler(c), "handle_say_goodbye")
  <2>1. \A f : {d \in PyCounted : Python!CountOf[Python!Handler(d)] = f}
               = IF Python!CountOf[Python!Handler(c)] = f THEN {c} ELSE {}
    BY <1>3
  <2>2. \A f : N(f) = IF Python!CountOf[Python!Handler(c)] = f THEN 1 ELSE 0
    BY <2>1, SingletonCount
  <2> HIDE DEF N
  <2> QED
    BY <1>3, <2>2, PyNames DEF PyOne, PyHandlers
<1> HIDE DEF N
<1> QED
  BY <1>1, <1>2, <1>3 DEF PyCommits, PyWithout

LEMMA PyCommittedNext == PyCommits'
  BY PyCommitted, PTL

LEMMA PyInitMaps == Python!PyInit => Python!Contract!ContractInit
<1> SUFFICES ASSUME Python!PyInit PROVE Python!Contract!ContractInit
  OBVIOUS
<1>1. PyCounted = {} /\ globals = Python!Reset
  BY DEF Python!PyInit, PyCounted
<1>2. PyTyped(Python!Reset)
  BY DEF PyTyped, Python!Reset
<1>3. Python!CommittedState = Python!Reset
  BY <1>1, <1>2, PyCommitted, PyStates DEF PyCommits, PyHandlers
<1> QED
  BY <1>3 DEF Python!PyInit, Python!Contract!ContractInit

\* The committed state while no handler is between its two assignments.
LEMMA PyNoneCounted ==
  ASSUME PyTyped(globals), PyCounted = {}
  PROVE  Python!CommittedState = globals
  BY PyCommitted, PyStates DEF PyCommits, PyHandlers

LEMMA PyKept ==
  ASSUME globals' = globals, PyCounted' = PyCounted,
         \A c \in PyCounted : Python!Handler(c)' = Python!Handler(c)
  PROVE  Python!CommittedState' = Python!CommittedState
<1>1. \A f : Python!Raised(f)' = Python!Raised(f)
  BY DEF Python!Raised, PyCounted
<1> QED
  BY <1>1 DEF Python!CommittedState

LEMMA PyTypedGlobals ==
  ASSUME Python!PyInv PROVE PyTyped(globals)
  BY DEF Python!PyInv, Python!PyTypeOK, PyTyped

\* A request that has been sent, has not been answered and was let through.
LEMMA PyServed ==
  ASSUME Python!PyInv, NEW c \in GreetingClients,
         pyPc[c] \in {"serving", "locked", "counted"}
  PROVE  /\ pyRequest[c] # NoRequest /\ pyAnswer[c] = NoAnswer
         /\ pyPc[c] # "serving" => Python!Contract!HttpStatus(pyRequest[c]) = 200
<1>1. pyRequest[c] # NoRequest /\ pyAnswer[c] = NoAnswer
  BY ContainerAssumption DEF Python!PyInv, Python!PyTypeOK, Python!Unserved
<1>2. pyPc[c] # "serving" => Python!handle_request(pyRequest[c]) = 0
  BY DEF Python!PyInv, Python!HolderIsAlone
<1> QED
  BY <1>1, <1>2, PyStatus DEF Python!Raises

\* A step that sends, refuses, waits for the lock or reads part of the state.
LEMMA PyQuiet ==
  ASSUME Python!PyInv, NEW c \in GreetingClients,
         pyPc[c] # "counted", pyPc'[c] # "counted",
         \A d \in GreetingClients \ {c} : pyPc'[d] = pyPc[d] /\ pyRequest'[d] = pyRequest[d],
         globals' = globals
  PROVE  Python!CommittedState' = Python!CommittedState
<1>1. PyCounted' = PyCounted /\ c \notin PyCounted
  BY DEF PyCounted
<1>2. \A d \in PyCounted : Python!Handler(d)' = Python!Handler(d)
  <2>1. \A d \in PyCounted : pyRequest'[d] = pyRequest[d]
    BY <1>1 DEF PyCounted
  <2> QED
    BY <2>1 DEF Python!Handler
<1> QED
  BY <1>1, <1>2, PyKept

LEMMA PySends ==
  ASSUME Python!PyInv, NEW c \in GreetingClients, NEW q \in GreetingRequests[c],
         Python!Arrive(c, q)
  PROVE  Python!Contract!Send(c, q)
<1>1. /\ pyPc[c] = "idle" /\ pyPc'[c] = "serving" /\ globals' = globals
      /\ \A d \in GreetingClients \ {c} : pyPc'[d] = pyPc[d] /\ pyRequest'[d] = pyRequest[d]
  BY DEF Python!Arrive, Python!PyInv, Python!PyTypeOK
<1>2. Python!CommittedState' = Python!CommittedState
  BY <1>1, PyQuiet
<1> QED
  BY <1>2 DEF Python!Arrive, Python!PyInv, Python!PyTypeOK, Python!Contract!Send

LEMMA PyRefuses ==
  ASSUME Python!PyInv, NEW c \in GreetingClients, Python!RefuseRequest(c)
  PROVE  Python!Contract!Refuse(c)
<1>1. /\ pyPc[c] = "serving" /\ pyPc'[c] = "done" /\ globals' = globals
      /\ \A d \in GreetingClients \ {c} : pyPc'[d] = pyPc[d] /\ pyRequest'[d] = pyRequest[d]
  BY DEF Python!RefuseRequest, Python!Reply, Python!PyInv, Python!PyTypeOK
<1>2. Python!CommittedState' = Python!CommittedState
  BY <1>1, PyQuiet
<1>3. /\ Python!Contract!HttpStatus(pyRequest[c]) = Python!handle_request(pyRequest[c])
      /\ Python!Contract!HttpStatus(pyRequest[c]) # 200
  BY PyStatus DEF Python!RefuseRequest
<1> QED
  BY <1>1, <1>2, <1>3, PyServed DEF Python!RefuseRequest, Python!Reply,
       Python!Contract!Refuse, Python!Contract!Answer

LEMMA PyFails ==
  ASSUME Python!PyInv, NEW c \in GreetingClients, Python!HandlerFails(c)
  PROVE  Python!Contract!Fail(c)
<1>1. /\ pyPc[c] = "locked" /\ pyPc'[c] = "done" /\ globals' = globals
      /\ pyRequest[c].path = "/action"
      /\ \A d \in GreetingClients \ {c} : pyPc'[d] = pyPc[d] /\ pyRequest'[d] = pyRequest[d]
  BY DEF Python!HandlerFails, Python!Handling, Python!Reply, Python!PyInv, Python!PyTypeOK
<1>2. Python!CommittedState' = Python!CommittedState
  BY <1>1, PyQuiet
<1>3. Python!Handler(c) \in Python!Contract!Routes(pyRequest[c])
  BY <1>1, PyHolder, PyHandlerRouted
<1> QED
  BY <1>1, <1>2, <1>3, PyServed DEF Python!HandlerFails, Python!Handling, Python!Reply,
       Python!Contract!Fail, Python!Contract!Answer

\* What was read with the lock held is the whole state.
LEMMA PyReads ==
  ASSUME Python!PyInv, NEW c \in GreetingClients, Python!ReportAndRelease(c)
  PROVE  Python!Contract!Read(c)
<1>1. /\ pyPc[c] = "locked" /\ pyPc'[c] = "done" /\ globals' = globals
      /\ Len(pyLocal[c]) = 4
      /\ \A d \in GreetingClients \ {c} : pyPc'[d] = pyPc[d] /\ pyRequest'[d] = pyRequest[d]
  BY PyReported DEF Python!ReportAndRelease, Python!Reply, Python!PyInv, Python!PyTypeOK
<1>2. Python!CommittedState' = Python!CommittedState
  BY <1>1, PyQuiet
<1>3. PyCounted = {}
  BY <1>1, PyHolder DEF PyCounted
<1>4. Python!CommittedState = globals
  BY <1>3, PyTypedGlobals, PyNoneCounted
<1>5. pyRequest[c].path = "/state" /\ pyLocal[c] = [i \in 1 .. 4 |-> globals[Python!Reported[i]]]
  <2>1. pyRequest[c].path # "/action"
    <3>1. Len(<<>>) # 4
      OBVIOUS
    <3> QED
      BY <1>1, <3>1 DEF Python!PyInv, Python!HolderIsAlone
  <2>2. pyRequest[c].path = "/state"
    BY <1>1, <2>1, PyHolder, PyLetsThrough
  <2>3. PICK n \in 0 .. Len(Python!Reported) :
          pyLocal[c] = [i \in 1 .. n |-> globals[Python!Reported[i]]]
    BY <1>1, <2>1 DEF Python!PyInv, Python!HolderIsAlone
  <2>4. n \in Nat
    BY <2>3, PyReported
  <2>5. n = 4
    BY <1>1, <2>3, <2>4, CopiedOneMore
  <2> QED
    BY <2>2, <2>3, <2>5
<1>6. [f \in DOMAIN Python!Reset |->
         pyLocal[c][CHOOSE i \in 1 .. Len(Python!Reported) : Python!Reported[i] = f]]
        = globals
  <2>1. ASSUME NEW f \in DOMAIN Python!Reset
        PROVE  pyLocal[c][CHOOSE i \in 1 .. Len(Python!Reported) : Python!Reported[i] = f]
                 = globals[f]
    <3>1. \E i \in 1 .. Len(Python!Reported) : Python!Reported[i] = f
      BY PyNames, PyReported
    <3>2. PICK j : j = CHOOSE i \in 1 .. Len(Python!Reported) : Python!Reported[i] = f
      OBVIOUS
    <3>3. j \in 1 .. 4 /\ Python!Reported[j] = f
      BY <3>1, <3>2, PyReported
    <3> QED
      BY <1>5, <3>2, <3>3
  <2>2. globals = [f \in DOMAIN Python!Reset |-> globals[f]]
    BY PyTypedGlobals DEF PyTyped
  <2> QED
    BY <2>1, <2>2
<1>7. Python!Contract!Answer(c, [http |-> 200, state |-> globals])
  BY <1>1, <1>6, PyServed DEF Python!ReportAndRelease, Python!Reply, Python!Contract!Answer
<1> QED
  BY <1>1, <1>2, <1>4, <1>5, <1>7, PyServed DEF Python!Contract!Read

LEMMA PyCounts ==
  ASSUME Python!PyInv, NEW c \in GreetingClients, Python!Count(c)
  PROVE  UNCHANGED Python!Contract!contractVars
<1> DEFINE h == Python!Handler(c)
<1>1. pyPc[c] = "locked" /\ pyRequest[c].path = "/action" /\ pyRequest' = pyRequest
      /\ pyAnswer' = pyAnswer /\ pyPc' = [pyPc EXCEPT ![c] = "counted"]
      /\ globals' = PyRaised(globals, h)
  BY DEF Python!Count, Python!Handling, PyRaised
<1>2. h \in PyHandlers
  BY <1>1, PyHolder, PyHandlerRouted DEF PyHandlers
<1>3. Python!Handler(c)' = h
  BY <1>1 DEF Python!Handler
<1>4. PyCounted = {} /\ PyCounted' = {c}
  BY <1>1, PyHolder DEF PyCounted, Python!PyInv, Python!PyTypeOK
<1> HIDE DEF h
<1>5. Python!CommittedState = globals
  BY <1>4, PyTypedGlobals, PyNoneCounted
<1>6. Python!CommittedState' = PyWithout(globals', h)
  BY <1>2, <1>3, <1>4, PyCommittedNext DEF PyCommits
<1>7. PyWithout(globals', h) = globals
  BY <1>1, <1>2, PyTypedGlobals, PyStates
<1> QED
  BY <1>1, <1>5, <1>6, <1>7 DEF Python!Contract!contractVars

LEMMA PyStores ==
  ASSUME Python!PyInv, NEW c \in GreetingClients, Python!StoreAndRelease(c)
  PROVE  Python!Contract!Act(c)
<1> DEFINE h == Python!Handler(c)
           q == pyRequest[c]
<1>1. /\ pyPc[c] = "counted" /\ pyRequest' = pyRequest /\ pyPc' = [pyPc EXCEPT ![c] = "done"]
      /\ globals' = PyStored(globals, h, q)
      /\ pyAnswer' = [pyAnswer EXCEPT ![c] =
           [http |-> 200, status |-> 1, handler |-> h,
            data |-> <<Python!Text(h, q), globals[Python!CountOf[h]]>>]]
  BY DEF Python!StoreAndRelease, Python!Reply, PyStored
<1>2. /\ q.path = "/action" /\ Python!Accepts(q)
      /\ h \in Python!Contract!Routes(q) /\ h \in PyHandlers
  BY <1>1, PyHolder, PyHandlerRouted DEF Python!PyInv, Python!HolderIsAlone, PyHandlers
<1>3. q # NoRequest /\ pyAnswer[c] = NoAnswer /\ Python!Contract!HttpStatus(q) = 200
  BY <1>1, PyServed
<1>4. PyCounted = {c} /\ PyCounted' = {}
  BY <1>1, PyHolder DEF PyCounted, Python!PyInv, Python!PyTypeOK
<1> HIDE DEF h, q
<1>5. Python!CommittedState = PyWithout(globals, h)
  BY <1>2, <1>4, PyCommitted DEF PyCommits, h
<1>6. Python!CommittedState' = globals'
  <2>1. PyTyped(globals')
    BY <1>1, <1>2, PyTypedGlobals, PyStates
  <2>2. PyTakenOff(globals', 0, 0) = globals'
    BY <1>2, <2>1, PyStates
  <2> QED
    BY <1>4, <2>2, PyCommittedNext DEF PyCommits
<1>7. Python!CommittedState' = Python!AppliedTo(h, q, Python!CommittedState)
  BY <1>1, <1>2, <1>5, <1>6, PyTypedGlobals, PyStates
<1>8. Python!DataOf(h, q, Python!CommittedState')
        = <<Python!Text(h, q), globals[Python!CountOf[h]]>>
  BY <1>1, <1>2, <1>6, PyTypedGlobals, PyStates DEF Python!DataOf
<1>9. Python!Contract!Answer(c,
        [http |-> 200, status |-> 1, handler |-> h,
         data |-> Python!DataOf(h, q, Python!CommittedState')])
  BY <1>1, <1>3, <1>8 DEF Python!Contract!Answer, q
<1> QED
  BY <1>2, <1>3, <1>7, <1>9 DEF Python!Contract!Act, q

LEMMA PyHidden ==
  ASSUME Python!PyInv,
         \/ \E c \in GreetingClients :
              Python!Drop(c) \/ Python!Acquire(c) \/ Python!ReportNext(c)
         \/ UNCHANGED pyVars
  PROVE  UNCHANGED Python!Contract!contractVars
<1>1. /\ PyCounted' = PyCounted /\ globals' = globals /\ pyRequest' = pyRequest
      /\ pyAnswer' = pyAnswer
  BY DEF Python!Drop, Python!Acquire, Python!ReportNext, pyVars, PyCounted,
         Python!PyInv, Python!PyTypeOK
<1>2. \A c : Python!Handler(c)' = Python!Handler(c)
  BY <1>1 DEF Python!Handler
<1> QED
  BY <1>1, <1>2, PyKept DEF Python!Contract!contractVars

LEMMA PyStepMaps ==
  ASSUME Python!PyInv, Python!PyNext \/ UNCHANGED pyVars
  PROVE  [Python!Contract!ContractNext]_(Python!Contract!contractVars)
<1>1. ASSUME NEW c \in GreetingClients, Python!Serve(c)
      PROVE  Python!Contract!Serve(c) \/ UNCHANGED Python!Contract!contractVars
  <2>1. CASE Python!RefuseRequest(c) \/ Python!HandlerFails(c)
               \/ Python!StoreAndRelease(c) \/ Python!ReportAndRelease(c)
    BY <2>1, PyRefuses, PyFails, PyStores, PyReads DEF Python!Contract!Serve
  <2>2. CASE Python!Drop(c) \/ Python!Acquire(c) \/ Python!ReportNext(c)
    BY <2>2, PyHidden
  <2>3. CASE Python!Count(c)
    BY <2>3, PyCounts
  <2> QED
    BY <1>1, <2>1, <2>2, <2>3 DEF Python!Serve
<1>2. ASSUME NEW c \in GreetingClients, NEW q \in GreetingRequests[c], Python!Arrive(c, q)
      PROVE  Python!Contract!Send(c, q)
  BY <1>2, PySends
<1>3. CASE UNCHANGED pyVars
  BY <1>3, PyHidden
<1> QED
  BY <1>1, <1>2, <1>3 DEF Python!PyNext, Python!Contract!ContractNext

-----------------------------------------------------------------------------
(***************************************************************************)
(* Go: routing, and the Extension's fields.                                *)
(***************************************************************************)

GoHandlers == {"processSayHello", "processSayGoodbye"}

LEMMA GoNames ==
  /\ DOMAIN Go!Zero = {"greetingCount", "lastGreeting", "farewellCount", "lastFarewell"}
  /\ Go!CountOf["processSayHello"] = "greetingCount"
  /\ Go!CountOf["processSayGoodbye"] = "farewellCount"
  /\ Go!TextOf["processSayHello"] = "lastGreeting"
  /\ Go!TextOf["processSayGoodbye"] = "lastFarewell"
  BY DEF Go!Zero, Go!CountOf, Go!TextOf

LEMMA GoFields ==
  /\ Len(Go!StateFields) = 4
  /\ Go!StateFields[1] = "greetingCount" /\ Go!StateFields[2] = "lastGreeting"
  /\ Go!StateFields[3] = "farewellCount" /\ Go!StateFields[4] = "lastFarewell"
  BY DEF Go!StateFields

\* processAction and processGreeting know the pairs the contract routes.
LEMMA GoRoutes ==
  ASSUME NEW q
  PROVE  /\ Go!Contract!Routes(q) = {}
              <=> q.opType # "GREETING" \/ q.opCommand \notin {"SAY_HELLO", "SAY_GOODBYE"}
         /\ q.opType = "GREETING" /\ q.opCommand = "SAY_HELLO"
              => "processSayHello" \in Go!Contract!Routes(q)
         /\ q.opType = "GREETING" /\ q.opCommand = "SAY_GOODBYE"
              => "processSayGoodbye" \in Go!Contract!Routes(q)
<1>1. \A a, b, h : h \in Go!Contract!Registered(a, b) <=>
         /\ a = "GREETING"
         /\ \/ b = "SAY_HELLO" /\ h = "processSayHello"
            \/ b = "SAY_GOODBYE" /\ h = "processSayGoodbye"
  <2>1. PICK r1, r2 : Go!Handlers = {r1, r2}
          /\ r1 = [opType |-> "GREETING", opCommand |-> "SAY_HELLO", handler |-> "processSayHello"]
          /\ r2 = [opType |-> "GREETING", opCommand |-> "SAY_GOODBYE", handler |-> "processSayGoodbye"]
    BY DEF Go!Handlers
  <2>2. /\ r1.opType = "GREETING" /\ r1.opCommand = "SAY_HELLO" /\ r1.handler = "processSayHello"
        /\ r2.opType = "GREETING" /\ r2.opCommand = "SAY_GOODBYE" /\ r2.handler = "processSayGoodbye"
    BY <2>1
  <2>3. \A a, b, h : h \in Go!Contract!Registered(a, b)
           <=> \E r \in {r1, r2} : r.opType = a /\ r.opCommand = b /\ r.handler = h
    BY <2>1 DEF Go!Contract!Registered
  <2> QED
    BY <2>2, <2>3
<1>2. \A a : Go!Contract!Registered(a, "") = {}
  <2>1. \A a, h : h \notin Go!Contract!Registered(a, "")
    BY <1>1
  <2> QED
    BY <2>1
<1> QED
  BY <1>1, <1>2 DEF Go!Contract!Routes

LEMMA GoStatus ==
  ASSUME NEW q
  PROVE  /\ Go!Contract!HttpStatus(q) = IF Go!Refusal(q) = 0 THEN 200 ELSE Go!Refusal(q)
         /\ Go!Refusal(q) # 200
  BY GoRoutes DEF Go!Contract!HttpStatus, Go!Refusal

\* The handler that answers is one the contract routes to, and a modelled one.
LEMMA GoHandlerRouted ==
  ASSUME NEW c, Go!Refusal(goRequest[c]) = 0, goRequest[c].path = "/action"
  PROVE  Go!Handler(c) \in Go!Contract!Routes(goRequest[c]) /\ Go!Handler(c) \in GoHandlers
  BY GoRoutes DEF Go!Handler, Go!Refusal, GoHandlers

-----------------------------------------------------------------------------
(***************************************************************************)
(* Go: the invariant.                                                      *)
(***************************************************************************)

LEMMA GoInitInv == Go!GoInit => Go!GoInv
<1> SUFFICES ASSUME Go!GoInit PROVE Go!GoInv
  OBVIOUS
<1>1. Go!GoTypeOK
  BY DEF Go!GoInit, Go!GoTypeOK, Go!Zero
<1>2. Go!WriterIsAlone /\ Go!ReadersAreCurrent /\ Go!Unserved
  BY DEF Go!GoInit, Go!WriterIsAlone, Go!ReadersAreCurrent, Go!Unserved
<1> QED
  BY <1>1, <1>2 DEF Go!GoInv

\* A handler's step changes one of the four fields, and keeps the counts.
LEMMA GoFieldsNext ==
  ASSUME Go!GoTypeOK, NEW h \in GoHandlers,
         \/ e' = e
         \/ e' = [e EXCEPT ![Go!CountOf[h]] = @ + 1]
         \/ \E x : e' = [e EXCEPT ![Go!TextOf[h]] = x]
  PROVE  /\ e' = [f \in DOMAIN Go!Zero |-> e'[f]]
         /\ e'.greetingCount \in Nat /\ e'.farewellCount \in Nat
  BY GoNames DEF Go!GoTypeOK, GoHandlers

\* Whoever writes was let through and is alone; nobody reads while somebody writes.
LEMMA GoWriter ==
  ASSUME Go!GoInv, NEW c \in GreetingClients, goPc[c] \in {"locked", "counted"}
  PROVE  /\ Go!Refusal(goRequest[c]) = 0 /\ goRequest[c].path = "/action"
         /\ Go!Accepts(goRequest[c]) /\ mu = [writers |-> {c}, readers |-> {}]
         /\ goPc[c] = "counted" => goLocal[c] = <<e[Go!CountOf[Go!Handler(c)]]>>
         /\ \A d \in GreetingClients \ {c} : goPc[d] \notin {"locked", "counted"}
         /\ \A d \in GreetingClients : goPc[d] # "reading"
  BY DEF Go!GoInv, Go!WriterIsAlone, Go!ReadersAreCurrent

LEMMA GoReader ==
  ASSUME Go!GoInv, NEW c \in GreetingClients, goPc[c] = "reading"
  PROVE  /\ Go!Refusal(goRequest[c]) = 0 /\ goRequest[c].path = "/state"
         /\ mu.writers = {} /\ c \in mu.readers
         /\ \E n \in 0 .. 4 : goLocal[c] = [i \in 1 .. n |-> e[Go!StateFields[i]]]
         /\ \A d \in GreetingClients : goPc[d] \notin {"locked", "counted"}
  BY GoFields DEF Go!GoInv, Go!WriterIsAlone, Go!ReadersAreCurrent

LEMMA GoWaiting ==
  ASSUME Go!GoInv, NEW c \in GreetingClients, goPc[c] = "serving"
  PROVE  goLocal[c] = <<>>
  BY DEF Go!GoInv, Go!Unserved

LEMMA GoTypeNext ==
  ASSUME Go!GoInv, Go!GoNext
  PROVE  Go!GoTypeOK'
<1> USE DEF Go!GoTypeOK, Go!Reply
<1> Go!GoTypeOK
  BY DEF Go!GoInv
<1>1. ASSUME NEW c \in GreetingClients, NEW q \in GreetingRequests[c], Go!Arrive(c, q)
      PROVE  Go!GoTypeOK'
  BY <1>1 DEF Go!Arrive
<1>2. ASSUME NEW c \in GreetingClients, Go!RefuseRequest(c) \/ Go!FailHandler(c)
      PROVE  Go!GoTypeOK'
  BY <1>2 DEF Go!RefuseRequest, Go!FailHandler, Go!Routed
<1>3. ASSUME NEW c \in GreetingClients, Go!Lock(c) \/ Go!RLock(c)
      PROVE  Go!GoTypeOK'
  BY <1>3 DEF Go!Lock, Go!RLock, Go!Routed
<1>4. ASSUME NEW c \in GreetingClients, Go!Count(c) \/ Go!StoreAndUnlock(c)
      PROVE  Go!GoTypeOK'
  <2>1. Go!Handler(c) \in GoHandlers
    BY <1>4, GoWriter, GoHandlerRouted DEF Go!Count, Go!StoreAndUnlock
  <2>2. /\ e' = [f \in DOMAIN Go!Zero |-> e'[f]]
        /\ e'.greetingCount \in Nat /\ e'.farewellCount \in Nat
    BY <1>4, <2>1, GoFieldsNext DEF Go!Count, Go!StoreAndUnlock
  <2>3. mu' \in [writers : SUBSET GreetingClients, readers : SUBSET GreetingClients]
    BY <1>4 DEF Go!Count, Go!StoreAndUnlock
  <2> QED
    BY <1>4, <2>2, <2>3 DEF Go!Count, Go!StoreAndUnlock
<1>5. ASSUME NEW c \in GreetingClients, Go!CopyField(c) \/ Go!RUnlock(c)
      PROVE  Go!GoTypeOK'
  BY <1>5 DEF Go!CopyField, Go!RUnlock
<1> QED
  BY <1>1, <1>2, <1>3, <1>4, <1>5 DEF Go!GoNext, Go!Serve

LEMMA GoUnservedNext ==
  ASSUME Go!GoInv, Go!GoNext
  PROVE  Go!Unserved'
<1> USE DEF Go!Unserved, Go!GoTypeOK, Go!Reply
<1> Go!GoTypeOK /\ Go!Unserved
  BY DEF Go!GoInv
<1>1. ASSUME NEW c \in GreetingClients, NEW q \in GreetingRequests[c], Go!Arrive(c, q)
      PROVE  Go!Unserved'
  BY <1>1 DEF Go!Arrive
<1>2. ASSUME NEW c \in GreetingClients,
             Go!RefuseRequest(c) \/ Go!FailHandler(c) \/ Go!Lock(c) \/ Go!RLock(c)
      PROVE  Go!Unserved'
  BY <1>2 DEF Go!RefuseRequest, Go!FailHandler, Go!Lock, Go!RLock, Go!Routed
<1>3. ASSUME NEW c \in GreetingClients,
             Go!Count(c) \/ Go!StoreAndUnlock(c) \/ Go!CopyField(c) \/ Go!RUnlock(c)
      PROVE  Go!Unserved'
  BY <1>3 DEF Go!Count, Go!StoreAndUnlock, Go!CopyField, Go!RUnlock
<1> QED
  BY <1>1, <1>2, <1>3 DEF Go!GoNext, Go!Serve

\* What the invariant says of a goroutine that writes, and of one that reads.
GoWrites(c) ==
  goPc[c] \in {"locked", "counted"} =>
    /\ mu = [writers |-> {c}, readers |-> {}]
    /\ Go!Refusal(goRequest[c]) = 0 /\ goRequest[c].path = "/action" /\ Go!Accepts(goRequest[c])
    /\ goPc[c] = "counted" => goLocal[c] = <<e[Go!CountOf[Go!Handler(c)]]>>

GoReads(c) ==
  goPc[c] = "reading" =>
    /\ mu.writers = {} /\ c \in mu.readers
    /\ Go!Refusal(goRequest[c]) = 0 /\ goRequest[c].path = "/state"
    /\ \E n \in 0 .. Len(Go!StateFields) : goLocal[c] = [i \in 1 .. n |-> e[Go!StateFields[i]]]

GoLocked(c) == GoWrites(c) /\ GoReads(c)

LEMMA GoLockedAll ==
  Go!WriterIsAlone /\ Go!ReadersAreCurrent <=> \A c \in GreetingClients : GoLocked(c)
  BY DEF Go!WriterIsAlone, Go!ReadersAreCurrent, GoLocked, GoWrites, GoReads

\* A client that a step does not serve, where the fields and the writer are kept.
LEMMA GoBystander ==
  ASSUME NEW d, GoLocked(d), goPc'[d] = goPc[d], goRequest'[d] = goRequest[d],
         goLocal'[d] = goLocal[d], e' = e,
         goPc[d] \in {"locked", "counted"} => mu' = mu,
         goPc[d] = "reading" => mu'.writers = {} /\ d \in mu'.readers
  PROVE  GoLocked(d)'
<1>1. GoWrites(d)'
  <2>1. /\ Go!Refusal(goRequest[d])' = Go!Refusal(goRequest[d])
        /\ Go!Accepts(goRequest[d])' <=> Go!Accepts(goRequest[d])
        /\ Go!Handler(d)' = Go!Handler(d)
    BY DEF Go!Refusal, Go!Accepts, Go!Handler
  <2> QED
    BY <2>1 DEF GoLocked, GoWrites
<1>2. GoReads(d)'
  <2>1. Go!Refusal(goRequest[d])' = Go!Refusal(goRequest[d])
    BY DEF Go!Refusal
  <2> QED
    BY <2>1 DEF GoLocked, GoReads
<1> QED
  BY <1>1, <1>2 DEF GoLocked

\* A client with no step inside the lock has nothing to keep.
LEMMA GoOutside ==
  ASSUME NEW d, goPc'[d] \notin {"locked", "counted", "reading"}
  PROVE  GoLocked(d)'
  BY DEF GoLocked, GoWrites, GoReads

LEMMA GoLockedNext ==
  ASSUME Go!GoInv, Go!GoNext
  PROVE  \A d \in GreetingClients : GoLocked(d)'
<1>t. /\ goPc \in [GreetingClients -> {"idle", "serving", "locked", "counted", "reading", "done"}]
      /\ goRequest = [c \in GreetingClients |-> goRequest[c]]
      /\ goLocal = [c \in GreetingClients |-> goLocal[c]]
      /\ mu = [writers |-> mu.writers, readers |-> mu.readers]
  BY DEF Go!GoInv, Go!GoTypeOK
<1>l. \A d \in GreetingClients : GoLocked(d)
  BY GoLockedAll DEF Go!GoInv
<1>1. ASSUME NEW c \in GreetingClients, NEW q \in GreetingRequests[c], Go!Arrive(c, q)
      PROVE  \A d \in GreetingClients : GoLocked(d)'
  <2>1. GoLocked(c)'
    BY <1>t, <1>1, GoOutside DEF Go!Arrive
  <2>2. ASSUME NEW d \in GreetingClients \ {c} PROVE GoLocked(d)'
    <3>1. goPc'[d] = goPc[d] /\ goRequest'[d] = goRequest[d] /\ goLocal' = goLocal /\ e' = e
          /\ mu' = mu
      BY <1>t, <1>1 DEF Go!Arrive
    <3>2. goPc[d] = "reading" => mu.writers = {} /\ d \in mu.readers
      BY <1>l DEF GoLocked, GoReads
    <3> QED
      BY <1>l, <3>1, <3>2, GoBystander
  <2> QED
    BY <2>1, <2>2
<1>2. ASSUME NEW c \in GreetingClients, Go!RefuseRequest(c) \/ Go!FailHandler(c)
      PROVE  \A d \in GreetingClients : GoLocked(d)'
  <2>1. /\ goPc' = [goPc EXCEPT ![c] = "done"] /\ goRequest' = goRequest /\ goLocal' = goLocal
        /\ e' = e /\ mu' = mu
    BY <1>2 DEF Go!RefuseRequest, Go!FailHandler, Go!Reply
  <2>2. GoLocked(c)'
    BY <1>t, <2>1, GoOutside
  <2>3. ASSUME NEW d \in GreetingClients \ {c} PROVE GoLocked(d)'
    <3>1. goPc'[d] = goPc[d]
      BY <1>t, <2>1
    <3>2. goPc[d] = "reading" => mu.writers = {} /\ d \in mu.readers
      BY <1>l DEF GoLocked, GoReads
    <3> QED
      BY <1>l, <2>1, <3>1, <3>2, GoBystander
  <2> QED
    BY <2>2, <2>3
<1>3. ASSUME NEW c \in GreetingClients, Go!Lock(c)
      PROVE  \A d \in GreetingClients : GoLocked(d)'
  <2>1. /\ goPc' = [goPc EXCEPT ![c] = "locked"] /\ goRequest' = goRequest
        /\ mu' = [writers |-> {c}, readers |-> {}] /\ mu.writers = {} /\ mu.readers = {}
        /\ Go!Refusal(goRequest[c]) = 0 /\ goRequest[c].path = "/action" /\ Go!Accepts(goRequest[c])
    BY <1>3, <1>t DEF Go!Lock, Go!Routed
  <2>2. GoLocked(c)'
    <3>1. /\ Go!Refusal(goRequest[c])' = Go!Refusal(goRequest[c])
          /\ Go!Accepts(goRequest[c])' <=> Go!Accepts(goRequest[c])
      BY <2>1 DEF Go!Refusal, Go!Accepts
    <3>2. goPc'[c] = "locked"
      BY <1>t, <2>1
    <3> QED
      BY <2>1, <3>1, <3>2 DEF GoLocked, GoWrites, GoReads
  <2>3. ASSUME NEW d \in GreetingClients \ {c} PROVE GoLocked(d)'
    <3>1. goPc[d] \notin {"locked", "counted", "reading"}
      BY <1>l, <2>1 DEF GoLocked, GoWrites, GoReads
    <3> QED
      BY <1>t, <2>1, <3>1, GoOutside
  <2> QED
    BY <2>2, <2>3
<1>4. ASSUME NEW c \in GreetingClients, goPc[c] \in {"locked", "counted"},
             NEW x, goPc' = [goPc EXCEPT ![c] = x], GoLocked(c)'
      PROVE  \A d \in GreetingClients : GoLocked(d)'
  <2>1. ASSUME NEW d \in GreetingClients \ {c} PROVE GoLocked(d)'
    <3>1. goPc[d] \notin {"locked", "counted", "reading"}
      BY <1>4, GoWriter
    <3> QED
      BY <1>t, <1>4, <3>1, GoOutside
  <2> QED
    BY <1>4, <2>1
<1>5. ASSUME NEW c \in GreetingClients, Go!Count(c)
      PROVE  \A d \in GreetingClients : GoLocked(d)'
  <2>1. /\ goPc[c] = "locked" /\ goPc' = [goPc EXCEPT ![c] = "counted"] /\ mu' = mu
        /\ goRequest' = goRequest
    BY <1>5 DEF Go!Count
  <2>2. /\ Go!Refusal(goRequest[c]) = 0 /\ goRequest[c].path = "/action"
        /\ Go!Accepts(goRequest[c]) /\ mu = [writers |-> {c}, readers |-> {}]
        /\ Go!Handler(c) \in GoHandlers
    BY <2>1, GoWriter, GoHandlerRouted
  <2>3. /\ Go!Refusal(goRequest[c])' = Go!Refusal(goRequest[c])
        /\ Go!Accepts(goRequest[c])' <=> Go!Accepts(goRequest[c])
        /\ Go!Handler(c)' = Go!Handler(c)
    BY <2>1 DEF Go!Refusal, Go!Accepts, Go!Handler
  <2>4. goLocal'[c] = <<e'[Go!CountOf[Go!Handler(c)]]>>
    <3>1. PICK f : f = Go!CountOf[Go!Handler(c)] /\ f \in DOMAIN Go!Zero
      BY <2>2, GoNames DEF GoHandlers
    <3>2. e = [g \in DOMAIN Go!Zero |-> e[g]]
      BY DEF Go!GoInv, Go!GoTypeOK
    <3>3. e'[f] = e[f] + 1 /\ goLocal'[c] = <<e[f] + 1>>
      BY <1>5, <1>t, <3>1, <3>2 DEF Go!Count
    <3> QED
      BY <3>1, <3>3
  <2>5. GoLocked(c)'
    <3>1. goPc'[c] = "counted"
      BY <1>t, <2>1
    <3> QED
      BY <2>1, <2>2, <2>3, <2>4, <3>1 DEF GoLocked, GoWrites, GoReads
  <2> QED
    BY <1>4, <2>1, <2>5
<1>6. ASSUME NEW c \in GreetingClients, Go!StoreAndUnlock(c)
      PROVE  \A d \in GreetingClients : GoLocked(d)'
  <2>1. goPc[c] = "counted" /\ goPc' = [goPc EXCEPT ![c] = "done"]
    BY <1>6 DEF Go!StoreAndUnlock, Go!Reply
  <2>2. GoLocked(c)'
    BY <1>t, <2>1, GoOutside
  <2> QED
    BY <1>4, <2>1, <2>2
<1>7. ASSUME NEW c \in GreetingClients, Go!RLock(c)
      PROVE  \A d \in GreetingClients : GoLocked(d)'
  <2>1. /\ goPc[c] = "serving" /\ goPc' = [goPc EXCEPT ![c] = "reading"] /\ goRequest' = goRequest
        /\ goLocal' = goLocal /\ e' = e /\ mu.writers = {}
        /\ mu'.writers = {} /\ mu'.readers = mu.readers \cup {c}
        /\ Go!Refusal(goRequest[c]) = 0 /\ goRequest[c].path = "/state"
    BY <1>7, <1>t DEF Go!RLock, Go!Routed
  <2>2. GoLocked(c)'
    <3>1. Go!Refusal(goRequest[c])' = Go!Refusal(goRequest[c])
      BY <2>1 DEF Go!Refusal
    <3>2. goPc'[c] = "reading" /\ goLocal'[c] = <<>>
      BY <1>t, <2>1, GoWaiting
    <3>3. /\ 0 \in 0 .. Len(Go!StateFields)
          /\ <<>> = [i \in 1 .. 0 |-> e'[Go!StateFields[i]]]
      BY GoFields
    <3> QED
      BY <2>1, <3>1, <3>2, <3>3 DEF GoLocked, GoWrites, GoReads
  <2>3. ASSUME NEW d \in GreetingClients \ {c} PROVE GoLocked(d)'
    <3>1. goPc'[d] = goPc[d]
      BY <1>t, <2>1
    <3>2. goPc[d] \notin {"locked", "counted"}
      BY <1>l, <2>1 DEF GoLocked, GoWrites
    <3>3. goPc[d] = "reading" => d \in mu.readers
      BY <1>l DEF GoLocked, GoReads
    <3> QED
      BY <1>l, <2>1, <3>1, <3>2, <3>3, GoBystander
  <2> QED
    BY <2>2, <2>3
<1>8. ASSUME NEW c \in GreetingClients, Go!CopyField(c)
      PROVE  \A d \in GreetingClients : GoLocked(d)'
  <2>1. /\ goPc[c] = "reading" /\ goPc' = goPc /\ goRequest' = goRequest /\ e' = e /\ mu' = mu
        /\ \A d \in GreetingClients \ {c} : goLocal'[d] = goLocal[d]
    BY <1>8, <1>t DEF Go!CopyField
  <2>2. /\ Go!Refusal(goRequest[c]) = 0 /\ goRequest[c].path = "/state"
        /\ mu.writers = {} /\ c \in mu.readers
    BY <2>1, GoReader
  <2>3. PICK n \in 0 .. 4 : goLocal[c] = [i \in 1 .. n |-> e[Go!StateFields[i]]]
    BY <2>1, GoReader
  <2>4. Len(goLocal[c]) = n /\ n < 4 /\ n \in Nat
    BY <1>8, <2>3, CopiedOneMore, GoFields DEF Go!CopyField
  <2>5. goLocal'[c] = [i \in 1 .. n + 1 |-> e'[Go!StateFields[i]]]
    <3>1. goLocal'[c] = Append(goLocal[c], e[Go!StateFields[n + 1]])
      BY <1>8, <1>t, <2>4 DEF Go!CopyField
    <3>2. goLocal'[c] = [i \in 1 .. n + 1 |-> e[Go!StateFields[i]]]
      BY <2>3, <2>4, <3>1, CopiedOneMore
    <3> QED
      BY <2>1, <3>2
  <2>6. GoLocked(c)'
    <3>1. Go!Refusal(goRequest[c])' = Go!Refusal(goRequest[c])
      BY <2>1 DEF Go!Refusal
    <3>2. n + 1 \in 0 .. Len(Go!StateFields)
      BY <2>4, GoFields
    <3> QED
      BY <2>1, <2>2, <2>5, <3>1, <3>2 DEF GoLocked, GoWrites, GoReads
  <2>7. ASSUME NEW d \in GreetingClients \ {c} PROVE GoLocked(d)'
    <3>1. goPc[d] = "reading" => mu.writers = {} /\ d \in mu.readers
      BY <1>l DEF GoLocked, GoReads
    <3> QED
      BY <1>l, <2>1, <3>1, GoBystander
  <2> QED
    BY <2>6, <2>7
<1>9. ASSUME NEW c \in GreetingClients, Go!RUnlock(c)
      PROVE  \A d \in GreetingClients : GoLocked(d)'
  <2>1. /\ goPc[c] = "reading" /\ goPc' = [goPc EXCEPT ![c] = "done"] /\ goRequest' = goRequest
        /\ goLocal' = goLocal /\ e' = e
        /\ mu'.writers = mu.writers /\ mu'.readers = mu.readers \ {c}
    BY <1>9, <1>t DEF Go!RUnlock, Go!Reply
  <2>2. GoLocked(c)'
    BY <1>t, <2>1, GoOutside
  <2>3. ASSUME NEW d \in GreetingClients \ {c} PROVE GoLocked(d)'
    <3>1. goPc'[d] = goPc[d] /\ goPc[d] \notin {"locked", "counted"} /\ mu.writers = {}
      BY <1>t, <2>1, GoReader
    <3>2. goPc[d] = "reading" => d \in mu.readers
      BY <1>l DEF GoLocked, GoReads
    <3> QED
      BY <1>l, <2>1, <3>1, <3>2, GoBystander
  <2> QED
    BY <2>2, <2>3
<1> QED
  BY <1>1, <1>2, <1>3, <1>5, <1>6, <1>7, <1>8, <1>9 DEF Go!GoNext, Go!Serve

GoInvIs == Go!GoInv <=> Go!GoTypeOK /\ Go!Unserved /\ \A c \in GreetingClients : GoLocked(c)

LEMMA GoInvParts == GoInvIs
  BY GoLockedAll DEF GoInvIs, Go!GoInv

LEMMA GoInvPartsNext == GoInvIs'
  BY GoInvParts, PTL

LEMMA GoInvNext ==
  ASSUME Go!GoInv, Go!GoNext
  PROVE  Go!GoInv'
  BY GoTypeNext, GoUnservedNext, GoLockedNext, GoInvPartsNext DEF GoInvIs

LEMMA GoInvStutter ==
  ASSUME Go!GoInv, UNCHANGED goVars
  PROVE  Go!GoInv'
<1>1. Go!GoTypeOK' /\ Go!Unserved'
  BY DEF goVars, Go!GoInv, Go!GoTypeOK, Go!Unserved
<1>2. ASSUME NEW d \in GreetingClients PROVE GoLocked(d)'
  <2>1. GoLocked(d)
    BY GoLockedAll DEF Go!GoInv
  <2>2. goPc[d] = "reading" => mu.writers = {} /\ d \in mu.readers
    BY <2>1 DEF GoLocked, GoReads
  <2> QED
    BY <2>1, <2>2, GoBystander DEF goVars
<1> QED
  BY <1>1, <1>2, GoInvPartsNext DEF GoInvIs

-----------------------------------------------------------------------------
(***************************************************************************)
(* Go: each step is a step of the contract, or none.                       *)
(***************************************************************************)

GoTyped(g) ==
  /\ g = [f \in DOMAIN Go!Zero |-> g[f]]
  /\ g["greetingCount"] \in Nat /\ g["farewellCount"] \in Nat

\* g with n greetings and m farewells taken off the counts.
GoTakenOff(g, n, m) ==
  [f \in DOMAIN Go!Zero |-> IF f = "greetingCount" THEN g[f] - n
                        ELSE IF f = "farewellCount" THEN g[f] - m
                        ELSE g[f]]

GoOne(h, k) == IF h = k THEN 1 ELSE 0

\* g without the call of h that is under way.
GoWithout(g, h) ==
  GoTakenOff(g, GoOne(h, "processSayHello"), GoOne(h, "processSayGoodbye"))

\* g after the two assignments of h.
GoRaised(g, h) == [g EXCEPT ![Go!CountOf[h]] = @ + 1]
GoStored(g, h, q) == [g EXCEPT ![Go!TextOf[h]] = Go!Text(h, q)]

LEMMA GoStates ==
  ASSUME NEW g, GoTyped(g), NEW h \in GoHandlers, NEW q
  PROVE  /\ GoTakenOff(g, 0, 0) = g
         /\ GoWithout(GoRaised(g, h), h) = g
         /\ Go!AppliedTo(h, q, GoWithout(g, h)) = GoStored(g, h, q)
         /\ GoTyped(GoStored(g, h, q))
         /\ GoStored(g, h, q)[Go!CountOf[h]] = g[Go!CountOf[h]]
<1>1. PICK gc, gt, fc, ft, D :
        /\ D = {"greetingCount", "lastGreeting", "farewellCount", "lastFarewell"}
        /\ gc = g["greetingCount"] /\ gt = g["lastGreeting"]
        /\ fc = g["farewellCount"] /\ ft = g["lastFarewell"]
  OBVIOUS
<1>2. DOMAIN Go!Zero = D /\ g = [f \in D |-> g[f]] /\ gc \in Nat /\ fc \in Nat
  BY <1>1, GoNames DEF GoTyped
<1>3. GoTakenOff(g, 0, 0) = g
  BY <1>1, <1>2 DEF GoTakenOff
<1>4. PICK t : t = Go!Text(h, q)
  OBVIOUS
<1>5. CASE h = "processSayHello"
  <2>1. /\ Go!CountOf[h] = "greetingCount" /\ Go!TextOf[h] = "lastGreeting"
        /\ GoOne(h, "processSayHello") = 1 /\ GoOne(h, "processSayGoodbye") = 0
    BY <1>5, GoNames DEF GoOne
  <2>2. GoWithout([g EXCEPT !["greetingCount"] = @ + 1], h) = g
    BY <1>1, <1>2, <2>1 DEF GoWithout, GoTakenOff
  <2>3. [GoWithout(g, h) EXCEPT !["greetingCount"] = @ + 1, !["lastGreeting"] = t]
          = [g EXCEPT !["lastGreeting"] = t]
    <3>1. PICK w : w = GoWithout(g, h)
      OBVIOUS
    <3>2. /\ w = [f \in D |-> w[f]] /\ w["greetingCount"] = gc - 1
          /\ \A f \in D : f # "greetingCount" => w[f] = g[f]
      BY <1>1, <1>2, <2>1, <3>1 DEF GoWithout, GoTakenOff
    <3>3. w["greetingCount"] + 1 = g["greetingCount"]
      BY <1>1, <1>2, <3>2
    <3>4. [w EXCEPT !["greetingCount"] = @ + 1, !["lastGreeting"] = t] = [g EXCEPT !["lastGreeting"] = t]
      BY <1>1, <1>2, <3>2, <3>3
    <3> QED
      BY <3>1, <3>4
  <2>4. /\ GoTyped([g EXCEPT !["lastGreeting"] = t])
        /\ [g EXCEPT !["lastGreeting"] = t]["greetingCount"] = gc
    BY <1>1, <1>2 DEF GoTyped
  <2> QED
    BY <1>1, <1>3, <1>4, <2>1, <2>2, <2>3, <2>4 DEF Go!AppliedTo, GoRaised, GoStored
<1>6. CASE h = "processSayGoodbye"
  <2>1. /\ Go!CountOf[h] = "farewellCount" /\ Go!TextOf[h] = "lastFarewell"
        /\ GoOne(h, "processSayHello") = 0 /\ GoOne(h, "processSayGoodbye") = 1
    BY <1>6, GoNames DEF GoOne
  <2>2. GoWithout([g EXCEPT !["farewellCount"] = @ + 1], h) = g
    BY <1>1, <1>2, <2>1 DEF GoWithout, GoTakenOff
  <2>3. [GoWithout(g, h) EXCEPT !["farewellCount"] = @ + 1, !["lastFarewell"] = t]
          = [g EXCEPT !["lastFarewell"] = t]
    <3>1. PICK w : w = GoWithout(g, h)
      OBVIOUS
    <3>2. /\ w = [f \in D |-> w[f]] /\ w["farewellCount"] = fc - 1
          /\ \A f \in D : f # "farewellCount" => w[f] = g[f]
      BY <1>1, <1>2, <2>1, <3>1 DEF GoWithout, GoTakenOff
    <3>3. w["farewellCount"] + 1 = g["farewellCount"]
      BY <1>1, <1>2, <3>2
    <3>4. [w EXCEPT !["farewellCount"] = @ + 1, !["lastFarewell"] = t] = [g EXCEPT !["lastFarewell"] = t]
      BY <1>1, <1>2, <3>2, <3>3
    <3> QED
      BY <3>1, <3>4
  <2>4. /\ GoTyped([g EXCEPT !["lastFarewell"] = t])
        /\ [g EXCEPT !["lastFarewell"] = t]["farewellCount"] = fc
    BY <1>1, <1>2 DEF GoTyped
  <2> QED
    BY <1>1, <1>3, <1>4, <2>1, <2>2, <2>3, <2>4 DEF Go!AppliedTo, GoRaised, GoStored
<1> QED
  BY <1>5, <1>6 DEF GoHandlers

GoCounted == {c \in GreetingClients : goPc[c] = "counted"}

\* What a state read may report, with no handler under way and with one.
GoCommits ==
  /\ GoCounted = {} => Go!CommittedState = GoTakenOff(e, 0, 0)
  /\ \A c \in GreetingClients :
       GoCounted = {c} /\ Go!Handler(c) \in GoHandlers =>
         Go!CommittedState = GoWithout(e, Go!Handler(c))

LEMMA GoCommitted == GoCommits
<1> DEFINE N(f) == Cardinality({c \in GoCounted : Go!CountOf[Go!Handler(c)] = f})
<1>1. Go!CommittedState = GoTakenOff(e, N("greetingCount"), N("farewellCount"))
  <2>1. \A f : Go!Cardinality(Go!Raised(f)) = N(f)
    <3>1. \A f : Go!Raised(f) = {c \in GoCounted : Go!CountOf[Go!Handler(c)] = f}
      BY DEF GoCounted, Go!Raised
    <3> QED
      BY <3>1, GoCardinality
  <2> HIDE DEF N
  <2> QED
    BY <2>1 DEF Go!CommittedState, GoTakenOff
<1>2. ASSUME GoCounted = {} PROVE \A f : N(f) = 0
  BY <1>2, SingletonCount
<1>3. ASSUME NEW c \in GreetingClients, GoCounted = {c}, Go!Handler(c) \in GoHandlers
      PROVE  /\ N("greetingCount") = GoOne(Go!Handler(c), "processSayHello")
             /\ N("farewellCount") = GoOne(Go!Handler(c), "processSayGoodbye")
  <2>1. \A f : {d \in GoCounted : Go!CountOf[Go!Handler(d)] = f}
               = IF Go!CountOf[Go!Handler(c)] = f THEN {c} ELSE {}
    BY <1>3
  <2>2. \A f : N(f) = IF Go!CountOf[Go!Handler(c)] = f THEN 1 ELSE 0
    BY <2>1, SingletonCount
  <2> HIDE DEF N
  <2> QED
    BY <1>3, <2>2, GoNames DEF GoOne, GoHandlers
<1> HIDE DEF N
<1> QED
  BY <1>1, <1>2, <1>3 DEF GoCommits, GoWithout

LEMMA GoCommittedNext == GoCommits'
  BY GoCommitted, PTL

LEMMA GoInitMaps == Go!GoInit => Go!Contract!ContractInit
<1> SUFFICES ASSUME Go!GoInit PROVE Go!Contract!ContractInit
  OBVIOUS
<1>1. GoCounted = {} /\ e = Go!Zero
  BY DEF Go!GoInit, GoCounted
<1>2. GoTyped(Go!Zero)
  BY DEF GoTyped, Go!Zero
<1>3. Go!CommittedState = Go!Zero
  BY <1>1, <1>2, GoCommitted, GoStates DEF GoCommits, GoHandlers
<1> QED
  BY <1>3 DEF Go!GoInit, Go!Contract!ContractInit

\* The committed state while no handler is between its two assignments.
LEMMA GoNoneCounted ==
  ASSUME GoTyped(e), GoCounted = {}
  PROVE  Go!CommittedState = e
  BY GoCommitted, GoStates DEF GoCommits, GoHandlers

LEMMA GoKept ==
  ASSUME e' = e, GoCounted' = GoCounted,
         \A c \in GoCounted : Go!Handler(c)' = Go!Handler(c)
  PROVE  Go!CommittedState' = Go!CommittedState
<1>1. \A f : Go!Raised(f)' = Go!Raised(f)
  BY DEF Go!Raised, GoCounted
<1> QED
  BY <1>1 DEF Go!CommittedState

LEMMA GoTypedFields ==
  ASSUME Go!GoInv PROVE GoTyped(e)
  BY DEF Go!GoInv, Go!GoTypeOK, GoTyped

\* A request that has been sent, has not been answered and was let through.
LEMMA GoServed ==
  ASSUME Go!GoInv, NEW c \in GreetingClients,
         goPc[c] \in {"serving", "locked", "counted", "reading"}
  PROVE  /\ goRequest[c] # NoRequest /\ goAnswer[c] = NoAnswer
         /\ goPc[c] # "serving" => Go!Contract!HttpStatus(goRequest[c]) = 200
<1>1. goRequest[c] # NoRequest /\ goAnswer[c] = NoAnswer
  BY ContainerAssumption DEF Go!GoInv, Go!GoTypeOK, Go!Unserved
<1>2. goPc[c] # "serving" => Go!Refusal(goRequest[c]) = 0
  BY DEF Go!GoInv, Go!GoTypeOK, Go!WriterIsAlone, Go!ReadersAreCurrent
<1> QED
  BY <1>1, <1>2, GoStatus

\* A step that sends, refuses, waits for the lock or reads part of the state.
LEMMA GoQuiet ==
  ASSUME Go!GoInv, NEW c \in GreetingClients,
         goPc[c] # "counted", goPc'[c] # "counted",
         \A d \in GreetingClients \ {c} : goPc'[d] = goPc[d] /\ goRequest'[d] = goRequest[d],
         e' = e
  PROVE  Go!CommittedState' = Go!CommittedState
<1>1. GoCounted' = GoCounted /\ c \notin GoCounted
  BY DEF GoCounted
<1>2. \A d \in GoCounted : Go!Handler(d)' = Go!Handler(d)
  <2>1. \A d \in GoCounted : goRequest'[d] = goRequest[d]
    BY <1>1 DEF GoCounted
  <2> QED
    BY <2>1 DEF Go!Handler
<1> QED
  BY <1>1, <1>2, GoKept

LEMMA GoSends ==
  ASSUME Go!GoInv, NEW c \in GreetingClients, NEW q \in GreetingRequests[c],
         Go!Arrive(c, q)
  PROVE  Go!Contract!Send(c, q)
<1>1. /\ goPc[c] = "idle" /\ goPc'[c] = "serving" /\ e' = e
      /\ \A d \in GreetingClients \ {c} : goPc'[d] = goPc[d] /\ goRequest'[d] = goRequest[d]
  BY DEF Go!Arrive, Go!GoInv, Go!GoTypeOK
<1>2. Go!CommittedState' = Go!CommittedState
  BY <1>1, GoQuiet
<1> QED
  BY <1>2 DEF Go!Arrive, Go!GoInv, Go!GoTypeOK, Go!Contract!Send

LEMMA GoRefuses ==
  ASSUME Go!GoInv, NEW c \in GreetingClients, Go!RefuseRequest(c)
  PROVE  Go!Contract!Refuse(c)
<1>1. /\ goPc[c] = "serving" /\ goPc'[c] = "done" /\ e' = e
      /\ \A d \in GreetingClients \ {c} : goPc'[d] = goPc[d] /\ goRequest'[d] = goRequest[d]
  BY DEF Go!RefuseRequest, Go!Reply, Go!GoInv, Go!GoTypeOK
<1>2. Go!CommittedState' = Go!CommittedState
  BY <1>1, GoQuiet
<1>3. /\ Go!Contract!HttpStatus(goRequest[c]) = Go!Refusal(goRequest[c])
      /\ Go!Contract!HttpStatus(goRequest[c]) # 200
  BY GoStatus DEF Go!RefuseRequest
<1> QED
  BY <1>1, <1>2, <1>3, GoServed DEF Go!RefuseRequest, Go!Reply,
       Go!Contract!Refuse, Go!Contract!Answer

LEMMA GoFails ==
  ASSUME Go!GoInv, NEW c \in GreetingClients, Go!FailHandler(c)
  PROVE  Go!Contract!Fail(c)
<1>1. /\ goPc[c] = "serving" /\ goPc'[c] = "done" /\ e' = e
      /\ goRequest[c].path = "/action" /\ Go!Refusal(goRequest[c]) = 0
      /\ \A d \in GreetingClients \ {c} : goPc'[d] = goPc[d] /\ goRequest'[d] = goRequest[d]
  BY DEF Go!FailHandler, Go!Routed, Go!Reply, Go!GoInv, Go!GoTypeOK
<1>2. Go!CommittedState' = Go!CommittedState
  BY <1>1, GoQuiet
<1>3. Go!Handler(c) \in Go!Contract!Routes(goRequest[c])
  BY <1>1, GoHandlerRouted
<1>4. Go!Contract!HttpStatus(goRequest[c]) = 200
  BY <1>1, GoStatus
<1> QED
  BY <1>1, <1>2, <1>3, <1>4, GoServed DEF Go!FailHandler, Go!Reply,
       Go!Contract!Fail, Go!Contract!Answer

\* What was copied with the read lock held is the whole state.
LEMMA GoReports ==
  ASSUME Go!GoInv, NEW c \in GreetingClients, Go!RUnlock(c)
  PROVE  Go!Contract!Read(c)
<1>1. /\ goPc[c] = "reading" /\ goPc'[c] = "done" /\ e' = e
      /\ Len(goLocal[c]) = 4
      /\ \A d \in GreetingClients \ {c} : goPc'[d] = goPc[d] /\ goRequest'[d] = goRequest[d]
  BY GoFields DEF Go!RUnlock, Go!Reply, Go!GoInv, Go!GoTypeOK
<1>2. Go!CommittedState' = Go!CommittedState
  BY <1>1, GoQuiet
<1>3. GoCounted = {}
  BY <1>1, GoReader DEF GoCounted
<1>4. Go!CommittedState = e
  BY <1>3, GoTypedFields, GoNoneCounted
<1>5. goRequest[c].path = "/state" /\ goLocal[c] = [i \in 1 .. 4 |-> e[Go!StateFields[i]]]
  <2>1. PICK n \in 0 .. 4 : goLocal[c] = [i \in 1 .. n |-> e[Go!StateFields[i]]]
    BY <1>1, GoReader
  <2>2. n = 4
    BY <1>1, <2>1, CopiedOneMore
  <2> QED
    BY <1>1, <2>1, <2>2, GoReader
<1>6. [f \in DOMAIN Go!Zero |->
         goLocal[c][CHOOSE i \in 1 .. Len(Go!StateFields) : Go!StateFields[i] = f]]
        = e
  <2>1. ASSUME NEW f \in DOMAIN Go!Zero
        PROVE  goLocal[c][CHOOSE i \in 1 .. Len(Go!StateFields) : Go!StateFields[i] = f]
                 = e[f]
    <3>1. \E i \in 1 .. Len(Go!StateFields) : Go!StateFields[i] = f
      BY GoNames, GoFields
    <3>2. PICK j : j = CHOOSE i \in 1 .. Len(Go!StateFields) : Go!StateFields[i] = f
      OBVIOUS
    <3>3. j \in 1 .. 4 /\ Go!StateFields[j] = f
      BY <3>1, <3>2, GoFields
    <3> QED
      BY <1>5, <3>2, <3>3
  <2>2. e = [f \in DOMAIN Go!Zero |-> e[f]]
    BY GoTypedFields DEF GoTyped
  <2> QED
    BY <2>1, <2>2
<1>7. Go!Contract!Answer(c, [http |-> 200, state |-> e])
  BY <1>1, <1>6, GoServed DEF Go!RUnlock, Go!Reply, Go!Contract!Answer
<1> QED
  BY <1>1, <1>2, <1>4, <1>5, <1>7, GoServed DEF Go!Contract!Read

LEMMA GoCounts ==
  ASSUME Go!GoInv, NEW c \in GreetingClients, Go!Count(c)
  PROVE  UNCHANGED Go!Contract!contractVars
<1> DEFINE h == Go!Handler(c)
<1>1. goPc[c] = "locked" /\ goRequest' = goRequest
      /\ goAnswer' = goAnswer /\ goPc' = [goPc EXCEPT ![c] = "counted"]
      /\ e' = GoRaised(e, h)
  BY DEF Go!Count, GoRaised
<1>2. h \in GoHandlers
  BY <1>1, GoWriter, GoHandlerRouted
<1>3. Go!Handler(c)' = h
  BY <1>1 DEF Go!Handler
<1>4. GoCounted = {} /\ GoCounted' = {c}
  BY <1>1, GoWriter DEF GoCounted, Go!GoInv, Go!GoTypeOK
<1> HIDE DEF h
<1>5. Go!CommittedState = e
  BY <1>4, GoTypedFields, GoNoneCounted
<1>6. Go!CommittedState' = GoWithout(e', h)
  BY <1>2, <1>3, <1>4, GoCommittedNext DEF GoCommits
<1>7. GoWithout(e', h) = e
  BY <1>1, <1>2, GoTypedFields, GoStates
<1> QED
  BY <1>1, <1>5, <1>6, <1>7 DEF Go!Contract!contractVars

LEMMA GoStores ==
  ASSUME Go!GoInv, NEW c \in GreetingClients, Go!StoreAndUnlock(c)
  PROVE  Go!Contract!Act(c)
<1> DEFINE h == Go!Handler(c)
           q == goRequest[c]
<1>1. /\ goPc[c] = "counted" /\ goRequest' = goRequest /\ goPc' = [goPc EXCEPT ![c] = "done"]
      /\ e' = GoStored(e, h, q)
      /\ goAnswer' = [goAnswer EXCEPT ![c] =
           [http |-> 200, status |-> 1, handler |-> h,
            data |-> <<Go!Text(h, q), e[Go!CountOf[h]]>>]]
  <2>1. goPc[c] = "counted"
    BY DEF Go!StoreAndUnlock
  <2>2. goLocal[c] = <<e[Go!CountOf[h]]>>
    BY <2>1, GoWriter
  <2>3. goLocal[c][1] = e[Go!CountOf[h]]
    BY <2>2
  <2> QED
    BY <2>1, <2>3 DEF Go!StoreAndUnlock, Go!Reply, GoStored
<1>2. /\ q.path = "/action" /\ Go!Accepts(q)
      /\ h \in Go!Contract!Routes(q) /\ h \in GoHandlers
  BY <1>1, GoWriter, GoHandlerRouted
<1>3. q # NoRequest /\ goAnswer[c] = NoAnswer /\ Go!Contract!HttpStatus(q) = 200
  BY <1>1, GoServed
<1>4. GoCounted = {c} /\ GoCounted' = {}
  BY <1>1, GoWriter DEF GoCounted, Go!GoInv, Go!GoTypeOK
<1> HIDE DEF h, q
<1>5. Go!CommittedState = GoWithout(e, h)
  BY <1>2, <1>4, GoCommitted DEF GoCommits, h
<1>6. Go!CommittedState' = e'
  <2>1. GoTyped(e')
    BY <1>1, <1>2, GoTypedFields, GoStates
  <2>2. GoTakenOff(e', 0, 0) = e'
    BY <1>2, <2>1, GoStates
  <2> QED
    BY <1>4, <2>2, GoCommittedNext DEF GoCommits
<1>7. Go!CommittedState' = Go!AppliedTo(h, q, Go!CommittedState)
  BY <1>1, <1>2, <1>5, <1>6, GoTypedFields, GoStates
<1>8. Go!DataOf(h, q, Go!CommittedState')
        = <<Go!Text(h, q), e[Go!CountOf[h]]>>
  BY <1>1, <1>2, <1>6, GoTypedFields, GoStates DEF Go!DataOf
<1>9. Go!Contract!Answer(c,
        [http |-> 200, status |-> 1, handler |-> h,
         data |-> Go!DataOf(h, q, Go!CommittedState')])
  BY <1>1, <1>3, <1>8 DEF Go!Contract!Answer, q
<1> QED
  BY <1>2, <1>3, <1>7, <1>9 DEF Go!Contract!Act, q

LEMMA GoHidden ==
  ASSUME Go!GoInv,
         \/ \E c \in GreetingClients : Go!Lock(c) \/ Go!RLock(c) \/ Go!CopyField(c)
         \/ UNCHANGED goVars
  PROVE  UNCHANGED Go!Contract!contractVars
<1>1. /\ GoCounted' = GoCounted /\ e' = e /\ goRequest' = goRequest
      /\ goAnswer' = goAnswer
  BY DEF Go!Lock, Go!RLock, Go!Routed, Go!CopyField, goVars, GoCounted, Go!GoInv, Go!GoTypeOK
<1>2. \A c : Go!Handler(c)' = Go!Handler(c)
  BY <1>1 DEF Go!Handler
<1> QED
  BY <1>1, <1>2, GoKept DEF Go!Contract!contractVars

LEMMA GoStepMaps ==
  ASSUME Go!GoInv, Go!GoNext \/ UNCHANGED goVars
  PROVE  [Go!Contract!ContractNext]_(Go!Contract!contractVars)
<1>1. ASSUME NEW c \in GreetingClients, Go!Serve(c)
      PROVE  Go!Contract!Serve(c) \/ UNCHANGED Go!Contract!contractVars
  <2>1. CASE Go!RefuseRequest(c) \/ Go!FailHandler(c) \/ Go!StoreAndUnlock(c) \/ Go!RUnlock(c)
    BY <2>1, GoRefuses, GoFails, GoStores, GoReports DEF Go!Contract!Serve
  <2>2. CASE Go!Lock(c) \/ Go!RLock(c) \/ Go!CopyField(c)
    BY <2>2, GoHidden
  <2>3. CASE Go!Count(c)
    BY <2>3, GoCounts
  <2> QED
    BY <1>1, <2>1, <2>2, <2>3 DEF Go!Serve
<1>2. ASSUME NEW c \in GreetingClients, NEW q \in GreetingRequests[c], Go!Arrive(c, q)
      PROVE  Go!Contract!Send(c, q)
  BY <1>2, GoSends
<1>3. CASE UNCHANGED goVars
  BY <1>3, GoHidden
<1> QED
  BY <1>1, <1>2, <1>3 DEF Go!GoNext, Go!Contract!ContractNext

-----------------------------------------------------------------------------
(***************************************************************************)
(* The container: whichever language runs, its server's steps keep its own *)
(* invariant and leave the variables of the other two servers alone.       *)
(***************************************************************************)

LEMMA ContainerInvInit == ContainerInit => ContainerInv
  BY GoInitInv, PyInitInv, TsInitInv DEF ContainerInit, ContainerInv

\* A step of the container is a step or a stutter of each of the servers.
LEMMA ContainerSteps ==
  ASSUME [ContainerNext]_containerVars
  PROVE  /\ Go!GoNext \/ UNCHANGED goVars
         /\ Python!PyNext \/ UNCHANGED pyVars
         /\ TypeScript!TsNext \/ UNCHANGED tsVars
<1>1. CASE InGo(Go!GoNext)
  BY <1>1 DEF InGo
<1>2. CASE InPython(Python!PyNext)
  BY <1>2 DEF InPython
<1>3. CASE InTypeScript(TypeScript!TsNext)
  BY <1>3 DEF InTypeScript
<1>4. CASE UNCHANGED containerVars
  BY <1>4 DEF containerVars
<1> QED
  BY <1>1, <1>2, <1>3, <1>4 DEF ContainerNext

LEMMA ContainerInvNext ==
  ASSUME ContainerInv, [ContainerNext]_containerVars
  PROVE  ContainerInv'
<1>1. Go!GoInv'
  BY ContainerSteps, GoInvNext, GoInvStutter DEF ContainerInv
<1>2. Python!PyInv'
  BY ContainerSteps, PyInvNext, PyInvStutter DEF ContainerInv
<1>3. TypeScript!TsInv'
  BY ContainerSteps, TsInvNext, TsInvStutter DEF ContainerInv
<1> QED
  BY <1>1, <1>2, <1>3 DEF ContainerInv

\* Whatever the language, whatever the clients send and however many of them
\* there are: no two handlers are ever between their assignments at once (the
\* RWMutex of app.go, the framework lock of server.py, the promise chain of
\* server.ts), what a state read has copied is current until it is sent, and
\* each request is settled once.
THEOREM ContainerInvariant == ContainerSpec => []ContainerInv
<1>1. ContainerInv /\ [ContainerNext]_containerVars => ContainerInv'
  BY ContainerInvNext
<1> QED
  BY ContainerInvInit, <1>1, PTL DEF ContainerSpec

\* For every total and every list of shares that decodes, a settlement answered
\* as computed pays out exactly the total: the rounded-down shares of all
\* recipients but the last, and the rest to the last one, who gains at most one
\* unit per other recipient (decodeAndComputeSettlement).
THEOREM SettlementsAreExact == ContainerSpec => []AllocationIsExact
<1>1. ContainerInv => AllocationIsExact
  BY AllocationFollows DEF ContainerInv
<1> QED
  BY ContainerInvariant, <1>1, PTL

\* The Go server implements the extension contract step by step: with any number
\* of goroutines inside the handlers, each of its steps refuses, fails, acts or
\* reads as the contract says, or is one the tee-node cannot see
\* (actionHandler, processAction, stateHandler).
THEOREM GoTakesContractSteps == ContainerSpec => Go!Contract!ContractSafety
<1>1. ContainerInit => Go!Contract!ContractInit
  BY GoInitMaps DEF ContainerInit
<1>2. ContainerInv /\ [ContainerNext]_containerVars
        => [Go!Contract!ContractNext]_(Go!Contract!contractVars)
  BY ContainerSteps, GoStepMaps DEF ContainerInv
<1> QED
  BY ContainerInvariant, <1>1, <1>2, PTL DEF ContainerSpec, Go!Contract!ContractSafety

\* The Python server implements the extension contract step by step, with a
\* thread per request (_process_action, _process_state, Framework.lookup).
THEOREM PythonTakesContractSteps == ContainerSpec => Python!Contract!ContractSafety
<1>1. ContainerInit => Python!Contract!ContractInit
  BY PyInitMaps DEF ContainerInit
<1>2. ContainerInv /\ [ContainerNext]_containerVars
        => [Python!Contract!ContractNext]_(Python!Contract!contractVars)
  BY ContainerSteps, PyStepMaps DEF ContainerInv
<1> QED
  BY ContainerInvariant, <1>1, <1>2, PTL DEF ContainerSpec, Python!Contract!ContractSafety

\* The TypeScript server implements the extension contract step by step, with
\* handlers that suspend, through a shutdown and for every settlement message
\* (serialize, processAction, processState, handleSettlement, close).
THEOREM TypeScriptTakesContractSteps ==
  ContainerSpec => TypeScript!Contract!ContractSafety
<1>1. ContainerInit => TypeScript!Contract!ContractInit
  BY TsInitMaps DEF ContainerInit
<1>2. ContainerInv /\ ContainerInv' /\ [ContainerNext]_containerVars
        => [TypeScript!Contract!ContractNext]_(TypeScript!Contract!contractVars)
  BY ContainerSteps, TsStepMaps DEF ContainerInv
<1> QED
  BY ContainerInvariant, <1>1, <1>2, PTL DEF ContainerSpec, TypeScript!Contract!ContractSafety
=============================================================================
