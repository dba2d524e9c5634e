----------------------------- MODULE ServeProofs ------------------------------
(***************************************************************************)
(* Proofs about Serve, for any number of requests and policies, any        *)
(* deployments and traffic, and any combination of faults.                 *)
(***************************************************************************)
EXTENDS MCServe, FiniteSetTheorems, TLAPS

\* Of an error that went out the wrapper knows; to a request that is not answered nothing has
\* been written, or a later status could hide an error that was sent first.
RequestsOK ==
  \A r \in Requests :
    /\ reply[r].sent = "error" => reply[r].recorded = "error"
    /\ pc[r] # "answered" => reply[r] = NewResponseWriter
    /\ pc[r] # "idle" => op[r] \in Operations

\* The inductive invariant: FailureShown is about a step, and needs the reply as it was
\* before it.
Inv == TypeOK /\ RequestsOK

-----------------------------------------------------------------------------
\* Requests.

\* Everything a handler may have written by its end.
Written(r) ==
  {WriteBody(reply[r])}
    \cup {WriteHeader(reply[r], s) : s \in Status}
    \cup {WriteHeader(WriteBody(reply[r]), "error")}
    \cup {WriteHeader(WriteHeader(reply[r], s), "error") : s \in Status}

\* The variables of the requests but `got', which not every handler touches.
CallsOK ==
  /\ pc' \in [Requests -> {"idle", "serve", "answered"}]
  /\ op' \in [Requests -> Operations \cup {"none"}]
  /\ page' \in [Requests -> 0 .. 1]
  /\ reply' \in [Requests -> Reply]
  /\ RequestsOK'

\* A fresh wrapper is a reply that fits.
LEMMA FreshReply == NewResponseWriter \in Reply /\ NewResponseWriter.sent # "error"
BY DEF NewResponseWriter, Reply, Status

\* Whatever a handler writes to a fresh wrapper, an error that is sent is recorded.
LEMMA WrittenReply ==
  ASSUME NEW r \in Requests, reply[r] = NewResponseWriter, NEW w \in Written(r)
  PROVE  w \in Reply /\ (w.sent = "error" => w.recorded = "error")
BY DEF Written, NewResponseWriter, WriteHeader, WriteBody, FirstStatus, Reply, Status

\* Answering keeps the variables of the requests.
LEMMA AnswerCalls ==
  ASSUME Inv, NEW r \in Requests, pc[r] = "serve", NEW w \in Written(r), Answer(r, w)
  PROVE  CallsOK
<1>1. w \in Reply /\ (w.sent = "error" => w.recorded = "error")
  BY WrittenReply DEF Inv, RequestsOK
<1>2. /\ pc' = [pc EXCEPT ![r] = "answered"]
      /\ reply' = [reply EXCEPT ![r] = w]
      /\ page' = [page EXCEPT ![r] = 0]
      /\ op' = op
  BY DEF Answer
<1>3. RequestsOK'
  BY <1>1, <1>2 DEF Inv, TypeOK, RequestsOK
<1> QED BY <1>1, <1>2, <1>3 DEF CallsOK, Inv, TypeOK

\* An error answer is an answer.
LEMMA RefuseCalls ==
  ASSUME Inv, NEW r \in Requests, pc[r] = "serve", Refuse(r)
  PROVE  CallsOK
BY AnswerCalls DEF Refuse, Written, Status

\* A marshalled answer is one too.
LEMMA MarshalCalls ==
  ASSUME Inv, NEW r \in Requests, pc[r] = "serve", Marshal(r)
  PROVE  CallsOK
BY AnswerCalls DEF Marshal, Written, Status

\* So is one with a status of its own.
LEMMA EncodeCalls ==
  ASSUME Inv, NEW r \in Requests, pc[r] = "serve",
         NEW s \in Status, NEW f \in BOOLEAN, Encode(r, s, f)
  PROVE  CallsOK
BY AnswerCalls DEF Encode, Written

\* What the list has read are policies, and their states keep their type.
LEMMA ProxyKeeps ==
  ASSUME Inv, NEW r \in Requests, Proxy(r)
  PROVE  /\ CallsOK
         /\ got' \in [Requests -> SUBSET Policies]
         /\ policies' \in [Policies -> States \cup {"none"}]
<1>1. CASE ServeClusterGet(r)
  BY <1>1, MarshalCalls DEF ServeClusterGet, Serving, Inv, TypeOK
<1>2. CASE ServeUpgradePolicyGet(r)
  BY <1>2, MarshalCalls DEF ServeUpgradePolicyGet, Serving, Inv, TypeOK
<1>3. ASSUME NEW p \in Policies, NEW s \in States, ServeUpgradePolicyPatch(r, p, s)
      PROVE  /\ CallsOK
             /\ got' \in [Requests -> SUBSET Policies]
             /\ policies' \in [Policies -> States \cup {"none"}]
  BY <1>3, MarshalCalls DEF ServeUpgradePolicyPatch, Serving, Inv, TypeOK
<1>4. CASE CallFails(r)
  <2>1. CallsOK
    BY <1>4, RefuseCalls DEF CallFails, Serving
  <2>2. UNCHANGED got
    BY <1>4 DEF CallFails
  <2>3. policies' \in [Policies -> States \cup {"none"}]
    BY <1>4 DEF CallFails, Inv, TypeOK
  <2> QED BY <2>1, <2>2, <2>3 DEF Inv, TypeOK
<1>5. ASSUME NEW items \in FirstPage, ListPage(r, items)
      PROVE  /\ CallsOK
             /\ got' \in [Requests -> SUBSET Policies]
             /\ policies' \in [Policies -> States \cup {"none"}]
  <2>1. got' \in [Requests -> SUBSET Policies]
    BY <1>5 DEF ListPage, Gathered, FirstPage, Existing, Inv, TypeOK
  <2>2. CASE Last(items)
    BY <1>5, <2>1, <2>2, MarshalCalls DEF ListPage, Serving, Inv, TypeOK
  <2>3. CASE ~Last(items)
    <3>1. page' = [page EXCEPT ![r] = 1 - @] /\ UNCHANGED <<pc, op, reply>>
      BY <1>5, <2>3 DEF ListPage
    <3>2. page' \in [Requests -> 0 .. 1]
      BY <3>1 DEF Inv, TypeOK
    <3>3. RequestsOK'
      BY <3>1 DEF Inv, RequestsOK
    <3> QED BY <1>5, <2>1, <3>1, <3>2, <3>3 DEF ListPage, CallsOK, Inv, TypeOK
  <2> QED BY <2>2, <2>3
<1>6. CASE RefuseVerb(r)
  BY <1>6, RefuseCalls DEF RefuseVerb, Serving, Inv, TypeOK
<1> QED BY <1>1, <1>2, <1>3, <1>4, <1>5, <1>6 DEF Proxy

\* A handler's step.
LEMMA HandleKeeps ==
  ASSUME Inv, NEW r \in Requests, Handle(r)
  PROVE  Inv'
<1>1. UNCHANGED <<config, account, up, secretInvalid>>
  BY DEF Handle
<1>2. SUFFICES /\ CallsOK
               /\ got' \in [Requests -> SUBSET Policies]
               /\ policies' \in [Policies -> States \cup {"none"}]
               /\ requestFailure' \subseteq {PathOf(o) : o \in Operations}
  BY <1>1 DEF Inv, TypeOK, CallsOK
<1> USE DEF Inv, TypeOK
<1>3. PathOf("webhook") \in {PathOf(o) : o \in Operations}
  BY DEF Operations
<1>4. CASE Proxy(r) /\ UNCHANGED requestFailure
  BY <1>4, ProxyKeeps
<1>5. CASE ServeProbe(r)
  <2>1. CallsOK
    BY <1>5, RefuseCalls, EncodeCalls DEF ServeProbe, Serving, Status
  <2> QED BY <1>5, <2>1 DEF ServeProbe
<1>6. CASE WebhookRefuses(r)
  <2>1. CallsOK
    BY <1>6, RefuseCalls DEF WebhookRefuses, Serving
  <2> QED BY <1>3, <1>6, <2>1 DEF WebhookRefuses, SetRequestMetricFailure, PathOf
<1>7. CASE ServeWebhook(r)
  <2>1. CallsOK
    BY <1>7, EncodeCalls DEF ServeWebhook, Serving, Status
  <2> QED BY <1>3, <1>7, <2>1 DEF ServeWebhook, SetRequestMetricFailure, ResetMetric, PathOf
<1>8. CASE Return(r)
  <2>1. /\ pc[r] = "answered"
        /\ pc' = [pc EXCEPT ![r] = "idle"]
        /\ op' = [op EXCEPT ![r] = "none"]
        /\ got' = [got EXCEPT ![r] = {}]
        /\ reply' = [reply EXCEPT ![r] = NewResponseWriter]
        /\ UNCHANGED <<policies, page>>
    BY <1>8 DEF Return
  <2>2. RequestsOK'
    BY <2>1, FreshReply DEF RequestsOK
  <2>3. CallsOK
    BY <2>1, <2>2, FreshReply DEF CallsOK
  <2>4. requestFailure' \subseteq {PathOf(o) : o \in Operations}
    BY <1>8, <2>1 DEF Return, Measure, SetRequestMetricFailure, RequestsOK
  <2> QED BY <2>1, <2>3, <2>4
<1> QED BY <1>4, <1>5, <1>6, <1>7, <1>8 DEF Handle

-----------------------------------------------------------------------------
\* The process.

\* An exit forgets everything.
LEMMA ExitKeeps ==
  ASSUME Inv, Exit, UNCHANGED <<config, ocm>>
  PROVE  Inv'
<1>1. RequestsOK'
  BY FreshReply DEF Exit, RequestsOK
<1>2. reply' \in [Requests -> Reply]
  BY FreshReply DEF Exit
<1>3. /\ pc' \in [Requests -> {"idle", "serve", "answered"}]
      /\ op' \in [Requests -> Operations \cup {"none"}]
      /\ got' \in [Requests -> SUBSET Policies]
      /\ page' \in [Requests -> 0 .. 1]
  BY DEF Exit
<1>4. /\ up' \in {"start", "lookup", "serving"}
      /\ secretInvalid' \in BOOLEAN
      /\ requestFailure' \subseteq {PathOf(o) : o \in Operations}
  BY DEF Exit
<1> QED BY <1>1, <1>2, <1>3, <1>4 DEF Inv, TypeOK, ocm

\* The agent starts in the invariant.
LEMMA InitInv == Init => Inv
<1> SUFFICES ASSUME Init PROVE Inv
  OBVIOUS
<1>1. reply \in [Requests -> Reply]
  BY FreshReply DEF Init
<1>2. /\ pc \in [Requests -> {"idle", "serve", "answered"}]
      /\ op \in [Requests -> Operations \cup {"none"}]
      /\ got \in [Requests -> SUBSET Policies]
      /\ page \in [Requests -> 0 .. 1]
  BY DEF Init
<1>3. TypeOK
  BY <1>1, <1>2, ServeAssumption DEF Init, TypeOK
<1>4. RequestsOK
  BY FreshReply DEF Init, RequestsOK
<1> QED BY <1>3, <1>4 DEF Inv

\* Every step keeps it.
LEMMA NextInv == Inv /\ [Next]_vars => Inv'
<1> SUFFICES ASSUME Inv, [Next]_vars PROVE Inv'
  OBVIOUS
<1>1. CASE UNCHANGED vars
  BY <1>1 DEF Inv, TypeOK, RequestsOK, vars, ocm, process, calls
<1>2. CASE Connect \/ Lookup \/ CheckConnection
  <2>1. UNCHANGED <<config, ocm, requestFailure, calls>>
    BY <1>2 DEF Connect, Lookup, CheckConnection
  <2>2. up' \in {"start", "lookup", "serving"} /\ secretInvalid' \in BOOLEAN
    BY <1>2 DEF Connect, Lookup, CheckConnection, Inv, TypeOK
  <2> QED BY <2>1, <2>2 DEF Inv, TypeOK, RequestsOK, ocm, calls
<1>3. CASE LookupFails \/ Crash
  BY <1>3, ExitKeeps DEF LookupFails, Crash
<1>4. CASE Elsewhere
  <2>1. UNCHANGED <<config, process>>
    BY <1>4 DEF Elsewhere
  <2>2. /\ account' \in {"ok", "unauthorized", "unreachable"}
        /\ policies' \in [Policies -> States \cup {"none"}]
    BY <1>4 DEF Elsewhere, PolicyChanges, AccountChanges, Inv, TypeOK
  <2> QED BY <2>1, <2>2 DEF Inv, TypeOK, RequestsOK, process, calls
<1>5. ASSUME NEW r \in Requests, Handle(r) PROVE Inv'
  BY <1>5, HandleKeeps
<1>6. ASSUME NEW r \in Requests, NEW o \in Operations, Receive(r, o) PROVE Inv'
  <2>1. /\ pc[r] = "idle"
        /\ pc' = [pc EXCEPT ![r] = "serve"]
        /\ op' = [op EXCEPT ![r] = o]
        /\ UNCHANGED <<config, ocm, up, secretInvalid, requestFailure, got, page, reply>>
    BY <1>6 DEF Receive
  <2>2. RequestsOK'
    BY <2>1 DEF Inv, TypeOK, RequestsOK
  <2> QED BY <2>1, <2>2 DEF Inv, TypeOK, ocm
<1> QED BY <1>1, <1>2, <1>3, <1>4, <1>5, <1>6 DEF Next, Start

\* The invariant of the process.
THEOREM AgentInvariance == Spec => []Inv
BY InitInv, NextInv, PTL DEF Spec

\* Every variable keeps its type.
THEOREM AgentTypeCorrect == Spec => []TypeOK
<1>1. Inv => TypeOK
  BY DEF Inv
<1> QED BY <1>1, AgentInvariance, PTL

-----------------------------------------------------------------------------
\* What a step shows.

\* Only the return of its handler takes an answered request off.
LEMMA ReturnsReturn ==
  ASSUME Inv, [Next]_vars, NEW r \in Requests, Returns(r)
  PROVE  Return(r)
<1>1. pc[r] = "answered" /\ pc'[r] = "idle" /\ up' = "serving"
  BY DEF Returns
<1>2. ~UNCHANGED vars
  BY <1>1 DEF vars, process, calls
<1>3. ~(Start \/ CheckConnection \/ Crash \/ Elsewhere)
  BY <1>1 DEF Start, Connect, Lookup, LookupFails, CheckConnection, Crash, Elsewhere, Exit,
              process, calls
<1>4. ASSUME NEW q \in Requests, NEW o \in Operations, Receive(q, o) PROVE FALSE
  BY <1>1, <1>4 DEF Receive, Inv, TypeOK
<1>5. PICK q \in Requests : Handle(q)
  BY <1>2, <1>3, <1>4 DEF Next
<1>6. ASSUME NEW w, Answer(q, w) PROVE FALSE
  BY <1>1, <1>6 DEF Answer, Inv, TypeOK
<1>7. ~(ServeProbe(q) \/ WebhookRefuses(q) \/ ServeWebhook(q))
  BY <1>6 DEF ServeProbe, WebhookRefuses, ServeWebhook, Refuse, Encode
<1>8. ~Proxy(q)
  BY <1>1, <1>6 DEF Proxy, ServeClusterGet, ServeUpgradePolicyGet, ServeUpgradePolicyPatch,
                    CallFails, ListPage, RefuseVerb, Refuse, Marshal
<1>9. Return(q)
  BY <1>5, <1>7, <1>8 DEF Handle
<1> QED BY <1>1, <1>9 DEF Return, Inv, TypeOK

\* "Indicates that OCM Agent could not successfully process a request": whatever the handlers
\* reset on the way, an error that was sent is on the gauge when its handler is through.
THEOREM FailuresShown == Spec => FailureShown
<1>1. ASSUME Inv, [Next]_vars
      PROVE  \A r \in Requests :
               Returns(r) /\ reply[r].sent = "error" /\ Measured(config) =>
                 PathOf(op[r]) \in requestFailure'
  <2> SUFFICES ASSUME NEW r \in Requests, Returns(r), reply[r].sent = "error",
                      Measured(config)
               PROVE  PathOf(op[r]) \in requestFailure'
    OBVIOUS
  <2>1. Return(r)
    BY <1>1, ReturnsReturn
  <2>2. reply[r].recorded = "error"
    BY <1>1 DEF Inv, RequestsOK
  <2> QED BY <2>1, <2>2 DEF Return, Measure, SetRequestMetricFailure
<1> QED BY <1>1, AgentInvariance, PTL DEF Spec, FailureShown

\* A page that is not full holds all there is.
LEMMA LastPageIsAll ==
  ASSUME TypeOK, NEW items \in FirstPage, Last(items)
  PROVE  items = Existing
<1>1. IsFiniteSet(Existing)
  BY PoliciesAssumption, FS_Subset DEF Existing
<1>2. items \subseteq Existing
  BY DEF FirstPage
<1>3. Cardinality(Existing) \in Nat /\ PageSize \in Nat
  BY <1>1, FS_CardinalityType, PoliciesAssumption
<1>4. Cardinality(items) = Cardinality(Existing)
  BY <1>3 DEF FirstPage, Last
<1> QED BY <1>1, <1>2, <1>4, FS_Subset

\* A list is answered only after its last page.
LEMMA ListsEnd ==
  ASSUME Inv, [Next]_vars, NEW r \in Requests, Lists(r)
  PROVE  Existing \subseteq got'[r]
<1>1. /\ pc[r] = "serve" /\ op[r] = "list"
      /\ pc'[r] = "answered" /\ reply'[r].recorded = "ok"
  BY DEF Lists, Serving
<1>2. ~UNCHANGED vars
  BY <1>1 DEF vars, process, calls
<1>3. ~(Start \/ CheckConnection \/ Crash \/ Elsewhere)
  BY <1>1 DEF Start, Connect, Lookup, LookupFails, CheckConnection, Crash, Elsewhere, Exit,
              process, calls
<1>4. ASSUME NEW q \in Requests, NEW o \in Operations, Receive(q, o) PROVE FALSE
  BY <1>1, <1>4 DEF Receive, Inv, TypeOK
<1>5. PICK q \in Requests : Handle(q)
  BY <1>2, <1>3, <1>4 DEF Next
<1>6. ~Return(q)
  BY <1>1 DEF Return, Inv, TypeOK
<1>7. q = r
  <2> SUFFICES ASSUME q # r PROVE FALSE
    OBVIOUS
  <2>1. ASSUME NEW w, Answer(q, w) PROVE FALSE
    BY <1>1, <2>1 DEF Answer, Inv, TypeOK
  <2>2. ~(ServeProbe(q) \/ WebhookRefuses(q) \/ ServeWebhook(q))
    BY <2>1 DEF ServeProbe, WebhookRefuses, ServeWebhook, Refuse, Encode
  <2>3. ~Proxy(q)
    BY <1>1, <2>1 DEF Proxy, ServeClusterGet, ServeUpgradePolicyGet, ServeUpgradePolicyPatch,
                      CallFails, ListPage, RefuseVerb, Refuse, Marshal
  <2> QED BY <1>5, <1>6, <2>2, <2>3 DEF Handle
<1>8. ~Refuse(r)
  <2>1. WriteHeader(reply[r], "error").recorded = "error"
    BY DEF WriteHeader
  <2> QED BY <1>1, <2>1 DEF Refuse, Answer, Inv, TypeOK
<1>9. Proxy(r)
  BY <1>1, <1>5, <1>6, <1>7 DEF Handle, ServeProbe, WebhookRefuses, ServeWebhook, Serving
<1>10. PICK items \in FirstPage : ListPage(r, items)
  BY <1>1, <1>8, <1>9 DEF Proxy, ServeClusterGet, ServeUpgradePolicyGet,
     ServeUpgradePolicyPatch, CallFails, RefuseVerb, Serving
<1>11. Last(items)
  BY <1>1, <1>10 DEF ListPage
<1>12. items = Existing
  BY <1>10, <1>11, LastPageIsAll DEF Inv
<1> QED BY <1>10, <1>12 DEF ListPage, Gathered, Inv, TypeOK

\* "sends the whole list": however the policies change between two pages, a list that is
\* answered lacks none that was there all the time.
THEOREM ListsWhole == HSpec => ListWhole
<1>1. HInit => Inv
  BY InitInv DEF HInit
<1>2. Inv /\ [HNext]_hvars => Inv'
  BY NextInv DEF HNext, hvars
<1>3. ASSUME Inv, [HNext]_hvars
      PROVE  \A r \in Requests : Lists(r) => kept[r] \cap Existing \subseteq got'[r]
  BY <1>3, ListsEnd DEF HNext, hvars
<1> QED BY <1>1, <1>2, <1>3, PTL DEF HSpec, ListWhole
=============================================================================
