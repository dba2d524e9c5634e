--------------------------------- MODULE Serve --------------------------------
(***************************************************************************)
(* The agent's process, pkg/cli/serve/serve.go: the command line, the      *)
(* start-up with its connection to OCM, the check of that connection in    *)
(* the background, and the HTTP service with its routes and middleware.    *)
(*                                                                         *)
(* The proxies are those of UpgradePolicies.  A webhook is seen from the   *)
(* outside here: what it answers and does to the request gauge; what it    *)
(* does with its alerts is in WebhookReceiver and WebhookRHOBSReceiver.    *)
(***************************************************************************)
EXTENDS UpgradePolicies

CONSTANTS
  Configs,  \* the command lines the agent may be deployed with
  Traffic   \* what each request may ask for, per command line

Operations == {"webhook", "livez", "readyz", "cluster", "list", "get", "state", "patch"}

\* The flags: --fleet-mode as it was given, --test-mode, --access-token with --cluster-id,
\* --ocm-client-id with --ocm-client-secret, --services.
Config == [fleet : {"absent", "true", "false"}, test : BOOLEAN, token : BOOLEAN,
           client : BOOLEAN, services : SUBSET {"service_logs", "clusters"}]

ASSUME ServeAssumption == 
  Configs \subseteq Config /\ Traffic \in [Configs -> [Requests -> SUBSET Operations]]

VARIABLES
  config,         \* the command line of this deployment
  up,             \* "start", "lookup" (of the internal cluster ID) or "serving"
  secretInvalid   \* the gauge ocm_agent_pull_secret_invalid

process == <<up, secretInvalid, requestFailure, calls>>
vars == <<config, ocm, process>>

FleetMode(c) == c.fleet = "true"

\* What NewServeCmd lets pass: client credentials want the flag --fleet-mode, not its value.
Accepted(c) ==
  /\ c.services # {}
  /\ ~(c.token /\ c.client)
  /\ c.client => c.fleet # "absent"
  /\ ~c.client => (~FleetMode(c) \/ c.test => c.token)

\* How Run connects: by the token, or by client credentials from the flags or from files.
ByToken(c) == ~FleetMode(c) \/ c.test

\* The paths that are routed, and whether PrometheusMiddleware wraps them.
Routed(c) ==
  {"livez", "readyz"} \cup
  IF FleetMode(c) THEN {"webhook"}
  ELSE (IF "service_logs" \in c.services THEN {"webhook"} ELSE {}) \cup
       (IF "clusters" \in c.services THEN {"cluster", "list", "get", "state", "patch"} ELSE {})

Measured(c) == FleetMode(c) \/ "service_logs" \in c.services

\* The route template, the label of the gauge.
PathOf(o) == IF o = "patch" THEN "state" ELSE o

Init ==
  /\ config \in {c \in Configs : Accepted(c)}
  /\ account \in {"ok", "unauthorized", "unreachable"}
  /\ policies \in [Policies -> States \cup {"none"}]
  /\ up = "start"
  /\ secretInvalid = FALSE
  /\ requestFailure = {}
  /\ pc = [r \in Requests |-> "idle"]
  /\ op = [r \in Requests |-> "none"]
  /\ got = [r \in Requests |-> {}]
  /\ page = [r \in Requests |-> 0]
  /\ reply = [r \in Requests |-> NewResponseWriter]

-----------------------------------------------------------------------------
\* Start-up.

\* A connection by token without a token is one OCM does not know.
Authorization == IF account = "ok" /\ ByToken(config) /\ ~config.token
                 THEN "unauthorized" ELSE account

\* Everything in memory is gone; Kubernetes starts the process again.
Exit ==
  /\ up' = "start"
  /\ secretInvalid' = FALSE
  /\ requestFailure' = {}
  /\ pc' = [r \in Requests |-> "idle"]
  /\ op' = [r \in Requests |-> "none"]
  /\ got' = [r \in Requests |-> {}]
  /\ page' = [r \in Requests |-> 0]
  /\ reply' = [r \in Requests |-> NewResponseWriter]

\* The connection is built, which asks OCM nothing; without fleet mode the internal
\* identifier of the cluster is needed too.
Connect ==
  /\ up = "start"
  /\ up' = IF FleetMode(config) THEN "serving" ELSE "lookup"
  /\ UNCHANGED <<config, ocm, secretInvalid, requestFailure, calls>>

\* GetInternalIDByExternalID
Lookup ==
  /\ up = "lookup"
  /\ Authorization = "ok"
  /\ up' = "serving"
  /\ UNCHANGED <<config, ocm, secretInvalid, requestFailure, calls>>

\* Mutant: the error is returned, and nobody ends the process.
LookupFailsQuietly ==
  /\ up = "lookup"
  /\ Authorization # "ok"
  /\ up' = "stopped"
  /\ UNCHANGED <<config, ocm, secretInvalid, requestFailure, calls>>

LookupFails ==
  /\ up = "lookup"
  /\ Authorization # "ok"
  /\ Exit
  /\ UNCHANGED <<config, ocm>>

\* Mutant: the gauge is not taken back.
CheckNeverClears ==
  /\ up # "start" /\ ByToken(config)
  /\ secretInvalid' = (secretInvalid \/ Authorization = "unauthorized")
  /\ UNCHANGED <<config, ocm, up, requestFailure, calls>>

\* One turn of the goroutine that checks the connection, started with it: only a 401 counts.
CheckConnection ==
  /\ up # "start" /\ ByToken(config)
  /\ secretInvalid' = (Authorization = "unauthorized")
  /\ UNCHANGED <<config, ocm, up, requestFailure, calls>>

\* The pod is killed, or a listener, a client or a secret is missing.
Crash ==
  /\ "crash" \in Faults
  /\ Exit
  /\ UNCHANGED <<config, ocm>>

-----------------------------------------------------------------------------
\* The HTTP service.

Receive(r, o) ==
  /\ up = "serving"
  /\ o \in Traffic[config][r] \cap Routed(config)
  /\ pc[r] = "idle"
  /\ pc' = [pc EXCEPT ![r] = "serve"]
  /\ op' = [op EXCEPT ![r] = o]
  /\ UNCHANGED <<config, ocm, up, secretInvalid, requestFailure, got, page, reply>>

\* A status and a body; if the body cannot be written, another status.
Encode(r, status, failed) ==
  LET written == WriteHeader(reply[r], status)
  IN  IF failed THEN "clientGone" \in Faults /\ Answer(r, WriteHeader(written, "error"))
      ELSE Answer(r, written)

\* livez and readyz
ServeProbe(r) ==
  /\ Serving(r, {"livez", "readyz"})
  /\ Refuse(r) \/ \E failed \in BOOLEAN : Encode(r, "ok", failed)
  /\ UNCHANGED <<policies, got, requestFailure>>

\* ServeHTTP of either webhook: another verb, another body, or alerts.  Errors of alerts are
\* only logged; without fleet mode the templates may fail to be listed, a 500.
WebhookRefuses(r) ==
  /\ Serving(r, {"webhook"})
  /\ SetRequestMetricFailure("webhook") \/ UNCHANGED requestFailure
  /\ Refuse(r)
  /\ UNCHANGED <<policies, got>>

ServeWebhook(r) ==
  /\ Serving(r, {"webhook"})
  /\ \E status \in IF FleetMode(config) THEN {"ok"} ELSE Status, failed \in BOOLEAN :
       /\ Encode(r, status, failed)
       /\ IF failed THEN SetRequestMetricFailure("webhook") ELSE ResetMetric("webhook")
  /\ UNCHANGED <<policies, got>>

\* The handler has returned to the middleware, if there is one.
Return(r) ==
  /\ pc[r] = "answered"
  /\ IF Measured(config) THEN Measure(PathOf(op[r]), reply[r]) ELSE UNCHANGED requestFailure
  /\ pc' = [pc EXCEPT ![r] = "idle"]
  /\ op' = [op EXCEPT ![r] = "none"]
  /\ got' = [got EXCEPT ![r] = {}]
  /\ reply' = [reply EXCEPT ![r] = NewResponseWriter]
  /\ UNCHANGED <<policies, page>>

Handle(r) ==
  /\ \/ Proxy(r) /\ UNCHANGED requestFailure
     \/ ServeProbe(r) \/ WebhookRefuses(r) \/ ServeWebhook(r) \/ Return(r)
  /\ UNCHANGED <<config, account, up, secretInvalid>>

\* What others do to OCM.
Elsewhere ==
  /\ \/ \E p \in Policies, s \in States \cup {"none"} : PolicyChanges(p, s)
     \/ \E a \in {"ok", "unauthorized", "unreachable"} : AccountChanges(a)
  /\ UNCHANGED <<config, process>>

Start == Connect \/ Lookup \/ LookupFails

Next ==
  \/ Start \/ CheckConnection \/ Crash \/ Elsewhere
  \/ \E r \in Requests : Handle(r) \/ \E o \in Operations : Receive(r, o)

Spec == Init /\ [][Next]_vars

\* Go runs every goroutine; calls of OCM return, in whatever way, and sleeps end.
FairSpec ==
  /\ Spec
  /\ WF_vars(Start) /\ WF_vars(CheckConnection)
  /\ \A r \in Requests : WF_vars(Handle(r))

-----------------------------------------------------------------------------

\* Every variable has its type.
TypeOK ==
  /\ config \in Config
  /\ account \in {"ok", "unauthorized", "unreachable"}
  /\ policies \in [Policies -> States \cup {"none"}]
  /\ up \in {"start", "lookup", "serving"}
  /\ secretInvalid \in BOOLEAN
  /\ requestFailure \subseteq {PathOf(o) : o \in Operations}
  /\ pc \in [Requests -> {"idle", "serve", "answered"}]
  /\ op \in [Requests -> Operations \cup {"none"}]
  /\ got \in [Requests -> SUBSET Policies]
  /\ page \in [Requests -> 0 .. 1]
  /\ reply \in [Requests -> Reply]

Returns(r) == pc[r] = "answered" /\ pc'[r] = "idle" /\ up' = "serving"

\* "Indicates that OCM Agent could not successfully process a request": when a client was
\* answered with an error, the gauge of the path is up once its handler is through, whatever
\* the handler itself, or another one, has reset on the way.
FailureShown ==
  [][\A r \in Requests :
       Returns(r) /\ reply[r].sent = "error" /\ Measured(config) =>
         PathOf(op[r]) \in requestFailure']_vars

Succeeded(r) == pc[r] = "answered" => reply[r].recorded = "ok"
WebhookSucceeds == \E r \in Requests : pc[r] = "answered" /\ op[r] = "webhook" /\ Succeeded(r)

\* The gauge does not stay up: if from some time on nothing fails and Alertmanager keeps
\* being answered, the gauge of every path comes down and stays down.
GaugeClears ==
  <>[](\A r \in Requests : Succeeded(r)) /\ []<>WebhookSucceeds => <>[](requestFailure = {})

\* A request is answered, as long as the cluster has fewer policies than a page holds.
AnsweredUnlessFull ==
  <>[](Cardinality(Existing) < PageSize) =>
    \A r \in Requests : pc[r] # "idle" ~> pc[r] = "idle"

\* GetUpgradePolicies "gets all of the upgrade policies belonging to a cluster": as long as OCM
\* answers, a list request is answered, however many policies there are.
ListAnswered ==
  <>[](account = "ok") => \A r \in Requests : op[r] = "list" ~> op[r] # "list"

\* "Pull Secret auth token is not valid": the gauge ends up telling what OCM thinks of the
\* token, once OCM has made up its mind and the agent keeps running.
SecretNoticed ==
  /\ <>[](up = "serving" /\ ByToken(config) /\ account = "unauthorized") => <>[]secretInvalid
  /\ <>[](up = "serving" /\ config.token /\ account = "ok") => <>[]~secretInvalid

\* An agent whose token OCM accepts comes up, however often it had to exit before.
ComesUp ==
  <>[](account = "ok") /\ <>[][~Crash]_vars /\ (ByToken(config) => config.token)
    => <>[](up = "serving")
=============================================================================
