---------------------------- MODULE RequestMetrics ----------------------------
(***************************************************************************)
(* The request metrics of pkg/metrics/metrics.go: the wrapped              *)
(* ResponseWriter, which remembers the status of an answer, and the gauge  *)
(* ocm_agent_request_failure, which PrometheusMiddleware and the webhook   *)
(* handlers set.  A status is "ok" (200) or "error" (anything else), the   *)
(* only difference the middleware makes.                                   *)
(***************************************************************************)

VARIABLE requestFailure  \* MetricRequestFailure: the paths whose gauge is 1

\* An answer: the status the client gets, which is that of the first write, and the
\* statusCode of the wrapper.
Status == {"ok", "error"}
Reply == [sent : Status \cup {"none"}, recorded : Status]

NewResponseWriter == [sent |-> "none", recorded |-> "ok"]

FirstStatus(reply, status) == IF reply.sent = "none" THEN status ELSE reply.sent

\* Mutant: the wrapper passes the status on without remembering it.
WriteHeaderUnrecorded(reply, status) == [reply EXCEPT !.sent = FirstStatus(reply, status)]

\* WriteHeader records the last status, while only the first one goes out.
WriteHeader(reply, status) == [sent |-> FirstStatus(reply, status), recorded |-> status]

\* Writing a body sends an implicit 200, of which the wrapper learns nothing.
WriteBody(reply) == [reply EXCEPT !.sent = FirstStatus(reply, "ok")]

SetRequestMetricFailure(path) == requestFailure' = requestFailure \cup {path}

\* Mutant: only the gauge of the path that was served is reset.
ResetOwn(path) == requestFailure' = requestFailure \ {path}

\* ResetMetric(MetricRequestFailure), called on the way out of `path': the whole vector.
ResetMetric(path) == requestFailure' = {}

\* What PrometheusMiddleware does once the handler has returned.
Measure(path, reply) ==
  IF reply.recorded # "ok" THEN SetRequestMetricFailure(path) ELSE UNCHANGED requestFailure
=============================================================================
