-------------------------------- MODULE MCServe -------------------------------
(***************************************************************************)
(* Small instances of Serve, with a history of what each list request could *)
(* have seen.                                                              *)
(***************************************************************************)
EXTENDS Serve, TLC

CONSTANTS r1, r2  \* requests

VARIABLE kept  \* per list request, the policies that exist since it was received

\* Deployments: both services, the proxies alone, fleet mode, fleet mode in test.
Classic(s) == [fleet |-> "absent", test |-> FALSE, token |-> TRUE, client |-> FALSE,
               services |-> s]
Fleet == [fleet |-> "true", test |-> FALSE, token |-> FALSE, client |-> TRUE,
          services |-> {"service_logs"}]
FleetTest == [Fleet EXCEPT !.test = TRUE]
Both == Classic({"service_logs", "clusters"})
Proxies == Classic({"clusters"})
MCConfigs == {Both, Proxies, Fleet, FleetTest}
MCListConfigs == {Proxies}

\* Races of a webhook with the proxies in the first, of the proxies with each other in the
\* second.  "get" and "readyz" are asked for in none: they take the steps of "state" and "livez".
MCTraffic == [c \in MCConfigs |->
  IF c = Both THEN r1 :> {"webhook", "list"} @@ r2 :> {"webhook", "patch"}
  ELSE IF c = Proxies THEN r1 :> {"list"} @@ r2 :> {"cluster", "state", "patch"}
  ELSE [r \in Requests |-> {"webhook", "livez"}]]
MCListTraffic == [c \in MCListConfigs |-> [r \in Requests |-> {"list"}]]

Seen(r) ==
  IF pc'[r] # "serve" \/ op'[r] # "list" THEN {}
  ELSE IF pc[r] = "idle" THEN Existing ELSE kept[r] \cap Existing

HInit == Init /\ kept = [r \in Requests |-> {}]
HNext == Next /\ kept' = [r \in Requests |-> Seen(r)]
hvars == <<vars, kept>>
HSpec == HInit /\ [][HNext]_hvars
HFairSpec ==
  /\ HSpec
  /\ WF_vars(Start) /\ WF_vars(CheckConnection)
  /\ \A r \in Requests : WF_vars(Handle(r))

Lists(r) == Serving(r, {"list"}) /\ pc'[r] = "answered" /\ reply'[r].recorded = "ok"

\* "sends the whole list": a list that is answered lacks no policy that was there all the
\* time, though pages are read one after the other while policies come and go.
ListWhole ==
  [][\A r \in Requests : Lists(r) => kept[r] \cap Existing \subseteq got'[r]]_hvars
=============================================================================
