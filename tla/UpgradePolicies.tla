---------------------------- MODULE UpgradePolicies ---------------------------
(***************************************************************************)
(* The proxies to OCM: the handlers of pkg/handlers/upgrade_policies.go    *)
(* and cluster.go, with the calls of pkg/ocm/ocm.go they make.  Each       *)
(* request makes one call, except the list, which asks OCM for pages until *)
(* one is not full.  Others change the policies in OCM meanwhile.          *)
(***************************************************************************)
EXTENDS RequestMetrics, Naturals, FiniteSets

CONSTANTS
  Requests,   \* the HTTP requests that may be in processing at once
  Policies,   \* the upgrade policies the cluster may have
  States,     \* the states of an upgrade policy
  PageSize,   \* OCMListRequestMaxPerPage, which is also the page OCM sends when not told
  Faults      \* "clientGone", "crash"

ASSUME PoliciesAssumption ==
  PageSize \in Nat \ {0} /\ "none" \notin States /\ IsFiniteSet(Policies)

VARIABLES
  account,   \* how OCM treats this agent: "ok", "unauthorized", or it is "unreachable"
  policies,  \* OCM's: the state of every policy, "none" if it does not exist
  pc, op,    \* per request: "idle", "serve" or "answered", and what it asks for
  got,       \* per list request, the policies read so far, in the end those it answers
  page,      \* per list request, the page counter, modulo 2: it is never sent to OCM
  reply      \* per request, its answer

ocm == <<account, policies>>
calls == <<pc, op, got, page, reply>>

Existing == {p \in Policies : policies[p] # "none"}

-----------------------------------------------------------------------------
\* OCM: upgrade policies come and go and proceed; tokens expire and the network fails.

PolicyChanges(p, s) ==
  /\ policies[p] # s
  /\ policies' = [policies EXCEPT ![p] = s]
  /\ UNCHANGED account

AccountChanges(a) ==
  /\ account # a
  /\ account' = a
  /\ UNCHANGED policies

-----------------------------------------------------------------------------
\* The handlers.  `Answer' ends the serving of r with the given reply.

Serving(r, o) == pc[r] = "serve" /\ op[r] \in o

Answer(r, written) ==
  /\ pc' = [pc EXCEPT ![r] = "answered"]
  /\ reply' = [reply EXCEPT ![r] = written]
  /\ page' = [page EXCEPT ![r] = 0]
  /\ UNCHANGED op

\* errorMessageResponse and invalidRequestVerbResponse, with any text: 400.
Refuse(r) == Answer(r, WriteHeader(reply[r], "error"))

\* Marshalling goes straight to the client; when it fails, the 400 comes after the 200.
Marshal(r) ==
  \/ Answer(r, WriteBody(reply[r]))
  \/ "clientGone" \in Faults /\ Answer(r, WriteHeader(WriteBody(reply[r]), "error"))

\* GetCluster
ServeClusterGet(r) ==
  /\ Serving(r, {"cluster"})
  /\ account = "ok"
  /\ Marshal(r)
  /\ UNCHANGED <<policies, got>>

\* GetUpgradePolicy or GetUpgradePolicyState of an existing policy.
ServeUpgradePolicyGet(r) ==
  /\ Serving(r, {"get", "state"})
  /\ account = "ok"
  /\ Existing # {}
  /\ Marshal(r)
  /\ UNCHANGED <<policies, got>>

\* UpdateUpgradePolicyState of an existing policy.
ServeUpgradePolicyPatch(r, p, s) ==
  /\ Serving(r, {"patch"})
  /\ account = "ok"
  /\ p \in Existing
  /\ policies' = [policies EXCEPT ![p] = s]
  /\ Marshal(r)
  /\ UNCHANGED got

\* OCM refuses or does not answer, or there is no such policy; the answer to an update may
\* also be lost.
CallFails(r) ==
  /\ \/ Serving(r, {"cluster", "list"}) /\ account # "ok" /\ UNCHANGED policies
     \/ Serving(r, {"get", "state", "patch"}) /\ (account # "ok" \/ Existing # Policies)
        /\ UNCHANGED policies
     \/ /\ Serving(r, {"patch"}) /\ account = "unreachable"
        /\ \E p \in Existing, s \in States : policies' = [policies EXCEPT ![p] = s]
  /\ Refuse(r)
  /\ UNCHANGED got

\* A page as OCM sends it for a request that names none: the first policies, in its order.
FirstPage == {s \in SUBSET Existing :
  Cardinality(s) = IF Cardinality(Existing) < PageSize THEN Cardinality(Existing) ELSE PageSize}

\* Mutant: ask until nothing comes.
LastWhenEmpty(items) == items = {}

Last(items) == Cardinality(items) < PageSize

\* Mutant: the test for the last page comes before its items are appended.
GatheredBeforeLast(r, items) == IF Last(items) THEN got[r] ELSE got[r] \cup items

Gathered(r, items) == got[r] \cup items

\* One turn of the loop of GetUpgradePolicies, and the answer after the last.
ListPage(r, items) ==
  /\ Serving(r, {"list"})
  /\ account = "ok"
  /\ got' = [got EXCEPT ![r] = Gathered(r, items)]
  /\ IF Last(items)
     THEN Marshal(r)
     ELSE page' = [page EXCEPT ![r] = 1 - @] /\ UNCHANGED <<pc, op, reply>>
  /\ UNCHANGED policies

\* A verb or a body the handler does not know.
RefuseVerb(r) ==
  /\ Serving(r, {"cluster", "list", "get", "state", "patch"})
  /\ page[r] = 0 /\ got[r] = {}
  /\ Refuse(r)
  /\ UNCHANGED <<policies, got>>

Proxy(r) ==
  \/ ServeClusterGet(r) \/ ServeUpgradePolicyGet(r)
  \/ \E p \in Policies, s \in States : ServeUpgradePolicyPatch(r, p, s)
  \/ CallFails(r)
  \/ \E items \in FirstPage : ListPage(r, items)
  \/ RefuseVerb(r)
=============================================================================
