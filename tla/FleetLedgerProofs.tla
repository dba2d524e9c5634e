--------------------------- MODULE FleetLedgerProofs --------------------------
(***************************************************************************)
(* The fleet webhook implements FleetLedger, its counters never drift, and *)
(* a claim respects the resend window of what is stored.                   *)
(***************************************************************************)
EXTENDS FleetReceiverProofs

\* What a handler may put back has been read from a record.
InitialOK ==
  \A h \in Handlers : pc[h] \notin {"idle", "retrieve", "create"} => ctx[h].initial.stored

\* What a handler may put back has no gap either, so CounterGap survives a restore that
\* overwrites what others have stored.
InitialGap ==
  \A h \in Handlers :
    pc[h] \notin {"idle", "retrieve", "create"} /\ IsLS(ItemIn(h)) => Gap(ctx[h].initial)

-----------------------------------------------------------------------------
\* The ledger's operators on items are those of the webhook.
LEMMA SameOperators ==
  /\ \A i : Ledger!IsLS(i) <=> IsLS(i)
  /\ \A i : Ledger!DontResend(i) = DontResend(i)
  /\ \A item : Ledger!Found(item) = Found(item) /\ Ledger!Levelled(item) = Levelled(item)
  /\ \A item, t : Ledger!Counted(item, t) = Counted(item, t)
BY Zenon DEF Ledger!IsLS, IsLS, Ledger!DontResend, DontResend, Ledger!Found, Found,
   Ledger!Levelled, Levelled, Ledger!Counted, Counted

\* What is decided on a copy that would be accepted is decided on the stored item.
LEMMA CopyDecides ==
  ASSUME Inv, NEW h \in Handlers, h \in current, pc[h] = "update"
  PROVE  /\ CanSend(h) <=> Ledger!MayNotify(ItemIn(h))
         /\ Acts(h) <=> Ledger!Due(ItemIn(h), job[h].firing)
         /\ Updated(h) = Ledger!Observed(ItemIn(h), job[h].firing)
         /\ ctx[h].initial = Found(rec[ItemIn(h)])
<1>1. /\ ctx[h].item = Found(rec[ItemIn(h)])
      /\ ctx[h].initial = ctx[h].item
      /\ ctx[h].wasLS = InSupport(ItemIn(h), rec[ItemIn(h)])
  BY DEF Inv, CopyOK, HasCopy
<1>2. ItemIn(h) \in Items
  BY Known DEF Inv
<1>3. rec[ItemIn(h)] \in Item
  BY <1>2 DEF Inv, TypeOK
<1>4. ctx[h].item.last = rec[ItemIn(h)].last
  BY <1>1, <1>3, ItemSteps
<1>5. CanSend(h) <=> Ledger!MayNotify(ItemIn(h))
  <2>1. ctx[h].wasLS <=> Ledger!InSupport(ItemIn(h))
    BY <1>1, SameOperators DEF InSupport, Ledger!InSupport
  <2> QED BY <1>4, <2>1, SameOperators, Zenon DEF CanSend, Ledger!MayNotify
<1>6. Acts(h) <=> Ledger!Due(ItemIn(h), job[h].firing)
  <2>1. ctx[h].wasLS <=> Ledger!InSupport(ItemIn(h))
    BY <1>1, SameOperators DEF InSupport, Ledger!InSupport
  <2> QED BY <1>5, <2>1, Zenon DEF Acts, Ledger!Due
<1>7. Updated(h) = Ledger!Observed(ItemIn(h), job[h].firing)
  BY <1>1, <1>5, SameOperators, Zenon DEF Updated, Ledger!Observed
<1> QED BY <1>1, <1>5, <1>6, <1>7

\* A handler's initial item, along its way.
LEMMA InitialStep ==
  ASSUME Inv, InitialOK, NEW h \in Handlers, Step(h)
  PROVE  /\ InitialOK'
         /\ \/ pc'[h] \in {"idle", "retrieve", "create"}
            \/ /\ job'[h] = job[h]
               /\ ctx'[h].initial = IF pc[h] \in {"retrieve", "create"}
                                    THEN Found(rec[ItemIn(h)]) ELSE ctx[h].initial
<1>1. PICK l, j, c : Goes(h, l, j, c) /\ Way(h, l, j, c)
  BY StepGoes DEF Inv
<1>2. pc'[h] = l /\ job'[h] = j /\ ctx'[h] = c
  BY <1>1 DEF Goes, Inv, TypeOK
<1>3. job[h] \in Job /\ ItemIn(h) \in Items /\ rec[ItemIn(h)] \in Item
  BY StepBusy, Known DEF Inv, TypeOK
<1>4. ctx[h] \in ContextType
  BY DEF Inv, TypeOK, ContextType
<1>5. \/ l \in {"idle", "retrieve", "create"}
      \/ j = job[h] /\ pc[h] \in {"retrieve", "create"} /\ c = Context(h)
      \/ j = job[h] /\ pc[h] \notin {"idle", "retrieve", "create"} /\ c.initial = ctx[h].initial
  BY <1>1, <1>4 DEF Way, ContextType
<1>6. Context(h).initial = Found(rec[ItemIn(h)])
  BY <1>3, ContextReads DEF Inv
<1>7. Found(rec[ItemIn(h)]).stored
  BY <1>3 DEF Found, Item
<1>8. InitialOK'
  <2>1. ASSUME NEW g \in Handlers, g # h
        PROVE  pc'[g] = pc[g] /\ ctx'[g] = ctx[g]
    BY <1>1, <2>1 DEF Goes, Inv, TypeOK
  <2> QED BY <1>2, <1>5, <1>6, <1>7, <2>1 DEF InitialOK
<1> QED BY <1>2, <1>5, <1>6, <1>8

\* Everything else leaves the initial items of handlers in processAlert alone.
LEMMA OthersInitial ==
  ASSUME Inv, [Next]_vars, ~\E h \in Handlers : Step(h)
  PROVE  /\ UNCHANGED rec
         /\ \A h \in Handlers :
              \/ pc'[h] \in {"idle", "retrieve"} /\ (pc'[h] = "retrieve" => pc[h] \in {"idle", "retrieve"})
              \/ pc'[h] = pc[h] /\ job'[h] = job[h] /\ ctx'[h] = ctx[h]
<1>1. CASE Tick \/ UNCHANGED vars
  BY <1>1 DEF Tick, vars, agent
<1>2. CASE Crash
  BY <1>2 DEF Crash
<1>3. ASSUME NEW g \in Handlers, NEW i \in Items, Receive(g, i)
      PROVE  /\ UNCHANGED rec
             /\ \A h \in Handlers :
                  \/ h = g /\ pc[h] = "idle" /\ pc'[h] \in {"idle", "retrieve"}
                  \/ pc'[h] = pc[h] /\ job'[h] = job[h] /\ ctx'[h] = ctx[h]
  BY <1>3 DEF Receive, ReceiveFiring, ReceiveResolved, Begin, Inv, TypeOK
<1> QED BY <1>1, <1>2, <1>3 DEF Next

\* Every step keeps it: an initial item is one that was read.
LEMMA InitialInv == Inv /\ InitialOK /\ [Next]_vars => InitialOK'
<1> SUFFICES ASSUME Inv, InitialOK, [Next]_vars PROVE InitialOK'
  OBVIOUS
<1>1. CASE \E h \in Handlers : Step(h)
  BY <1>1, InitialStep
<1>2. CASE ~\E h \in Handlers : Step(h)
  BY <1>2, OthersInitial DEF InitialOK
<1> QED BY <1>1, <1>2

-----------------------------------------------------------------------------
\* The counters.

\* Observing an alert keeps the gap of an item that can be in limited support.
LEMMA ObservedGap ==
  ASSUME NEW i \in Items, IsLS(i), rec[i] \in Item, Gap(rec[i]), NEW f \in BOOLEAN, now \in Nat
  PROVE  Gap(Ledger!Observed(i, f))
<1>1. /\ Found(rec[i]) \in Item
      /\ Found(rec[i]).fired = rec[i].fired /\ Found(rec[i]).resolved = rec[i].resolved
  BY ItemSteps
<1>2. CASE ~f
  <2>1. Ledger!Observed(i, f) = Levelled(Found(rec[i]))
    BY <1>2, SameOperators DEF Ledger!Observed
  <2>2. /\ Levelled(Found(rec[i])).fired = rec[i].fired
        /\ Levelled(Found(rec[i])).resolved = rec[i].fired
    BY <1>1, ItemSteps
  <2>3. rec[i].fired \in Nat
    BY DEF Item
  <2> QED BY <2>1, <2>2, <2>3 DEF Gap
<1>3. CASE f /\ Ledger!MayNotify(i)
  <2>1. ~(rec[i].fired > rec[i].resolved)
    BY <1>3, SameOperators DEF Ledger!MayNotify, Ledger!InSupport
  <2>2. Ledger!Observed(i, f) = Counted(Found(rec[i]), now)
    BY <1>3, SameOperators DEF Ledger!Observed
  <2>3. /\ Counted(Found(rec[i]), now).fired = rec[i].fired + 1
        /\ Counted(Found(rec[i]), now).resolved = rec[i].resolved
    BY <1>1, ItemSteps
  <2>4. rec[i].fired \in Nat /\ rec[i].resolved \in Nat
    BY DEF Item
  <2> QED BY <2>1, <2>2, <2>3, <2>4 DEF Gap
<1>4. CASE f /\ ~Ledger!MayNotify(i)
  BY <1>1, <1>4, SameOperators DEF Ledger!Observed, Gap
<1> QED BY <1>2, <1>3, <1>4

\* What a handler stores keeps the gaps: an update observes the stored item, by the lock, and
\* a restore puts back one that had none.
LEMMA GapStep ==
  ASSUME Inv, Inv', InitialOK, InitialGap, CounterGap, NEW h \in Handlers, Step(h)
  PROVE  InitialGap' /\ CounterGap'
<1>1. ItemIn(h) \in Items /\ rec[ItemIn(h)] \in Item /\ now \in Nat
  BY StepBusy, Known, FleetAssumption DEF Inv, TypeOK
<1>2. Found(rec[ItemIn(h)]).fired = rec[ItemIn(h)].fired
      /\ Found(rec[ItemIn(h)]).resolved = rec[ItemIn(h)].resolved
  BY <1>1, ItemSteps
<1>3. ASSUME NEW g \in Handlers, g # h
      PROVE  pc'[g] = pc[g] /\ ctx'[g] = ctx[g] /\ job'[g] = job[g]
  BY <1>3, StepGoes DEF Goes, Inv, TypeOK
<1>4. InitialGap'
  <2>1. ASSUME pc'[h] \notin {"idle", "retrieve", "create"}, IsLS(job'[h].item)
        PROVE  Gap(ctx'[h].initial)
    BY <1>1, <1>2, <2>1, InitialStep, StepBusy DEF InitialGap, CounterGap, Gap, ItemIn
  <2> QED BY <1>3, <2>1 DEF InitialGap, ItemIn
<1>5. CounterGap'
  <2>1. CASE Keeps(h)
    BY <2>1 DEF Keeps, CounterGap
  <2>2. ASSUME NEW v, Stores(h, v)
        PROVE  CounterGap'
    <3>1. rec' = [rec EXCEPT ![ItemIn(h)] = v] /\ h \in current
      BY <2>2 DEF Stores
    <3>2. IsLS(ItemIn(h)) => Gap(v)
      <4>1. CASE pc[h] = "update" /\ v = Updated(h)
        <5>1. job[h].firing \in BOOLEAN
          BY <4>1 DEF Inv, JobOK, Job
        <5> QED BY <1>1, <3>1, <4>1, <5>1, CopyDecides, ObservedGap DEF CounterGap
      <4>2. CASE pc[h] = "restorePut" /\ v = Restored(h)
        BY <4>2 DEF InitialGap, Restored
      <4> QED BY <2>2, <4>1, <4>2 DEF Stores
    <3> QED BY <3>1, <3>2 DEF CounterGap, Inv, TypeOK
  <2> QED BY <2>1, <2>2, StepWrites DEF Inv
<1> QED BY <1>4, <1>5

\* Everything else keeps the gaps.
LEMMA GapInv ==
  Inv /\ InitialOK /\ InitialGap /\ CounterGap /\ [Next]_vars => InitialGap' /\ CounterGap'
<1> SUFFICES ASSUME Inv, InitialOK, InitialGap, CounterGap, [Next]_vars
             PROVE  InitialGap' /\ CounterGap'
  OBVIOUS
<1>1. Inv'
  BY NextInv
<1>2. CASE \E h \in Handlers : Step(h)
  BY <1>1, <1>2, GapStep
<1>3. CASE ~\E h \in Handlers : Step(h)
  <2>1. CounterGap'
    BY <1>3, OthersInitial DEF CounterGap
  <2>2. InitialGap'
    BY <1>3, OthersInitial DEF InitialGap, ItemIn
  <2> QED BY <2>1, <2>2
<1> QED BY <1>2, <1>3

\* The strengthening, and why it holds at the start.
LEMMA InitGap == Init => Inv /\ InitialOK /\ InitialGap /\ CounterGap
<1> SUFFICES ASSUME Init PROVE InitialOK /\ InitialGap /\ CounterGap
  BY InitInv
<1>1. Gap(NoItem)
  BY DEF Gap, NoItem
<1> QED BY <1>1 DEF Init, InitialOK, InitialGap, CounterGap

\* What all of the below rests on.
LEMMA LedgerInvariance == Spec => [](Inv /\ InitialOK /\ InitialGap /\ CounterGap)
<1>1. Inv /\ InitialOK /\ InitialGap /\ CounterGap /\ [Next]_vars
        => (Inv /\ InitialOK /\ InitialGap /\ CounterGap)'
  BY NextInv, InitialInv, GapInv
<1> QED BY <1>1, InitGap, PTL DEF Spec

\* The counters of limited support never drift: whatever conflicts, fails, is restored over
\* the update of another, or crashes, one has been sent at most that has not been removed.
THEOREM CountersKept == Spec => []CounterGap
BY LedgerInvariance, PTL

-----------------------------------------------------------------------------
\* The resend window.

\* Only an accepted update of a due notification claims.
LEMMA ClaimDecides ==
  ASSUME Inv, [Next]_vars, NEW h \in Handlers, Claims(h)
  PROVE  h \in current /\ CanSend(h) /\ Ledger!MayNotify(ItemIn(h))
<1>1. pc[h] = "update" /\ pc'[h] = "send"
  BY DEF Claims
<1>2. PICK g \in Handlers : Step(g)
  BY <1>1, OthersInitial
<1>3. g = h
  BY <1>1, <1>2, StepGoes DEF Goes, Inv, TypeOK
<1>4. h \in current /\ Acts(h)
  BY <1>1, <1>2, <1>3, StepWrites DEF Keeps, Stores, Inv
<1>5. job[h].firing
  <2>1. PICK l, j, c : Goes(h, l, j, c) /\ Way(h, l, j, c)
    BY <1>2, <1>3, StepGoes DEF Inv
  <2>2. l = "send"
    BY <1>1, <2>1 DEF Goes, Inv, TypeOK
  <2> QED BY <2>1, <2>2 DEF Way
<1> QED BY <1>1, <1>4, <1>5, CopyDecides DEF Acts

\* A notification is claimed only if the stored item allows it, although the decision is
\* taken on a copy: the update that claims is accepted only while the copy is current.
THEOREM ResendWindowRespected == Spec => RespectsResendWindow
<1> DEFINE Allowed(h) ==
      /\ IsLS(ItemIn(h)) => rec[ItemIn(h)].fired = rec[ItemIn(h)].resolved
      /\ rec[ItemIn(h)].last = 0 \/ now > rec[ItemIn(h)].last + DontResend(ItemIn(h))
<1>1. ASSUME Inv, CounterGap, [Next]_vars, NEW h \in Handlers, Claims(h)
      PROVE  Allowed(h)
  <2>1. Ledger!MayNotify(ItemIn(h))
    BY <1>1, ClaimDecides
  <2>2. ItemIn(h) \in Items /\ rec[ItemIn(h)] \in Item
    BY <1>1, Known DEF Claims, Inv, TypeOK
  <2>3. IsLS(ItemIn(h)) => rec[ItemIn(h)].fired = rec[ItemIn(h)].resolved
    <3>1. rec[ItemIn(h)].fired \in Nat /\ rec[ItemIn(h)].resolved \in Nat
      BY <2>2 DEF Item
    <3>2. IsLS(ItemIn(h)) => ~(rec[ItemIn(h)].fired > rec[ItemIn(h)].resolved)
      BY <2>1, SameOperators DEF Ledger!MayNotify, Ledger!InSupport
    <3>3. IsLS(ItemIn(h)) => rec[ItemIn(h)].resolved <= rec[ItemIn(h)].fired
      BY <1>1, <2>2 DEF CounterGap, Gap
    <3> QED BY <3>1, <3>2, <3>3
  <2>4. rec[ItemIn(h)].last = 0 \/ now > rec[ItemIn(h)].last + DontResend(ItemIn(h))
    BY <2>1, SameOperators DEF Ledger!MayNotify
  <2> QED BY <2>3, <2>4
<1>2. Inv /\ CounterGap /\ [Next]_vars => [\A h \in Handlers : Claims(h) => Allowed(h)]_vars
  BY <1>1
<1>3. Spec => [][\A h \in Handlers : Claims(h) => Allowed(h)]_vars
  BY <1>2, LedgerInvariance, PTL DEF Spec
<1> QED BY <1>3 DEF RespectsResendWindow

-----------------------------------------------------------------------------
\* The refinement.

Early == {"idle", "retrieve", "create", "update"}

\* What is open for a handler, before and after a step.
LEMMA OpenedAt ==
  ASSUME NEW h \in Handlers
  PROVE  /\ pc[h] \in Early => Opened[h] = Ledger!None
         /\ pc[h] \notin Early => Opened[h] = [item |-> ItemIn(h), initial |-> ctx[h].initial]
         /\ pc'[h] \in Early => Opened'[h] = Ledger!None
         /\ pc'[h] \notin Early =>
              Opened'[h] = [item |-> job'[h].item, initial |-> ctx'[h].initial]
<1>1. Ledger!None = [item |-> "none", initial |-> NoItem]
  BY DEF Ledger!None, Ledger!NoItem, NoItem
<1> QED BY <1>1 DEF Opened, Early, ItemIn

\* A step of a handler takes no time, and opens or closes nothing but its own.
LEMMA OpenedOthers ==
  ASSUME Inv, NEW h \in Handlers, Step(h)
  PROVE  now' = now /\ Opened' = [Opened EXCEPT ![h] = Opened'[h]]
<1>1. now' = now
  BY Zenon DEF Step, Retrieve, Create, Claim, Decline, Resolve, Conflict, GiveUp, SendOK,
     SendRateLimited, SendFails, KeepBackoff, FindBackoff, DeleteBackoff, List, Remove,
     RemoveFails, Removed, RestoreGet, RestorePut, RestoreFails
<1>2. ASSUME NEW g \in Handlers, g # h
      PROVE  pc'[g] = pc[g] /\ job'[g] = job[g] /\ ctx'[g] = ctx[g]
  BY <1>2, StepGoes DEF Goes, Inv, TypeOK
<1>3. ASSUME NEW g \in Handlers, g # h
      PROVE  Opened'[g] = Opened[g]
  BY <1>2, <1>3 DEF Opened, ItemIn
<1> QED BY <1>1, <1>3 DEF Opened

\* A step of a handler is one of the ledger, or changes nothing in it.
LEMMA StepRefines ==
  ASSUME Inv, InitialOK, NEW h \in Handlers, Step(h)
  PROVE  \/ Ledger!Settle(h)
         \/ Ledger!Restore(h)
         \/ \E i \in Items, f \in BOOLEAN : Ledger!Open(h, i, f) \/ Ledger!Note(i, f)
         \/ UNCHANGED <<now, rec, Opened>>
<1>1. now' = now /\ Opened' = [Opened EXCEPT ![h] = Opened'[h]]
  BY OpenedOthers
<1>2. Opened = [Opened EXCEPT ![h] = Opened[h]]
  BY DEF Opened
<1>3. PICK l, j, c : Goes(h, l, j, c) /\ Way(h, l, j, c)
  BY StepGoes DEF Inv
<1>4. pc'[h] = l /\ pc[h] # "idle"
  BY <1>3, StepBusy DEF Goes, Inv, TypeOK
<1>5. job[h] \in Job /\ ItemIn(h) \in Items /\ (job[h].firing \/ IsLS(ItemIn(h)))
  BY <1>4, Known DEF Inv, JobOK
<1>6. CASE Keeps(h)
  <2>1. CASE pc'[h] \in Early
    BY <1>1, <1>6, <2>1, OpenedAt DEF Ledger!Settle, Keeps
  <2>2. CASE pc'[h] \notin Early
    <3>1. pc[h] \notin Early
      BY <1>3, <1>4, <1>6, <2>2 DEF Way, Keeps, Early
    <3>2. job'[h] = job[h] /\ ctx'[h].initial = ctx[h].initial
      BY <2>2, <3>1, InitialStep DEF Early
    <3>3. Opened'[h] = Opened[h]
      BY <2>2, <3>1, <3>2, OpenedAt DEF ItemIn
    <3> QED BY <1>1, <1>2, <1>6, <3>3 DEF Keeps
  <2> QED BY <2>1, <2>2
<1>7. ASSUME NEW v, Stores(h, v), pc[h] = "update", v = Updated(h)
      PROVE  Ledger!Open(h, ItemIn(h), job[h].firing) \/ Ledger!Note(ItemIn(h), job[h].firing)
  <2>1. /\ Acts(h) <=> Ledger!Due(ItemIn(h), job[h].firing)
        /\ Updated(h) = Ledger!Observed(ItemIn(h), job[h].firing)
        /\ ctx[h].initial = Found(rec[ItemIn(h)])
    BY <1>7, CopyDecides DEF Stores
  <2>2. Ledger!Observe(ItemIn(h), job[h].firing)
    BY <1>1, <1>5, <1>7, <2>1, SameOperators DEF Ledger!Observe, Stores
  <2>3. Opened[h] = Ledger!None
    BY <1>7, OpenedAt DEF Early
  <2>4. CASE pc'[h] \in {"send", "list"} /\ Acts(h)
    <3>1. job'[h] = job[h] /\ ctx'[h].initial = Found(rec[ItemIn(h)])
      BY <1>7, <2>1, <2>4, InitialStep
    <3>2. Opened'[h] = [item |-> ItemIn(h), initial |-> Ledger!Found(rec[ItemIn(h)])]
      BY <2>4, <3>1, OpenedAt, SameOperators DEF Early, ItemIn
    <3> QED BY <1>1, <2>1, <2>2, <2>3, <2>4, <3>2 DEF Ledger!Open
  <2>5. CASE pc'[h] = "idle" /\ (~Acts(h) \/ "lostResponse" \in Faults)
    <3>1. Opened' = Opened
      BY <1>1, <1>2, <2>3, <2>5, OpenedAt DEF Early
    <3> QED BY <2>1, <2>2, <2>5, <3>1 DEF Ledger!Note
  <2> QED BY <1>7, <2>4, <2>5 DEF Stores
<1>8. ASSUME NEW v, Stores(h, v), pc[h] = "restorePut", pc'[h] = "idle", v = Restored(h)
      PROVE  Ledger!Restore(h)
  <2>1. Opened[h] = [item |-> ItemIn(h), initial |-> ctx[h].initial]
    BY <1>8, OpenedAt DEF Early
  <2>2. ctx[h].initial.stored
    BY <1>8 DEF InitialOK
  <2>3. Opened[h] # Ledger!None
    BY <2>1, <2>2 DEF Ledger!None, Ledger!NoItem
  <2>4. Opened'[h] = Ledger!None
    BY <1>8, OpenedAt DEF Early
  <2> QED BY <1>1, <1>8, <2>1, <2>3, <2>4 DEF Ledger!Restore, Stores, Restored
<1>9. ASSUME NEW v, Stores(h, v)
      PROVE  \/ Ledger!Restore(h)
             \/ \E i \in Items, f \in BOOLEAN : Ledger!Open(h, i, f) \/ Ledger!Note(i, f)
  <2>1. CASE pc[h] = "update" /\ v = Updated(h)
    <3>1. job[h].firing \in BOOLEAN
      BY <1>5 DEF Job
    <3> QED BY <1>5, <1>7, <1>9, <2>1, <3>1
  <2>2. CASE pc[h] = "restorePut" /\ pc'[h] = "idle" /\ v = Restored(h)
    BY <1>8, <1>9, <2>2
  <2> QED BY <1>9, <2>1, <2>2 DEF Stores
<1> QED BY <1>6, <1>9, StepWrites DEF Inv

\* The handlers, however they interleave, conflict, fail and die, change the records as the
\* ledger does: by alerts observed in one step, and by items put back.
THEOREM FleetRefinement == Spec => ImplementsFleetLedger
<1>1. Init => Ledger!Init
  BY DEF Init, Ledger!Init, Ledger!None, Ledger!NoItem, NoItem, Opened
<1>2. ASSUME Inv, InitialOK, [Next]_vars
      PROVE  [Ledger!Next]_(Ledger!vars)
  <2>1. CASE \E h \in Handlers : Step(h)
    BY <1>2, <2>1, StepRefines DEF Ledger!Next, Ledger!vars
  <2>2. CASE Tick
    <3>1. Opened' = Opened
      BY <2>2 DEF Tick, agent, Opened, ItemIn
    <3> QED BY <2>2, <3>1 DEF Tick, Ledger!Tick, Ledger!Next
  <2>3. CASE Crash
    <3>1. Opened' = [h \in Handlers |-> Ledger!None]
      BY <2>3 DEF Crash, Opened, Ledger!None, Ledger!NoItem, NoItem
    <3> QED BY <2>3, <3>1 DEF Crash, Ledger!Crash, Ledger!Next
  <2>4. ASSUME NEW g \in Handlers, NEW i \in Items, Receive(g, i)
        PROVE  UNCHANGED <<now, rec, Opened>>
    <3>1. UNCHANGED <<now, rec>>
      BY <2>4 DEF Receive, ReceiveFiring, ReceiveResolved
    <3>2. \A h \in Handlers :
            \/ h = g /\ pc[h] = "idle" /\ pc'[h] \in {"idle", "retrieve"}
            \/ pc'[h] = pc[h] /\ job'[h] = job[h] /\ ctx'[h] = ctx[h]
      BY <1>2, <2>4 DEF Receive, ReceiveFiring, ReceiveResolved, Begin, Inv, TypeOK
    <3>3. Opened' = Opened
      BY <3>2 DEF Opened, ItemIn
    <3> QED BY <3>1, <3>3
  <2>5. CASE UNCHANGED vars
    BY <2>5 DEF vars, agent, Opened, ItemIn, Ledger!vars
  <2> QED BY <1>2, <2>1, <2>2, <2>3, <2>4, <2>5 DEF Next, Ledger!vars
<1>3. Inv /\ InitialOK /\ [Next]_vars => [Ledger!Next]_(Ledger!vars)
  BY <1>2
<1>4. Spec => Ledger!Spec
  BY <1>1, <1>3, LedgerInvariance, PTL DEF Spec, Ledger!Spec
<1> QED BY <1>4 DEF ImplementsFleetLedger
=============================================================================
