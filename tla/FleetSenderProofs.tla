--------------------------- MODULE FleetSenderProofs --------------------------
(***************************************************************************)
(* What the handlers of the fleet webhook do to each other while they      *)
(* send: the stamp of a claim keeps other senders of the item out for as   *)
(* long as the resend window, and a success clears no backoff that another *)
(* sender of the key has met beside it, however long either takes.         *)
(***************************************************************************)
EXTENDS FleetLedgerProofs, MCFleetBackoff

\* While the outcome of a claim is open, its stamp is in the record, and within the window.
ClaimOK(h) ==
  /\ ctx[h].start \in 1 .. now
  /\ now <= ctx[h].start + MaxSendTime
  /\ ~IsLS(ItemIn(h)) => rec[ItemIn(h)].last = ctx[h].start

StampOK == \A h \in Handlers : Unsettled(h) => ClaimOK(h)

SenderInv == Inv /\ StampOK /\ OneSenderPerItem

-----------------------------------------------------------------------------
\* The stamp of an open claim keeps everybody out.
LEMMA NotBefore ==
  ASSUME SendsFitWindow, SenderInv, NEW h \in Handlers, Unsettled(h), ~IsLS(ItemIn(h))
  PROVE  /\ ~Ledger!MayNotify(ItemIn(h))
         /\ ItemIn(h) \in Items /\ rec[ItemIn(h)].last \in Nat
<1>1. ItemIn(h) \in Items
  BY Known DEF Unsettled, SenderInv, Inv
<1>2. MaxSendTime \in Nat /\ DontResend(ItemIn(h)) \in Nat /\ MaxSendTime <= DontResend(ItemIn(h))
  BY <1>1, FleetAssumption, ItemAssumption DEF SendsFitWindow, DontResend, Templates
<1>3. rec[ItemIn(h)].last = ctx[h].start /\ ctx[h].start \in 1 .. now
        /\ now <= ctx[h].start + MaxSendTime /\ now \in Nat
  BY FleetAssumption DEF SenderInv, StampOK, ClaimOK, Inv, TypeOK
<1>4. ~(rec[ItemIn(h)].last = 0 \/ now > rec[ItemIn(h)].last + DontResend(ItemIn(h)))
  BY <1>2, <1>3
<1> QED BY <1>1, <1>3, <1>4, SameOperators DEF Ledger!MayNotify

\* A claim is open because it has been, or because this step makes it.
LEMMA OpenStep ==
  ASSUME Inv, NEW h \in Handlers, Step(h), Unsettled(h)'
  PROVE  /\ job'[h] = job[h]
         /\ \/ Unsettled(h) /\ ctx'[h].start = ctx[h].start
            \/ Claims(h) /\ job[h].firing /\ ctx'[h].start = now
<1>1. PICK l, j, c : Goes(h, l, j, c) /\ Way(h, l, j, c)
  BY StepGoes DEF Inv
<1>2. pc'[h] = l /\ job'[h] = j /\ ctx'[h] = c
  BY <1>1 DEF Goes, Inv, TypeOK
<1>3. l \in {"send", "load", "delete", "restore", "restorePut"} /\ j.firing
  BY <1>2 DEF Unsettled
<1>4. ctx[h] \in ContextType /\ JobOK
  BY DEF Inv, TypeOK, ContextType
<1>5. j = job[h]
  BY <1>1, <1>3 DEF Way
<1>6. CASE pc[h] = "update"
  <2>1. l = "send" /\ c = [ctx[h] EXCEPT !.item = Updated(h), !.tries = 0, !.start = now]
    BY <1>1, <1>3, <1>6 DEF Way
  <2>2. c.start = now
    BY <1>4, <2>1 DEF ContextType
  <2> QED BY <1>2, <1>3, <1>5, <1>6, <2>1, <2>2 DEF Claims
<1>7. CASE pc[h] # "update"
  <2>1. c = ctx[h] /\ pc[h] \in {"send", "load", "restore"}
    BY <1>1, <1>3, <1>4, <1>5, <1>7 DEF Way, JobOK
  <2> QED BY <1>2, <1>3, <1>5, <2>1 DEF Unsettled
<1> QED BY <1>6, <1>7

\* What others store while a claim is open keeps its stamp.
LEMMA StampKept ==
  ASSUME SendsFitWindow, SenderInv, NEW g \in Handlers, Step(g), NEW h \in Handlers, g # h,
         Unsettled(h), ~IsLS(ItemIn(h))
  PROVE  rec'[ItemIn(h)].last = rec[ItemIn(h)].last
<1>1. CASE Keeps(g)
  BY <1>1 DEF Keeps
<1>2. ASSUME NEW v, Stores(g, v)
      PROVE  rec'[ItemIn(h)].last = rec[ItemIn(h)].last
  <2>1. ItemIn(h) \in Items /\ rec' = [rec EXCEPT ![ItemIn(g)] = v] /\ rec \in [Items -> Item]
    BY <1>2, NotBefore DEF Stores, SenderInv, Inv, TypeOK
  <2>2. CASE ItemIn(g) # ItemIn(h)
    BY <2>1, <2>2
  <2>3. CASE ItemIn(g) = ItemIn(h)
    <3>1. job[g].firing
      BY <1>2, <2>3 DEF Stores, SenderInv, Inv, JobOK
    <3>2. pc[g] # "restorePut"
      BY <2>3, <3>1 DEF SenderInv, OneSenderPerItem, SameItemUnsettled, Unsettled
    <3>3. v = Updated(g) /\ pc[g] = "update" /\ g \in current
      BY <1>2, <3>2 DEF Stores
    <3>4. Updated(g) = Ledger!Observed(ItemIn(h), job[g].firing)
      BY <2>3, <3>3, CopyDecides DEF SenderInv
    <3>5. Updated(g) = Found(rec[ItemIn(h)])
      BY <3>1, <3>4, NotBefore, SameOperators DEF Ledger!Observed
    <3>6. Found(rec[ItemIn(h)]).last = rec[ItemIn(h)].last
      BY <2>1 DEF Found, Item
    <3> QED BY <2>1, <2>3, <3>3, <3>5, <3>6
  <2> QED BY <2>2, <2>3
<1> QED BY <1>1, <1>2, StepWrites DEF SenderInv, Inv

\* A claim stamps the item.
LEMMA ClaimStamps ==
  ASSUME Inv, NEW h \in Handlers, Step(h), Claims(h), job[h].firing
  PROVE  rec'[ItemIn(h)].last = now
<1>1. PICK v : Stores(h, v)
  BY StepWrites DEF Inv, Claims, Keeps
<1>2. v = Updated(h) /\ CanSend(h) /\ rec' = [rec EXCEPT ![ItemIn(h)] = v]
  BY <1>1 DEF Claims, Stores, Acts
<1>3. Updated(h) = Counted(ctx[h].item, now)
  BY <1>2 DEF Updated
<1>4. ctx[h].item \in Item /\ now \in Nat /\ ItemIn(h) \in Items /\ rec \in [Items -> Item]
  BY Known, FleetAssumption DEF Claims, Inv, TypeOK
<1>5. Counted(ctx[h].item, now).last = now
  BY <1>4, ItemSteps
<1> QED BY <1>2, <1>3, <1>4, <1>5

\* The step of a handler keeps the stamps and the exclusion.
LEMMA SenderStep ==
  ASSUME SendsFitWindow, SenderInv, NEW g \in Handlers, Step(g)
  PROVE  StampOK' /\ OneSenderPerItem'
<1> USE DEF SenderInv
<1>1. now' = now /\ now \in Nat /\ now >= 1 /\ MaxSendTime \in Nat
  BY OpenedOthers, FleetAssumption DEF Inv, TypeOK
<1>2. ASSUME NEW h \in Handlers, h # g
      PROVE  pc'[h] = pc[h] /\ job'[h] = job[h] /\ ctx'[h] = ctx[h]
  BY <1>2, StepGoes DEF Goes, Inv, TypeOK
<1>3. ASSUME NEW h \in Handlers, Unsettled(h)'
      PROVE  /\ job'[h] = job[h]
             /\ \/ Unsettled(h)
                \/ h = g /\ Claims(h) /\ job[h].firing
  BY <1>2, <1>3, OpenStep DEF Unsettled
<1>4. ASSUME NEW h \in Handlers, Unsettled(h)'
      PROVE  ClaimOK(h)'
  <2>1. CASE h # g
    <3>1. Unsettled(h) /\ ctx'[h] = ctx[h] /\ job'[h] = job[h]
      BY <1>2, <1>4, <2>1 DEF Unsettled
    <3>2. ~IsLS(ItemIn(h)) => rec'[ItemIn(h)].last = rec[ItemIn(h)].last
      BY <2>1, <3>1, StampKept
    <3> QED BY <1>1, <3>1, <3>2 DEF StampOK, ClaimOK, ItemIn
  <2>2. CASE h = g /\ Unsettled(h) /\ ctx'[h].start = ctx[h].start
    <3>1. rec' = rec
      BY <1>4, <2>2, StepWrites DEF Keeps, Stores, Unsettled, Inv
    <3> QED BY <1>1, <1>3, <1>4, <2>2, <3>1 DEF StampOK, ClaimOK, ItemIn
  <2>3. CASE h = g /\ Claims(h) /\ job[h].firing /\ ctx'[h].start = now
    <3>1. rec'[ItemIn(h)].last = now
      BY <2>3, ClaimStamps
    <3> QED BY <1>1, <1>3, <1>4, <2>3, <3>1 DEF ClaimOK, ItemIn
  <2> QED BY <1>4, <2>1, <2>2, <2>3, OpenStep
<1>5. ASSUME NEW h \in Handlers, Unsettled(h), h # g, Claims(g), ItemIn(g) = ItemIn(h),
             ~IsLS(ItemIn(h)), job[g].firing
      PROVE  FALSE
  <2>1. g \in current /\ Acts(g)
    BY <1>5, StepWrites DEF Claims, Keeps, Stores, Inv
  <2>2. CanSend(g)
    BY <1>5, <2>1 DEF Acts
  <2> QED BY <1>5, <2>1, <2>2, CopyDecides, NotBefore DEF Claims
<1>6. OneSenderPerItem'
  <2> SUFFICES ASSUME NEW f \in Handlers, NEW h \in Handlers, SameItemUnsettled(f, h)',
                      ~IsLS(ItemIn(f))'
               PROVE  FALSE
    BY DEF OneSenderPerItem, SameItemUnsettled
  <2>1. /\ f # h /\ job'[f] = job[f] /\ job'[h] = job[h] /\ ItemIn(f) = ItemIn(h)
        /\ ~IsLS(ItemIn(f))
    BY <1>3 DEF SameItemUnsettled, ItemIn
  <2>2. ~(Unsettled(f) /\ Unsettled(h))
    BY <2>1 DEF OneSenderPerItem, SameItemUnsettled
  <2> QED BY <1>3, <1>5, <2>1, <2>2 DEF SameItemUnsettled
<1> QED BY <1>4, <1>6 DEF StampOK

\* Time waits for open claims, and nothing else touches them.
LEMMA SenderNext == SendsFitWindow => (SenderInv /\ [Next]_vars => SenderInv')
<1> SUFFICES ASSUME SendsFitWindow, SenderInv, [Next]_vars PROVE StampOK' /\ OneSenderPerItem'
  BY NextInv DEF SenderInv
<1>1. CASE \E h \in Handlers : Step(h)
  BY <1>1, SenderStep
<1>2. CASE Tick
  <2>1. /\ now \in Nat /\ now' = now + 1 /\ MaxSendTime \in Nat
        /\ UNCHANGED <<rec, pc, job, ctx>>
    BY <1>2, FleetAssumption DEF Tick, agent, SenderInv, Inv, TypeOK
  <2>2. ASSUME NEW h \in Handlers, Unsettled(h)
        PROVE  ClaimOK(h)'
    <3>1. ClaimOK(h) /\ ctx[h].start \in Nat /\ now < ctx[h].start + MaxSendTime
      BY <1>2, <2>2 DEF Tick, SenderInv, StampOK, ClaimOK
    <3> QED BY <2>1, <3>1 DEF ClaimOK, ItemIn
  <2> QED BY <2>1, <2>2 DEF StampOK, OneSenderPerItem, SameItemUnsettled, Unsettled, ItemIn,
                            SenderInv
<1>3. CASE ~Tick /\ ~\E h \in Handlers : Step(h)
  <2>1. UNCHANGED now
    BY <1>3 DEF Next, Crash, Receive, ReceiveFiring, ReceiveResolved, vars
  <2>2. /\ UNCHANGED rec
        /\ \A h \in Handlers : Unsettled(h)' =>
             Unsettled(h) /\ job'[h] = job[h] /\ ctx'[h] = ctx[h]
    BY <1>3, OthersInitial DEF Unsettled, SenderInv
  <2> QED BY <2>1, <2>2 DEF StampOK, ClaimOK, OneSenderPerItem, SameItemUnsettled, ItemIn,
                            SenderInv
<1> QED BY <1>1, <1>2, <1>3

\* Two handlers never have a service log about the same item in flight, if no send takes
\* longer than the resend window: not even after a restore, a lost answer or a crash.
THEOREM OneSender ==
  ASSUME SendsFitWindow
  PROVE  Spec => []OneSenderPerItem
<1>1. Init => SenderInv
  BY InitInv DEF Init, SenderInv, StampOK, OneSenderPerItem, SameItemUnsettled, Unsettled
<1>2. SenderInv /\ [Next]_vars => SenderInv'
  BY SenderNext
<1>3. SenderInv => OneSenderPerItem
  BY DEF SenderInv
<1> QED BY <1>1, <1>2, <1>3, PTL DEF Spec

-----------------------------------------------------------------------------
\* The backoffs, without any bound on sends.

\* A claim that is open was made at a time that has come.
StartOK == \A h \in Handlers : Unsettled(h) => ctx[h].start \in 1 .. now

\* A handler beside whose send another met a 429 finds no backoff, or one as recent as its send.
LimitedOK ==
  \A h \in limited :
    /\ h \in Handlers
    /\ pc[h] \in {"send", "load"}
    /\ backoff[Key(h)] = 0 \/ ctx[h].start <= backoff[Key(h)]

BackoffInv == Inv /\ StartOK /\ LimitedOK

\* Who changes the backoffs, and how a handler gets to delete one.
LEMMA BackoffStep ==
  ASSUME Inv, NEW h \in Handlers, Step(h)
  PROVE  /\ \/ UNCHANGED backoff
            \/ pc[h] = "send" /\ ~IsLS(ItemIn(h)) /\ backoff' = [backoff EXCEPT ![Key(h)] = now]
            \/ pc[h] = "delete" /\ backoff' = [backoff EXCEPT ![Key(h)] = 0]
         /\ pc'[h] = "delete" => FindBackoff(h)
<1>1. CASE SendRateLimited(h) \/ DeleteBackoff(h)
  BY <1>1 DEF SendRateLimited, DeleteBackoff, Goto, Leave, Inv, TypeOK
<1>2. CASE FindBackoff(h)
  BY <1>2 DEF FindBackoff
<1>3. CASE ~(SendRateLimited(h) \/ DeleteBackoff(h) \/ FindBackoff(h))
  <2>1. UNCHANGED backoff
    BY <1>3, Zenon DEF Step, Retrieve, Create, Claim, Decline, Resolve, Conflict, GiveUp,
       SendOK, SendFails, KeepBackoff, List, Remove, RemoveFails, Removed, RestoreGet,
       RestorePut, RestoreFails
  <2>2. pc'[h] # "delete"
    <3>1. PICK l, j, c : Goes(h, l, j, c) /\ Way(h, l, j, c)
      BY StepGoes DEF Inv
    <3>2. pc'[h] = l
      BY <3>1 DEF Goes, Inv, TypeOK
    <3>3. l = "delete" => pc[h] = "load"
      BY <3>1 DEF Way
    <3>4. pc[h] = "load" => KeepBackoff(h)
      BY <1>3 DEF Step, Retrieve, Create, Claim, Decline, Resolve, Conflict, GiveUp,
         SendOK, SendFails, List, Remove, RemoveFails, Removed, RestoreGet, RestorePut,
         RestoreFails
    <3>5. KeepBackoff(h) => pc'[h] = "idle"
      BY DEF KeepBackoff, Leave, Inv, TypeOK
    <3> QED BY <3>2, <3>3, <3>4, <3>5
  <2> QED BY <2>1, <2>2
<1> QED BY <1>1, <1>2, <1>3

\* A backoff stays, is removed, or is set to the present.
LEMMA BackoffNext ==
  ASSUME Inv, [Next]_vars, NEW k \in Keys
  PROVE  backoff'[k] \in {backoff[k], 0, now}
<1>1. backoff \in [Keys -> 0 .. MaxTime]
  BY DEF Inv, TypeOK
<1>2. ASSUME NEW h \in Handlers, Step(h)
      PROVE  backoff'[k] \in {backoff[k], 0, now}
  BY <1>1, <1>2, BackoffStep
<1>3. ASSUME NEW h \in Handlers, NEW i \in Items, Receive(h, i)
      PROVE  backoff'[k] \in {backoff[k], 0, now}
  BY <1>1, <1>3 DEF Receive, ReceiveFiring, ReceiveResolved
<1>4. CASE Tick \/ UNCHANGED vars
  BY <1>4 DEF Tick, vars, agent
<1>5. CASE Crash
  BY <1>5 DEF Crash
<1> QED BY <1>2, <1>3, <1>4, <1>5 DEF Next

\* Claims are made at the present, and time only grows.
LEMMA StartNext == Inv /\ StartOK /\ [Next]_vars => StartOK'
<1> SUFFICES ASSUME Inv, StartOK, [Next]_vars, NEW h \in Handlers, Unsettled(h)'
             PROVE  ctx'[h].start \in 1 .. now'
  BY DEF StartOK
<1>1. now \in Nat /\ now >= 1
  BY FleetAssumption DEF Inv, TypeOK
<1>2. ASSUME NEW g \in Handlers, Step(g)
      PROVE  ctx'[h].start \in 1 .. now'
  <2>1. now' = now
    BY <1>2, OpenedOthers
  <2>2. CASE g = h
    BY <1>1, <1>2, <2>1, <2>2, OpenStep DEF StartOK
  <2>3. CASE g # h
    <3>1. pc'[h] = pc[h] /\ job'[h] = job[h] /\ ctx'[h] = ctx[h]
      BY <1>2, <2>3, StepGoes DEF Goes, Inv, TypeOK
    <3> QED BY <2>1, <3>1 DEF StartOK, Unsettled
  <2> QED BY <2>2, <2>3
<1>3. CASE Tick
  BY <1>1, <1>3 DEF Tick, agent, StartOK, Unsettled
<1>4. CASE ~Tick /\ ~\E g \in Handlers : Step(g)
  <2>1. UNCHANGED now
    BY <1>4 DEF Next, Crash, Receive, ReceiveFiring, ReceiveResolved, vars
  <2>2. Unsettled(h) /\ ctx'[h] = ctx[h]
    BY <1>4, OthersInitial DEF Unsettled
  <2> QED BY <2>1, <2>2 DEF StartOK
<1> QED BY <1>2, <1>3, <1>4

\* A handler that goes on sending has the alert and the context it had, and it goes on to
\* delete a backoff only after finding an older one.
LEMMA StillSending ==
  ASSUME Inv, [Next]_vars, NEW h \in Handlers, pc[h] \in {"send", "load"},
         pc'[h] \in {"send", "load", "delete"}
  PROVE  /\ job'[h] = job[h] /\ ctx'[h] = ctx[h]
         /\ pc'[h] = "delete" => IsOlder(h)
<1>1. CASE Step(h)
  <2>1. PICK l, j, c : Goes(h, l, j, c) /\ Way(h, l, j, c)
    BY <1>1, StepGoes DEF Inv
  <2>2. pc'[h] = l /\ job'[h] = j /\ ctx'[h] = c
    BY <2>1 DEF Goes, Inv, TypeOK
  <2>3. j = job[h] /\ c = ctx[h]
    BY <2>1, <2>2 DEF Way
  <2>4. pc'[h] = "delete" => IsOlder(h)
    BY <1>1, BackoffStep DEF FindBackoff
  <2> QED BY <2>2, <2>3, <2>4
<1>2. ASSUME NEW g \in Handlers, Step(g), g # h
      PROVE  pc'[h] = pc[h] /\ job'[h] = job[h] /\ ctx'[h] = ctx[h]
  BY <1>2, StepGoes DEF Goes, Inv, TypeOK
<1>3. CASE ~\E g \in Handlers : Step(g)
  BY <1>3, OthersInitial
<1> QED BY <1>1, <1>2, <1>3

\* Once a 429 has been met beside a send, the backoff found is never older than that send.
LEMMA LimitedNext ==
  ASSUME BackoffInv, LNext
  PROVE  LimitedOK'
<1> SUFFICES ASSUME NEW h \in limited'
             PROVE  /\ h \in Handlers
                    /\ pc'[h] \in {"send", "load"}
                    /\ backoff'[Key(h)'] = 0 \/ ctx'[h].start <= backoff'[Key(h)']
  BY DEF LimitedOK
<1>1. /\ h \in Handlers /\ pc'[h] \in {"send", "load", "delete"}
      /\ h \in limited \/ LimitedBeside(h)
  BY DEF LNext
<1>2. Inv /\ [Next]_vars /\ pc[h] \in {"send", "load"}
  BY <1>1 DEF BackoffInv, LNext, LimitedOK, LimitedBeside
<1>3. /\ job'[h] = job[h] /\ ctx'[h] = ctx[h] /\ Key(h)' = Key(h)
      /\ pc'[h] = "delete" => IsOlder(h)
  BY <1>1, <1>2, StillSending DEF Key, ItemIn
<1>4. Key(h) \in Keys /\ ctx[h].start \in 1 .. now /\ now \in Nat
  <2>1. Unsettled(h)
    BY <1>1, <1>2 DEF Unsettled, Inv, JobOK
  <2> QED BY <1>1, <1>2, <2>1, Known, FleetAssumption DEF BackoffInv, StartOK, Inv, TypeOK
<1>5. CASE h \in limited
  <2>1. backoff[Key(h)] = 0 \/ ctx[h].start <= backoff[Key(h)]
    BY <1>5 DEF BackoffInv, LimitedOK
  <2>2. backoff[Key(h)] \in Nat
    BY <1>2, <1>4, FleetAssumption DEF Inv, TypeOK
  <2>3. ~IsOlder(h)
    BY <1>4, <2>1, <2>2 DEF IsOlder
  <2>4. backoff'[Key(h)] \in {backoff[Key(h)], 0, now}
    BY <1>2, <1>4, BackoffNext
  <2> QED BY <1>1, <1>3, <1>4, <2>1, <2>3, <2>4
<1>6. ASSUME NEW g \in Handlers \ {h}, SendRateLimited(g), Key(g) = Key(h)
      PROVE  pc'[h] = pc[h] /\ backoff'[Key(h)] = now
  BY <1>1, <1>2, <1>4, <1>6 DEF SendRateLimited, Goto, Inv, TypeOK
<1>7. CASE LimitedBeside(h)
  <2>1. pc'[h] = pc[h] /\ backoff'[Key(h)] = now
    BY <1>6, <1>7 DEF LimitedBeside
  <2> QED BY <1>1, <1>2, <1>3, <1>4, <2>1
<1> QED BY <1>1, <1>5, <1>7

\* The invariant holds in the specification with its history.
LEMMA BackoffInvariance == LSpec => []BackoffInv
<1>1. LInit => BackoffInv
  BY InitInv DEF LInit, Init, BackoffInv, StartOK, LimitedOK, Unsettled
<1>2. ASSUME BackoffInv, [LNext]_<<vars, limited>>
      PROVE  BackoffInv'
  <2>1. Inv' /\ StartOK'
    BY <1>2, NextInv, StartNext DEF LNext, BackoffInv
  <2>2. CASE LNext
    BY <1>2, <2>1, <2>2, LimitedNext DEF BackoffInv
  <2>3. CASE UNCHANGED <<vars, limited>>
    BY <1>2, <2>1, <2>3 DEF BackoffInv, LimitedOK, Key, ItemIn, vars, agent
  <2> QED BY <1>2, <2>1, <2>2, <2>3
<1>3. BackoffInv /\ [LNext]_<<vars, limited>> => BackoffInv'
  BY <1>2
<1> QED BY <1>1, <1>3, PTL DEF LSpec

\* A send that succeeds beside one of the same key that met a 429 leaves the backoffs alone,
\* for any items and keys and however long the two sends take.
THEOREM ConcurrentBackoffSurvives == LSpec => ConcurrentBackoffKept
<1> DEFINE Keeping ==
      \A h \in limited : pc[h] \in {"load", "delete"} /\ Step(h) => UNCHANGED backoff
<1>1. BackoffInv /\ [LNext]_<<vars, limited>> => [Keeping]_<<vars, limited>>
  <2> SUFFICES ASSUME BackoffInv, NEW h \in limited, pc[h] \in {"load", "delete"}, Step(h)
               PROVE  UNCHANGED backoff
    OBVIOUS
  <2>1. h \in Handlers /\ pc[h] = "load" /\ Inv
    BY DEF BackoffInv, LimitedOK
  <2> QED BY <2>1, BackoffStep
<1>2. LSpec => [][Keeping]_<<vars, limited>>
  BY <1>1, BackoffInvariance, PTL DEF LSpec
<1> QED BY <1>2 DEF ConcurrentBackoffKept
=============================================================================
