-------------------------- MODULE FleetReceiverProofs -------------------------
(***************************************************************************)
(* Proofs about WebhookRHOBSReceiver, for any number of alerts in          *)
(* processing, any items and records, any windows and any combination of   *)
(* faults: types, the optimistic lock, the counters.                       *)
(***************************************************************************)
EXTENDS WebhookRHOBSReceiver, TLAPS

Job == [item : Items, firing : BOOLEAN]
ContextType == [item : Item, initial : Item, wasLS : BOOLEAN, tries : 0 .. Steps,
                start : 0 .. MaxTime, listed : SUBSET (1 .. MaxReasons)]
Labels == {"idle", "retrieve", "create", "update", "send", "load", "delete",
           "list", "remove", "restore", "restorePut"}

\* A handler in processAlert has an alert; the two ways to notify, and what each is for.
JobOK ==
  \A h \in Handlers :
    /\ pc[h] # "idle" => job[h] \in Job
    /\ pc[h] \in {"send", "load", "delete"} => job[h].firing
    /\ pc[h] \in {"list", "remove"} => ~job[h].firing
    /\ pc[h] # "idle" => job[h].firing \/ IsLS(ItemIn(h))

InSupport(i, item) == IsLS(i) /\ item.fired > item.resolved

\* The optimistic lock: a handler whose update would be accepted has the stored item.
HasCopy(h) ==
  /\ pc[h] \in {"update", "restorePut"}
  /\ pc[h] = "update" =>
       /\ ctx[h].item = Found(rec[ItemIn(h)])
       /\ ctx[h].initial = ctx[h].item
       /\ ctx[h].wasLS = InSupport(ItemIn(h), rec[ItemIn(h)])

CopyOK == \A h \in current : HasCopy(h)

Inv == TypeOK /\ JobOK /\ CopyOK

-----------------------------------------------------------------------------
\* What the operators on items return.

\* An item that is read, counted or levelled is an item, and no gap opens.
LEMMA ItemSteps ==
  ASSUME NEW item \in Item, NEW t \in Nat
  PROVE  /\ Found(item) \in Item /\ Counted(item, t) \in Item /\ Levelled(item) \in Item
         /\ Found(item).fired = item.fired /\ Found(item).resolved = item.resolved
         /\ Found(item).last = item.last
         /\ Counted(item, t).fired = item.fired + 1 /\ Counted(item, t).resolved = item.resolved
         /\ Counted(item, t).last = t
         /\ Levelled(item).fired = item.fired /\ Levelled(item).resolved = item.fired
<1>1. item.fired + 1 \in Nat
  BY DEF Item
<1>2. ASSUME NEW n \in Nat
      PROVE  [item EXCEPT !.fired = n, !.last = t] \in Item
  BY DEF Item
<1>3. Counted(item, t) \in Item
  <2>1. Counted(item, t) = [item EXCEPT !.fired = item.fired + 1, !.last = t]
    BY Zenon DEF Counted
  <2> QED BY <1>1, <1>2, <2>1
<1>4. Found(item) \in Item /\ Levelled(item) \in Item
  BY DEF Found, Levelled, Item
<1>5. /\ Found(item).fired = item.fired /\ Found(item).resolved = item.resolved
      /\ Found(item).last = item.last
  BY DEF Found, Item
<1>6. /\ Counted(item, t).fired = item.fired + 1 /\ Counted(item, t).resolved = item.resolved
      /\ Counted(item, t).last = t
  BY Zenon DEF Counted, Item
<1>7. Levelled(item).fired = item.fired /\ Levelled(item).resolved = item.fired
  BY DEF Levelled, Item
<1> QED BY <1>3, <1>4, <1>5, <1>6, <1>7

\* A new item is one.
LEMMA NoItemType == NoItem \in Item
BY DEF NoItem, Item

\* An empty context is a context.
LEMMA NoCtxType == NoCtx \in ContextType
BY NoItemType, FleetAssumption DEF NoCtx, ContextType

-----------------------------------------------------------------------------
\* Where a step goes: it changes the handler's own variables, and one item at most.

\* What h does with its own variables, whatever else it does.
Goes(h, l, j, c) ==
  /\ pc' = [pc EXCEPT ![h] = l]
  /\ job' = [job EXCEPT ![h] = j]
  /\ ctx' = [ctx EXCEPT ![h] = c]

\* The ways of h through processAlert: from which label to which, with which alert and context.
\* An alert is dropped at the end and kept before.
Way(h, l, j, c) ==
  \/ l = "idle" /\ j = NoJob /\ c = NoCtx
  \/ /\ j = job[h]
     /\ \/ pc[h] = "retrieve" /\ l = "create" /\ c = ctx[h]
        \/ pc[h] \in {"retrieve", "create"} /\ l = "update" /\ c = Context(h)
        \/ pc[h] \in {"update", "create"} /\ l = "retrieve" /\ ctx[h].tries > 1
           /\ c = [ctx[h] EXCEPT !.tries = ctx[h].tries - 1]
        \/ pc[h] = "update" /\ job[h].firing /\ l = "send"
           /\ c = [ctx[h] EXCEPT !.item = Updated(h), !.tries = 0, !.start = now]
        \/ pc[h] = "update" /\ ~job[h].firing /\ l = "list"
           /\ c = [ctx[h] EXCEPT !.item = Updated(h), !.tries = 0]
        \/ pc[h] = "send" /\ l \in {"load", "restore"} /\ c = ctx[h]
        \/ pc[h] = "load" /\ l = "delete" /\ c = ctx[h]
        \/ pc[h] = "list" /\ l = "remove" /\ c = [ctx[h] EXCEPT !.listed = reasons[Key(h)]]
        \/ \E s \in SUBSET ctx[h].listed :
             /\ pc[h] \in {"list", "remove"} /\ l \in {"remove", "restore"}
             /\ l = "remove" => pc[h] = "remove"
             /\ c = [ctx[h] EXCEPT !.listed = s]
        \/ pc[h] = "restore" /\ l = "restorePut" /\ c = ctx[h]

\* Every step of a handler, and its start, is one of those.
LEMMA StepGoes ==
  ASSUME TypeOK, NEW h \in Handlers, Step(h)
  PROVE  \E l, j, c : Goes(h, l, j, c) /\ Way(h, l, j, c)
<1>1. /\ pc \in [Handlers -> Labels]
      /\ job \in [Handlers -> Job \cup {NoJob}]
      /\ ctx \in [Handlers -> ContextType]
  BY DEF TypeOK, Labels, Job, ContextType
<1>2. ASSUME NEW l, Goto(h, l), UNCHANGED ctx
      PROVE  Goes(h, l, job[h], ctx[h])
  BY <1>1, <1>2 DEF Goto, Goes
<1>3. ASSUME NEW l, NEW c, Goto(h, l), ctx' = [ctx EXCEPT ![h] = c]
      PROVE  Goes(h, l, job[h], c)
  BY <1>1, <1>3 DEF Goto, Goes
<1>4. ASSUME Leave(h)
      PROVE  \E l, j, c : Goes(h, l, j, c) /\ Way(h, l, j, c)
  BY <1>4 DEF Leave, Goes, Way
<1>5. CASE Retrieve(h)
  BY <1>2, <1>3, <1>5 DEF Retrieve, Way
<1>6. CASE Create(h)
  BY <1>3, <1>6 DEF Create, Way
<1>7. CASE Claim(h)
  <2> DEFINE c == [ctx[h] EXCEPT !.item = Updated(h), !.tries = 0, !.start = now]
  <2>1. Goto(h, "send") /\ ctx' = [ctx EXCEPT ![h] = c]
    BY <1>7, Zenon DEF Claim
  <2>2. Goes(h, "send", job[h], c)
    BY <1>3, <2>1
  <2> QED BY <1>7, <2>2 DEF Claim, Way
<1>8. CASE Decline(h) \/ KeepBackoff(h) \/ DeleteBackoff(h) \/ Removed(h) \/ GiveUp(h)
           \/ RestorePut(h) \/ RestoreFails(h)
  BY <1>4, <1>8, Zenon DEF Decline, KeepBackoff, DeleteBackoff, Removed, GiveUp, RestorePut,
                           RestoreFails
<1>9. CASE Resolve(h)
  <2> DEFINE c == [ctx[h] EXCEPT !.item = Updated(h), !.tries = 0]
  <2>1. CASE ~ctx[h].wasLS
    BY <1>4, <1>9, <2>1 DEF Resolve
  <2>2. CASE ctx[h].wasLS
    <3>1. Goto(h, "list") /\ ctx' = [ctx EXCEPT ![h] = c]
      BY <1>9, <2>2, Zenon DEF Resolve
    <3>2. Goes(h, "list", job[h], c)
      BY <1>3, <3>1
    <3> QED BY <1>9, <3>2 DEF Resolve, Way
  <2> QED BY <2>1, <2>2
<1>10. CASE Conflict(h)
  <2> DEFINE c == [ctx[h] EXCEPT !.tries = ctx[h].tries - 1]
  <2>1. CASE ~(ctx[h].tries > 1)
    BY <1>4, <1>10, <2>1 DEF Conflict
  <2>2. CASE ctx[h].tries > 1
    <3>1. Goto(h, "retrieve") /\ ctx' = [ctx EXCEPT ![h] = c]
      BY <1>10, <2>2, Zenon DEF Conflict
    <3>2. Goes(h, "retrieve", job[h], c)
      BY <1>3, <3>1
    <3>3. pc[h] \in {"update", "create"}
      BY <1>10 DEF Conflict
    <3> QED BY <2>2, <3>2, <3>3 DEF Way
  <2> QED BY <2>1, <2>2
<1>11. CASE SendOK(h) \/ SendRateLimited(h) \/ SendFails(h)
  <2>1. pc[h] = "send" /\ UNCHANGED ctx
    BY <1>11 DEF SendOK, SendRateLimited, SendFails
  <2>2. PICK l \in {"load", "restore"} : Goto(h, l)
    BY <1>11, Zenon DEF SendOK, SendRateLimited, SendFails
  <2> QED BY <1>2, <2>1, <2>2 DEF Way
<1>12. CASE FindBackoff(h) \/ RestoreGet(h)
  BY <1>2, <1>12 DEF FindBackoff, RestoreGet, Way
<1>13. CASE List(h)
  <2> DEFINE c == [ctx[h] EXCEPT !.listed = reasons[Key(h)]]
  <2>1. Goto(h, "remove") /\ ctx' = [ctx EXCEPT ![h] = c]
    BY <1>13, Zenon DEF List
  <2>2. Goes(h, "remove", job[h], c)
    BY <1>3, <2>1
  <2> QED BY <1>13, <2>2 DEF List, Way
<1>14. ASSUME NEW id \in 1 .. MaxReasons, Remove(h, id)
       PROVE  \E l, j, c : Goes(h, l, j, c) /\ Way(h, l, j, c)
  <2> DEFINE c == [ctx[h] EXCEPT !.listed = ctx[h].listed \ {id}]
  <2>1. pc[h] = "remove" /\ ctx' = [ctx EXCEPT ![h] = c] /\ UNCHANGED <<pc, job>>
    BY <1>14, Zenon DEF Remove
  <2>2. Goes(h, "remove", job[h], c)
    BY <1>1, <2>1 DEF Goes
  <2>3. Way(h, "remove", job[h], c)
    BY <2>1 DEF Way
  <2> QED BY <2>2, <2>3
<1>15. CASE RemoveFails(h)
  <2> DEFINE c == [ctx[h] EXCEPT !.listed = {}]
  <2>1. pc[h] \in {"list", "remove"}
    BY <1>15 DEF RemoveFails
  <2>2. Goto(h, "restore") /\ ctx' = [ctx EXCEPT ![h] = c]
    BY <1>15, Zenon DEF RemoveFails
  <2>3. Goes(h, "restore", job[h], c)
    BY <1>3, <2>2
  <2>4. Way(h, "restore", job[h], c)
    BY <2>1 DEF Way
  <2> QED BY <2>3, <2>4
<1> QED BY <1>5, <1>6, <1>7, <1>8, <1>9, <1>10, <1>11, <1>12, <1>13, <1>14, <1>15, Zenon DEF Step

\* Whether there is something to send, or to remove.
Acts(h) == IF job[h].firing THEN CanSend(h) ELSE ctx[h].wasLS

\* What h does to the records: it keeps them, or stores one item from an accepted update.
Keeps(h) ==
  /\ UNCHANGED rec
  /\ current' \subseteq current \cup {h}
  /\ pc[h] = "update" => pc'[h] \in {"retrieve", "idle"}
Stores(h, v) ==
  /\ h \in current
  /\ rec' = [rec EXCEPT ![ItemIn(h)] = v]
  /\ current' = (current \ Outdated(h, v)) \ {h}
  /\ \/ /\ pc[h] = "update" /\ v = Updated(h)
        /\ \/ pc'[h] \in {"send", "list"} /\ Acts(h)
           \/ pc'[h] = "idle" /\ (~Acts(h) \/ "lostResponse" \in Faults)
     \/ pc[h] = "restorePut" /\ pc'[h] = "idle" /\ v = Restored(h)

\* Every step of a handler does one of the two.
LEMMA StepWrites ==
  ASSUME TypeOK, NEW h \in Handlers, Step(h)
  PROVE  Keeps(h) \/ \E v : Stores(h, v)
<1>1. Leave(h) => pc'[h] = "idle"
  BY DEF Leave, TypeOK
<1>2. /\ Goto(h, "send") => pc'[h] = "send"
      /\ Goto(h, "list") => pc'[h] = "list"
      /\ Goto(h, "retrieve") => pc'[h] = "retrieve"
  BY DEF Goto, TypeOK
<1>3. CASE Claim(h) \/ Decline(h) \/ Resolve(h)
  <2>1. /\ pc[h] = "update" /\ UpToDate(h) /\ Write(h, Updated(h))
        /\ current' = (current \ Outdated(h, Updated(h))) \ {h}
    BY <1>3 DEF Claim, Decline, Resolve
  <2>2. \/ pc'[h] \in {"send", "list"} /\ Acts(h)
        \/ pc'[h] = "idle" /\ ~Acts(h)
    <3>1. CASE Claim(h)
      BY <1>2, <3>1 DEF Claim, Acts
    <3>2. CASE Decline(h)
      BY <1>1, <3>2 DEF Decline, Acts
    <3>3. CASE Resolve(h)
      BY <1>1, <1>2, <3>3 DEF Resolve, Acts
    <3> QED BY <1>3, <3>1, <3>2, <3>3
  <2>3. Stores(h, Updated(h))
    BY <2>1, <2>2 DEF Stores, UpToDate, Write
  <2> QED BY <2>3
<1>4. CASE GiveUp(h)
  BY <1>1, <1>4 DEF GiveUp, Stores, Keeps, UpToDate, Write
<1>5. CASE RestorePut(h)
  <2>1. Stores(h, Restored(h))
    BY <1>1, <1>5 DEF RestorePut, Stores, UpToDate, Write
  <2> QED BY <2>1
<1>6. CASE RestoreFails(h) \/ RestoreGet(h) \/ Create(h) \/ Retrieve(h)
  BY <1>6 DEF RestoreFails, RestoreGet, Create, Retrieve, Keeps
<1>7. CASE Conflict(h)
  BY <1>1, <1>2, <1>7 DEF Conflict, Keeps
<1>8. CASE SendOK(h) \/ SendRateLimited(h) \/ SendFails(h) \/ KeepBackoff(h)
           \/ FindBackoff(h) \/ DeleteBackoff(h) \/ List(h) \/ RemoveFails(h) \/ Removed(h)
           \/ \E id \in 1 .. MaxReasons : Remove(h, id)
  <2>1. UNCHANGED <<rec, current>> /\ pc[h] # "update"
    BY <1>8, Zenon DEF SendOK, SendRateLimited, SendFails, KeepBackoff, FindBackoff,
                       DeleteBackoff, List, RemoveFails, Removed, Remove
  <2> QED BY <2>1 DEF Keeps
<1> QED BY <1>3, <1>4, <1>5, <1>6, <1>7, <1>8, Zenon DEF Step

-----------------------------------------------------------------------------
\* Types, and the alert in hand.

\* What a handler in processAlert is about.
LEMMA Known ==
  ASSUME JobOK, NEW h \in Handlers, pc[h] # "idle"
  PROVE  /\ job[h] \in Job /\ ItemIn(h) \in Items /\ Key(h) \in Keys
         /\ Template(h) \in Templates /\ RecordOf[ItemIn(h)] \in Records
<1>1. job[h] \in Job
  BY DEF JobOK
<1>2. ItemIn(h) \in Items
  BY <1>1 DEF ItemIn, Job
<1> QED BY <1>1, <1>2 DEF Key, Keys, Template, Templates, Records

\* What an update stores is an item.
LEMMA UpdatedType ==
  ASSUME TypeOK, NEW h \in Handlers
  PROVE  Updated(h) \in Item
<1>1. ctx[h].item \in Item /\ now \in Nat
  BY FleetAssumption DEF TypeOK
<1> QED BY <1>1, ItemSteps DEF Updated

\* The context of a record just read, and what it says of the stored item.
LEMMA ContextReads ==
  ASSUME TypeOK, NEW h \in Handlers, job[h] \in Job
  PROVE  /\ Context(h) \in ContextType
         /\ Context(h).item = Found(rec[ItemIn(h)])
         /\ Context(h).initial = Context(h).item
         /\ Context(h).wasLS = InSupport(ItemIn(h), rec[ItemIn(h)])
<1> DEFINE item == Found(rec[ItemIn(h)])
           was == IsLS(ItemIn(h)) /\ item.fired > item.resolved
<1>1. rec[ItemIn(h)] \in Item
  BY DEF TypeOK, ItemIn, Job
<1>2. /\ item \in Item
      /\ was = InSupport(ItemIn(h), rec[ItemIn(h)])
  BY <1>1, ItemSteps DEF InSupport
<1>3. was \in BOOLEAN
  OBVIOUS
<1>4. ctx[h] \in ContextType
  BY DEF TypeOK, ContextType
<1>5. Context(h) = [ctx[h] EXCEPT !.item = item, !.initial = item, !.wasLS = was]
  BY DEF Context
<1> HIDE DEF item, was
<1>6. /\ Context(h) \in ContextType
      /\ Context(h).item = item /\ Context(h).initial = item /\ Context(h).wasLS = was
  BY <1>2, <1>3, <1>4, <1>5 DEF ContextType
<1> QED BY <1>2, <1>6 DEF item

\* Each way ends at a label, with an alert and a context of the right types.
LEMMA WayType ==
  ASSUME TypeOK, JobOK, NEW h \in Handlers, NEW l, NEW j, NEW c, Way(h, l, j, c)
  PROVE  l \in Labels /\ j \in Job \cup {NoJob} /\ c \in ContextType
<1>1. ctx[h] \in ContextType /\ job[h] \in Job \cup {NoJob}
  BY DEF TypeOK, ContextType, Job
<1>2. l \in Labels /\ j \in Job \cup {NoJob}
  BY <1>1 DEF Way, Labels
<1> SUFFICES c \in ContextType
  BY <1>2
<1>3. CASE c = NoCtx \/ c = ctx[h]
  BY <1>1, <1>3, NoCtxType
<1>4. CASE pc[h] \in {"retrieve", "create"} /\ c = Context(h)
  <2>1. job[h] \in Job
    BY <1>4 DEF JobOK
  <2> QED BY <1>4, <2>1, ContextReads
<1>5. CASE ctx[h].tries > 1 /\ c = [ctx[h] EXCEPT !.tries = ctx[h].tries - 1]
  <2>1. ctx[h].tries - 1 \in 0 .. Steps
    BY <1>1, <1>5, FleetAssumption DEF ContextType
  <2>2. [ctx[h] EXCEPT !.tries = ctx[h].tries - 1] \in ContextType
    BY <1>1, <2>1, Zenon DEF ContextType
  <2> QED BY <1>5, <2>2
<1>6. CASE c = [ctx[h] EXCEPT !.item = Updated(h), !.tries = 0, !.start = now]
  <2>1. Updated(h) \in Item /\ 0 \in 0 .. Steps /\ now \in 0 .. MaxTime
    BY UpdatedType, FleetAssumption DEF TypeOK
  <2>2. [ctx[h] EXCEPT !.item = Updated(h), !.tries = 0, !.start = now] \in ContextType
    BY <1>1, <2>1, Zenon DEF ContextType
  <2> QED BY <1>6, <2>2
<1>7. CASE c = [ctx[h] EXCEPT !.item = Updated(h), !.tries = 0]
  <2>1. Updated(h) \in Item /\ 0 \in 0 .. Steps
    BY UpdatedType, FleetAssumption
  <2>2. [ctx[h] EXCEPT !.item = Updated(h), !.tries = 0] \in ContextType
    BY <1>1, <2>1, Zenon DEF ContextType
  <2> QED BY <1>7, <2>2
<1>8. CASE pc[h] = "list" /\ c = [ctx[h] EXCEPT !.listed = reasons[Key(h)]]
  <2>1. reasons[Key(h)] \in SUBSET (1 .. MaxReasons)
    BY <1>8, Known DEF TypeOK
  <2>2. [ctx[h] EXCEPT !.listed = reasons[Key(h)]] \in ContextType
    BY <1>1, <2>1, Zenon DEF ContextType
  <2> QED BY <1>8, <2>2
<1>9. ASSUME NEW r \in SUBSET ctx[h].listed, c = [ctx[h] EXCEPT !.listed = r]
      PROVE  c \in ContextType
  <2>1. r \in SUBSET (1 .. MaxReasons)
    BY <1>1 DEF ContextType
  <2>2. [ctx[h] EXCEPT !.listed = r] \in ContextType
    BY <1>1, <2>1, Zenon DEF ContextType
  <2> QED BY <1>9, <2>2
<1> QED BY <1>3, <1>4, <1>5, <1>6, <1>7, <1>8, <1>9, Zenon DEF Way

\* Nothing happens to an idle handler but that an alert is received.
LEMMA StepBusy ==
  ASSUME NEW h \in Handlers, Step(h)
  PROVE  pc[h] # "idle"
BY Zenon DEF Step, Retrieve, Create, Claim, Decline, Resolve, Conflict, GiveUp, SendOK,
   SendRateLimited, SendFails, KeepBackoff, FindBackoff, DeleteBackoff, List, Remove,
   RemoveFails, Removed, RestoreGet, RestorePut, RestoreFails

\* The variables that handlers share keep their types.
LEMMA SharedType ==
  ASSUME TypeOK, JobOK, NEW h \in Handlers, Step(h)
  PROVE  /\ now' = now
         /\ rec' \in [Items -> Item]
         /\ created' \subseteq Records
         /\ current' \subseteq Handlers
         /\ backoff' \in [Keys -> 0 .. MaxTime]
         /\ reasons' \in [Keys -> SUBSET (1 .. MaxReasons)]
         /\ failing' \subseteq Templates
<1>1. /\ job[h] \in Job /\ ItemIn(h) \in Items /\ Key(h) \in Keys
      /\ Template(h) \in Templates /\ RecordOf[ItemIn(h)] \in Records
  BY StepBusy, Known
<1>2. now' = now
  BY Zenon DEF Step, Retrieve, Create, Claim, Decline, Resolve, Conflict, GiveUp, SendOK,
     SendRateLimited, SendFails, KeepBackoff, FindBackoff, DeleteBackoff, List, Remove,
     RemoveFails, Removed, RestoreGet, RestorePut, RestoreFails
<1>3. rec' \in [Items -> Item] /\ current' \subseteq Handlers
  <2>1. CASE Keeps(h)
    BY <2>1 DEF Keeps, TypeOK
  <2>2. ASSUME NEW v, Stores(h, v)
        PROVE  rec' \in [Items -> Item] /\ current' \subseteq Handlers
    <3>1. ctx[h].initial \in Item
      BY DEF TypeOK
    <3>2. v \in Item
      BY <2>2, <3>1, UpdatedType DEF Stores, Restored
    <3> QED BY <2>2, <3>2 DEF Stores, TypeOK
  <2> QED BY <2>1, <2>2, StepWrites
<1>4. created' \subseteq Records
  <2>1. created' = created \/ created' = created \cup {RecordOf[ItemIn(h)]}
    BY Zenon DEF Step, Retrieve, Create, Claim, Decline, Resolve, Conflict, GiveUp, SendOK,
       SendRateLimited, SendFails, KeepBackoff, FindBackoff, DeleteBackoff, List, Remove,
       RemoveFails, Removed, RestoreGet, RestorePut, RestoreFails
  <2> QED BY <1>1, <2>1 DEF TypeOK
<1>5. backoff' \in [Keys -> 0 .. MaxTime]
  <2>1. \/ backoff' = backoff
        \/ backoff' = [backoff EXCEPT ![Key(h)] = now]
        \/ backoff' = [backoff EXCEPT ![Key(h)] = 0]
    BY Zenon DEF Step, Retrieve, Create, Claim, Decline, Resolve, Conflict, GiveUp, SendOK,
       SendRateLimited, SendFails, KeepBackoff, FindBackoff, DeleteBackoff, List, Remove,
       RemoveFails, Removed, RestoreGet, RestorePut, RestoreFails
  <2>2. now \in 0 .. MaxTime /\ 0 \in 0 .. MaxTime
    BY FleetAssumption DEF TypeOK
  <2> QED BY <2>1, <2>2 DEF TypeOK
<1>6. reasons' \in [Keys -> SUBSET (1 .. MaxReasons)]
  <2>1. CASE SendOK(h) \/ SendFails(h)
    BY <2>1 DEF SendOK, SendFails, Accepted, FreeIds, TypeOK
  <2>2. CASE RemoveFails(h) \/ \E id \in 1 .. MaxReasons : Remove(h, id)
    BY <2>2 DEF RemoveFails, Remove, TypeOK
  <2>3. CASE ~(SendOK(h) \/ SendFails(h) \/ RemoveFails(h)
               \/ \E id \in 1 .. MaxReasons : Remove(h, id))
    <3>1. reasons' = reasons
      BY <2>3, Zenon DEF Step, Retrieve, Create, Claim, Decline, Resolve, Conflict, GiveUp,
         SendRateLimited, KeepBackoff, FindBackoff, DeleteBackoff, List,
         Removed, RestoreGet, RestorePut, RestoreFails
    <3> QED BY <3>1 DEF TypeOK
  <2> QED BY <2>1, <2>2, <2>3
<1>7. failing' \subseteq Templates
  <2>1. failing' = failing \/ GaugeSet(h) \/ GaugeReset(h)
    BY Zenon DEF Step, Retrieve, Create, Claim, Decline, Resolve, Conflict, GiveUp, SendOK,
       SendRateLimited, SendFails, KeepBackoff, FindBackoff, DeleteBackoff, List, Remove,
       RemoveFails, Removed, RestoreGet, RestorePut, RestoreFails
  <2> QED BY <1>1, <2>1 DEF GaugeSet, GaugeReset, TypeOK
<1> QED BY <1>2, <1>3, <1>4, <1>5, <1>6, <1>7

\* A handler's step keeps the types and what is known of the alert in hand.
LEMMA HandlerType ==
  ASSUME TypeOK, JobOK, NEW h \in Handlers, Step(h)
  PROVE  TypeOK' /\ JobOK'
<1>1. PICK l, j, c : Goes(h, l, j, c) /\ Way(h, l, j, c)
  BY StepGoes
<1>2. l \in Labels /\ j \in Job \cup {NoJob} /\ c \in ContextType
  BY <1>1, WayType
<1>3. /\ pc' \in [Handlers -> Labels]
      /\ job' \in [Handlers -> Job \cup {NoJob}]
      /\ ctx' \in [Handlers -> ContextType]
  <2>1. /\ pc \in [Handlers -> Labels]
        /\ job \in [Handlers -> Job \cup {NoJob}]
        /\ ctx \in [Handlers -> ContextType]
    BY DEF TypeOK, Labels, Job, ContextType
  <2> QED BY <1>1, <1>2, <2>1 DEF Goes
<1>4. TypeOK'
  BY <1>3, SharedType DEF TypeOK, Labels, Job, ContextType
<1>5. ASSUME NEW g \in Handlers, g # h
      PROVE  pc'[g] = pc[g] /\ job'[g] = job[g]
  BY <1>1, <1>5 DEF Goes, TypeOK
<1>6. pc'[h] = l /\ job'[h] = j
  BY <1>1 DEF Goes, TypeOK
<1>7. pc[h] # "idle" /\ job[h] \in Job
  BY StepBusy, Known
<1>8. /\ l # "idle" => j = job[h]
      /\ l \in {"send", "load", "delete"} => job[h].firing
      /\ l \in {"list", "remove"} => ~job[h].firing
  BY <1>1, Zenon DEF Way, JobOK
<1>9. JobOK'
  BY <1>5, <1>6, <1>7, <1>8 DEF JobOK, ItemIn
<1> QED BY <1>4, <1>9

\* Receiving an alert begins the processing of it, or is over at once.
LEMMA ReceiveType ==
  ASSUME TypeOK, JobOK, NEW h \in Handlers, NEW i \in Items, Receive(h, i)
  PROVE  TypeOK' /\ JobOK'
<1>1. ASSUME NEW f \in BOOLEAN, Begin(h, i, f), f \/ IsLS(i)
      PROVE  /\ pc' \in [Handlers -> Labels]
             /\ job' \in [Handlers -> Job \cup {NoJob}]
             /\ ctx' \in [Handlers -> ContextType]
             /\ JobOK'
  <2>1. ctx[h] \in ContextType /\ Steps \in 0 .. Steps
    BY FleetAssumption DEF TypeOK, ContextType
  <2>2. [ctx[h] EXCEPT !.tries = Steps] \in ContextType
    BY <2>1, Zenon DEF ContextType
  <2>3. ctx' = [ctx EXCEPT ![h] = [ctx[h] EXCEPT !.tries = Steps]]
    BY <1>1, Zenon DEF Begin
  <2>4. ctx' \in [Handlers -> ContextType]
    BY <2>2, <2>3 DEF TypeOK, ContextType
  <2>5. /\ pc' \in [Handlers -> Labels]
        /\ job' \in [Handlers -> Job \cup {NoJob}]
    BY <1>1 DEF Begin, TypeOK, Labels, Job
  <2>6. JobOK'
    BY <1>1 DEF Begin, TypeOK, JobOK, ItemIn, Job
  <2> QED BY <2>4, <2>5, <2>6
<1>2. CASE ReceiveFiring(h, i)
  <2>1. Begin(h, i, TRUE)
    BY <1>2 DEF ReceiveFiring
  <2> QED BY <1>1, <1>2, <2>1 DEF ReceiveFiring, TypeOK, Labels, Job, ContextType
<1>3. CASE ReceiveResolved(h, i)
  <2>1. /\ backoff' \in [Keys -> 0 .. MaxTime]
        /\ UNCHANGED <<now, rec, created, current, reasons>>
    <3>1. /\ backoff' = [backoff EXCEPT ![KeyOf[i]] = 0]
          /\ UNCHANGED <<now, rec, created, current, reasons>>
      BY <1>3, Zenon DEF ReceiveResolved
    <3>2. 0 \in 0 .. MaxTime
      BY FleetAssumption
    <3>3. backoff \in [Keys -> 0 .. MaxTime]
      BY DEF TypeOK
    <3> QED BY <3>1, <3>2, <3>3
  <2>2. CASE IsLS(i)
    <3>1. Begin(h, i, FALSE) /\ UNCHANGED failing
      BY <1>3, <2>2 DEF ReceiveResolved
    <3> QED BY <1>1, <2>1, <2>2, <3>1 DEF TypeOK, Labels, Job, ContextType
  <2>3. CASE ~IsLS(i)
    <3>1. failing' \subseteq failing /\ UNCHANGED <<pc, job, ctx>>
      BY <1>3, <2>3 DEF ReceiveResolved
    <3> QED BY <2>1, <3>1 DEF TypeOK, JobOK, ItemIn
  <2> QED BY <2>2, <2>3
<1> QED BY <1>2, <1>3 DEF Receive

\* Time passes, or the pod dies.
LEMMA OtherType ==
  ASSUME TypeOK, JobOK, Tick \/ Crash \/ UNCHANGED vars
  PROVE  TypeOK' /\ JobOK'
<1>1. CASE Tick
  BY <1>1, FleetAssumption DEF Tick, agent, TypeOK, JobOK, ItemIn
<1>2. CASE Crash
  <2>1. /\ pc' \in [Handlers -> Labels]
        /\ job' \in [Handlers -> Job \cup {NoJob}]
        /\ ctx' \in [Handlers -> ContextType]
    BY <1>2, NoCtxType DEF Crash, Labels
  <2>2. backoff' \in [Keys -> 0 .. MaxTime]
    BY <1>2, FleetAssumption DEF Crash
  <2>3. JobOK'
    BY <1>2 DEF Crash, JobOK
  <2> QED BY <1>2, <2>1, <2>2, <2>3 DEF Crash, TypeOK, Labels, Job, ContextType
<1>3. CASE UNCHANGED vars
  BY <1>3 DEF vars, agent, TypeOK, JobOK, ItemIn
<1> QED BY <1>1, <1>2, <1>3

-----------------------------------------------------------------------------
\* The optimistic lock.

\* A handler that has a current copy after its own step has just read it.
LEMMA OwnCopy ==
  ASSUME TypeOK, JobOK, CopyOK, NEW h \in Handlers, Step(h), h \in current'
  PROVE  HasCopy(h)'
<1>1. pc \in [Handlers -> Labels] /\ ctx \in [Handlers -> ContextType]
  BY DEF TypeOK, Labels, ContextType
<1>2. job[h] \in Job
  BY StepBusy, Known
<1>3. CASE Retrieve(h) \/ Create(h)
  <2>1. CASE Retrieve(h) /\ RecordOf[ItemIn(h)] \notin created
    <3>1. h \in current /\ pc[h] = "retrieve"
      BY <2>1 DEF Retrieve
    <3> QED BY <3>1 DEF CopyOK, HasCopy
  <2>2. CASE ~(Retrieve(h) /\ RecordOf[ItemIn(h)] \notin created)
    <3>1. /\ ctx' = [ctx EXCEPT ![h] = Context(h)]
          /\ Goto(h, "update")
          /\ UNCHANGED rec
      BY <1>3, <2>2 DEF Retrieve, Create
    <3>2. /\ ctx'[h] = Context(h) /\ pc'[h] = "update" /\ job' = job
      BY <1>1, <3>1 DEF Goto
    <3> QED BY <1>2, <3>1, <3>2, ContextReads DEF HasCopy, ItemIn
  <2> QED BY <2>1, <2>2
<1>4. CASE RestoreGet(h)
  <2>1. pc'[h] = "restorePut"
    BY <1>1, <1>4 DEF RestoreGet, Goto
  <2> QED BY <2>1 DEF HasCopy
<1>5. CASE ~(Retrieve(h) \/ Create(h) \/ RestoreGet(h))
  <2>1. h \in current
    BY <1>5, StepWrites, Zenon DEF Step, Claim, Decline, Resolve, Conflict, GiveUp, SendOK,
       SendRateLimited, SendFails, KeepBackoff, FindBackoff, DeleteBackoff, List, Remove,
       RemoveFails, Removed, RestorePut, RestoreFails
  <2>2. pc[h] \in {"update", "restorePut"}
    BY <2>1 DEF CopyOK, HasCopy
  <2>3. Claim(h) \/ Decline(h) \/ Resolve(h) \/ Conflict(h) \/ GiveUp(h)
          \/ RestorePut(h) \/ RestoreFails(h)
    BY <1>5, <2>2 DEF Step, SendOK, SendRateLimited, SendFails, KeepBackoff, FindBackoff,
       DeleteBackoff, List, Remove, RemoveFails, Removed
  <2>4. h \notin current'
    BY <2>1, <2>2, <2>3 DEF Claim, Decline, Resolve, Conflict, GiveUp, RestorePut,
       RestoreFails, UpToDate
  <2> QED BY <2>4
<1> QED BY <1>3, <1>4, <1>5

\* What a step of one handler leaves of the copies of the others.
LEMMA OtherCopy ==
  ASSUME TypeOK, JobOK, CopyOK, NEW h \in Handlers, Step(h),
         NEW g \in Handlers, g # h, g \in current'
  PROVE  HasCopy(g)'
<1>1. pc'[g] = pc[g] /\ job'[g] = job[g] /\ ctx'[g] = ctx[g]
  BY StepGoes DEF Goes, TypeOK
<1>2. g \in current /\ HasCopy(g)
  BY StepWrites DEF Keeps, Stores, CopyOK
<1>3. ItemIn(h) \in Items /\ ItemIn(g) \in Items
  BY <1>2, StepBusy, Known DEF HasCopy
<1>4. rec'[ItemIn(g)] = rec[ItemIn(g)]
  <2>1. CASE Keeps(h)
    BY <2>1 DEF Keeps
  <2>2. ASSUME NEW v, Stores(h, v)
        PROVE  rec'[ItemIn(g)] = rec[ItemIn(g)]
    <3>1. g \notin Outdated(h, v)
      BY <2>2 DEF Stores
    <3>2. v = rec[ItemIn(h)] \/ ItemIn(g) # ItemIn(h)
      BY <1>2, <3>1 DEF Outdated
    <3> QED BY <1>3, <2>2, <3>2 DEF Stores, TypeOK
  <2> QED BY <2>1, <2>2, StepWrites
<1> QED BY <1>1, <1>2, <1>4 DEF HasCopy, ItemIn, InSupport

\* The agent starts in the invariant, and every step keeps it.
LEMMA InitInv == Init => Inv
<1> SUFFICES ASSUME Init PROVE Inv
  OBVIOUS
<1>1. rec \in [Items -> Item] /\ ctx \in [Handlers -> ContextType]
  BY NoItemType, NoCtxType DEF Init
<1>2. TypeOK
  BY <1>1, FleetAssumption DEF Init, TypeOK, ContextType
<1> QED BY <1>2 DEF Init, Inv, JobOK, CopyOK

\* A step keeps types, alerts and copies, whoever takes it.
LEMMA NextInv == Inv /\ [Next]_vars => Inv'
<1> SUFFICES ASSUME TypeOK, JobOK, CopyOK, [Next]_vars PROVE TypeOK' /\ JobOK' /\ CopyOK'
  BY DEF Inv
<1>1. ASSUME NEW h \in Handlers, Step(h) PROVE TypeOK' /\ JobOK' /\ CopyOK'
  <2>1. TypeOK' /\ JobOK'
    BY <1>1, HandlerType
  <2>2. CopyOK'
    BY <1>1, <2>1, OwnCopy, OtherCopy DEF CopyOK, TypeOK
  <2> QED BY <2>1, <2>2
<1>2. ASSUME NEW h \in Handlers, NEW i \in Items, Receive(h, i)
      PROVE  TypeOK' /\ JobOK' /\ CopyOK'
  <2>1. TypeOK' /\ JobOK'
    BY <1>2, ReceiveType
  <2>2. /\ pc[h] = "idle" /\ UNCHANGED <<rec, current>>
        /\ \A g \in Handlers \ {h} : pc'[g] = pc[g] /\ job'[g] = job[g] /\ ctx'[g] = ctx[g]
    BY <1>2 DEF Receive, ReceiveFiring, ReceiveResolved, Begin, TypeOK
  <2>3. CopyOK'
    BY <2>2 DEF CopyOK, HasCopy, ItemIn, InSupport, TypeOK
  <2> QED BY <2>1, <2>3
<1>3. CASE Tick \/ Crash \/ UNCHANGED vars
  <2>1. TypeOK' /\ JobOK'
    BY <1>3, OtherType
  <2>2. CopyOK'
    BY <1>3 DEF Tick, Crash, vars, agent, CopyOK, HasCopy, ItemIn, InSupport
  <2> QED BY <2>1, <2>2
<1> QED BY <1>1, <1>2, <1>3 DEF Next

\* The inductive invariant of the fleet webhook: copies that would be accepted are current.
THEOREM FleetInvariance == Spec => []Inv
BY InitInv, NextInv, PTL DEF Spec

\* Every variable keeps its type.
THEOREM FleetTypeCorrect == Spec => []TypeOK
<1>1. Inv => TypeOK
  BY DEF Inv
<1> QED BY <1>1, FleetInvariance, PTL

-----------------------------------------------------------------------------
\* The steps of an alert run out.

\* At each label, how far a handler is from the end of its alert.
LEMMA AheadOf ==
  ASSUME TypeOK, NEW h \in Handlers
  PROVE  /\ ctx[h] \in ContextType /\ ctx[h].tries \in Nat /\ pc[h] \in Labels
         /\ Ahead(h) \in Nat
         /\ pc[h] # "idle" => Ahead(h) > 0
<1>1. ctx[h] \in ContextType /\ pc[h] \in Labels
  BY DEF TypeOK, ContextType, Labels
<1>2. ctx[h].tries \in Nat
  BY <1>1, FleetAssumption DEF ContextType
<1> QED BY <1>1, <1>2 DEF Ahead, Labels

\* What a step changes in a context, if it is not the number of tries.
LEMMA TriesKept ==
  ASSUME NEW c \in ContextType
  PROVE  /\ \A item, t, start : [c EXCEPT !.item = item, !.tries = t, !.start = start].tries = t
         /\ \A item, t : [c EXCEPT !.item = item, !.tries = t].tries = t
         /\ \A t : [c EXCEPT !.tries = t].tries = t
         /\ \A item, was : [c EXCEPT !.item = item, !.initial = item, !.wasLS = was].tries = c.tries
         /\ \A s : [c EXCEPT !.listed = s].tries = c.tries /\ [c EXCEPT !.listed = s].listed = s
BY Zenon DEF ContextType

\* Every step of a handler leaves fewer ahead, or takes a reason off the list.
LEMMA AheadStep ==
  ASSUME TypeOK, JobOK, NEW h \in Handlers, Step(h)
  PROVE  \/ Ahead(h)' < Ahead(h)
         \/ /\ Ahead(h)' = Ahead(h)
            /\ ctx'[h].listed \subseteq ctx[h].listed /\ ctx'[h].listed # ctx[h].listed
<1>1. PICK l, j, c : Goes(h, l, j, c) /\ Way(h, l, j, c)
  BY StepGoes
<1>2. pc'[h] = l /\ ctx'[h] = c
  BY <1>1 DEF Goes, TypeOK
<1>3. /\ ctx[h] \in ContextType /\ ctx[h].tries \in Nat
      /\ Ahead(h) \in Nat /\ Ahead(h) > 0
  BY StepBusy, AheadOf
<1>4. CASE l = "idle" /\ c = NoCtx
  <2>1. NoCtx.tries = 0
    BY DEF NoCtx
  <2>2. Ahead(h)' = 0
    BY <1>2, <1>4, <2>1 DEF Ahead
  <2> QED BY <1>3, <2>2
<1>5. CASE c.tries = ctx[h].tries /\ \/ pc[h] = "retrieve" /\ l = "create"
                                     \/ pc[h] \in {"retrieve", "create"} /\ l = "update"
                                     \/ pc[h] = "send" /\ l \in {"load", "restore"}
                                     \/ pc[h] = "load" /\ l = "delete"
                                     \/ pc[h] = "list" /\ l = "remove"
                                     \/ pc[h] \in {"list", "remove"} /\ l = "restore"
                                     \/ pc[h] = "restore" /\ l = "restorePut"
  BY <1>2, <1>3, <1>5 DEF Ahead
<1>6. CASE /\ pc[h] \in {"update", "create"} /\ l = "retrieve"
           /\ c.tries = ctx[h].tries - 1
  BY <1>2, <1>3, <1>6 DEF Ahead
<1>7. CASE pc[h] = "update" /\ l \in {"send", "list"} /\ c.tries = 0
  BY <1>2, <1>3, <1>7 DEF Ahead
<1>8. CASE pc[h] = "remove" /\ l = "remove"
  <2>1. PICK id \in 1 .. MaxReasons : Remove(h, id)
    BY <1>2, <1>8, Zenon DEF Step, Retrieve, Create, Claim, Decline, Resolve, Conflict, GiveUp,
       SendOK, SendRateLimited, SendFails, KeepBackoff, FindBackoff, DeleteBackoff, List,
       RemoveFails, Removed, RestoreGet, RestorePut, RestoreFails, Goto, Leave, TypeOK
  <2> DEFINE d == [ctx[h] EXCEPT !.listed = ctx[h].listed \ {id}]
  <2>2. ctx' = [ctx EXCEPT ![h] = d] /\ id \in ctx[h].listed
    BY <2>1, Zenon DEF Remove
  <2>3. ctx'[h] = d
    BY <2>2 DEF TypeOK
  <2>4. d.listed = ctx[h].listed \ {id} /\ d.tries = ctx[h].tries
    BY <1>3, TriesKept
  <2>5. Ahead(h)' = Ahead(h)
    BY <1>2, <1>3, <1>8, <2>3, <2>4 DEF Ahead
  <2> QED BY <2>2, <2>3, <2>4, <2>5
<1>9. Context(h).tries = ctx[h].tries
  <2> DEFINE item == Found(rec[ItemIn(h)])
             was == IsLS(ItemIn(h)) /\ item.fired > item.resolved
  <2>1. Context(h) = [ctx[h] EXCEPT !.item = item, !.initial = item, !.wasLS = was]
    BY DEF Context
  <2> HIDE DEF item, was
  <2> QED BY <1>3, <2>1, TriesKept
<1>10. /\ [ctx[h] EXCEPT !.item = Updated(h), !.tries = 0, !.start = now].tries = 0
       /\ [ctx[h] EXCEPT !.item = Updated(h), !.tries = 0].tries = 0
       /\ [ctx[h] EXCEPT !.tries = ctx[h].tries - 1].tries = ctx[h].tries - 1
       /\ \A s : [ctx[h] EXCEPT !.listed = s].tries = ctx[h].tries
  <2>1. [ctx[h] EXCEPT !.item = Updated(h), !.tries = 0, !.start = now].tries = 0
    BY <1>3, TriesKept
  <2>2. [ctx[h] EXCEPT !.item = Updated(h), !.tries = 0].tries = 0
    BY <1>3, TriesKept
  <2>3. [ctx[h] EXCEPT !.tries = ctx[h].tries - 1].tries = ctx[h].tries - 1
    BY <1>3, TriesKept
  <2>4. \A s : [ctx[h] EXCEPT !.listed = s].tries = ctx[h].tries
    BY <1>3, TriesKept
  <2> QED BY <2>1, <2>2, <2>3, <2>4
<1>11. \/ l = "idle" /\ c = NoCtx
       \/ pc[h] \in {"update", "create"} /\ l = "retrieve" /\ c.tries = ctx[h].tries - 1
       \/ pc[h] = "update" /\ l \in {"send", "list"} /\ c.tries = 0
       \/ pc[h] = "remove" /\ l = "remove"
       \/ /\ c.tries = ctx[h].tries
          /\ \/ pc[h] = "retrieve" /\ l = "create"
             \/ pc[h] \in {"retrieve", "create"} /\ l = "update"
             \/ pc[h] = "send" /\ l \in {"load", "restore"}
             \/ pc[h] = "load" /\ l = "delete"
             \/ pc[h] = "list" /\ l = "remove"
             \/ pc[h] \in {"list", "remove"} /\ l = "restore"
             \/ pc[h] = "restore" /\ l = "restorePut"
  BY <1>1, <1>9, <1>10, Zenon DEF Way
<1> QED BY <1>4, <1>5, <1>6, <1>7, <1>8, <1>11

\* Whatever conflicts, and whoever else is at work, a handler's steps run out: the safety
\* that AlertCompletes rests on.
THEOREM FleetStepsRunOut == Spec => StepsRunOut
<1> DEFINE Closer(h) ==
      \/ Ahead(h)' < Ahead(h)
      \/ /\ Ahead(h)' = Ahead(h)
         /\ ctx'[h].listed \subseteq ctx[h].listed /\ ctx'[h].listed # ctx[h].listed
<1>1. Inv /\ [Next]_vars => [\A h \in Handlers : Step(h) => Closer(h)]_vars
  BY AheadStep DEF Inv
<1>2. Spec => [][\A h \in Handlers : Step(h) => Closer(h)]_vars
  BY <1>1, FleetInvariance, PTL DEF Spec
<1> QED BY <1>2 DEF StepsRunOut
=============================================================================
