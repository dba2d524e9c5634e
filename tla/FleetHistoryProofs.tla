-------------------------- MODULE FleetHistoryProofs --------------------------
(***************************************************************************)
(* The counters of the fleet webhook agree with what OCM holds, on every   *)
(* record on which alerts have not overlapped and no handler has ended in  *)
(* ignorance, for every value of the constants.                            *)
(***************************************************************************)
EXTENDS MCFleetHistory, FleetLedgerProofs

\* Templates and hosted clusters identify an item: no hosted cluster has two management clusters.
OneKeyPerItem == \A i, j \in Items : KeyOf[i] = KeyOf[j] => i = j

Supports(item) == item.fired > item.resolved
Matches(i) == Supports(rec[i]) <=> reasons[KeyOf[i]] # {}

\* Where the counters are ahead of OCM or behind it, the handler in charge still is to make
\* up for it, or still has the item with which it can.
InPlace(label, item, held, initial, listed) ==
  /\ label \in {"retrieve", "create", "update", "load", "delete"} =>
       (Supports(item) <=> held # {})
  /\ label = "send" => Supports(item) /\ held = {} /\ ~Supports(initial)
  /\ label = "list" => ~Supports(item) /\ held # {} /\ Supports(initial)
  /\ label = "remove" => ~Supports(item) /\ held = listed /\ Supports(initial)
  /\ label \in {"restore", "restorePut"} => (Supports(initial) <=> held # {})

Place(h) ==
  InPlace(pc[h], rec[ItemIn(h)], reasons[Key(h)], ctx[h].initial, ctx[h].listed)

On(h, i) == pc[h] # "idle" /\ ItemIn(h) = i

\* Nobody is on an item, and it matches, or somebody is, and knows how to make it match.
Accounted(i) ==
  /\ (\A h \in Handlers : ~On(h, i)) => Matches(i)
  /\ \A h \in Handlers : On(h, i) => Place(h)

\* An idle handler has no alert.
IdleOK == \A h \in Handlers : pc[h] = "idle" => job[h] = NoJob

\* Handlers on an undisturbed record are alone.
AloneOK ==
  \A g, h \in Handlers :
    /\ pc[g] # "idle" /\ pc[h] # "idle" /\ RecordOf[ItemIn(g)] = RecordOf[ItemIn(h)]
    /\ RecordOf[ItemIn(h)] \notin disturbed
    => g = h

KeptOK == \A i \in Items : IsLS(i) /\ RecordOf[i] \notin disturbed => Accounted(i)

HistoryInv == IdleOK /\ AloneOK /\ KeptOK

-----------------------------------------------------------------------------
\* A handler that is alone on an item, step by step.

\* What a handler's step has to achieve on the item it is on.
StaysInPlace(h, i) ==
  IF pc'[h] = "idle" THEN Matches(i)' ELSE ItemIn(h)' = i /\ Place(h)'

\* Supporting does not depend on whether the item was stored.
LEMMA FoundSupports ==
  ASSUME NEW item \in Item
  PROVE  /\ Supports(Found(item)) <=> Supports(item)
         /\ ~Supports(Levelled(item))
         /\ \A t \in Nat : Gap(item) => Supports(Counted(item, t))
<1>1. item.fired \in Nat /\ item.resolved \in Nat
  BY DEF Item
<1>2. Supports(Found(item)) <=> Supports(item)
  BY ItemSteps DEF Supports
<1>3. ~Supports(Levelled(item))
  BY <1>1, ItemSteps DEF Supports
<1>4. ASSUME NEW t \in Nat, Gap(item) PROVE Supports(Counted(item, t))
  <2>1. Counted(item, t).fired = item.fired + 1 /\ Counted(item, t).resolved = item.resolved
    BY ItemSteps
  <2> QED BY <1>1, <1>4, <2>1 DEF Supports, Gap
<1> QED BY <1>2, <1>3, <1>4

\* Reading, and trying again.
LEMMA ReadsInPlace ==
  ASSUME Inv, NEW h \in Handlers, NEW i \in Items, On(h, i), Place(h),
         Retrieve(h) \/ Create(h) \/ Conflict(h)
  PROVE  StaysInPlace(h, i)
<1>1. /\ pc[h] \in {"retrieve", "create", "update"}
      /\ UNCHANGED <<rec, reasons>>
  BY DEF Retrieve, Create, Conflict
<1>2. Step(h)
  BY DEF Step
<1>3. PICK l, j, c : Goes(h, l, j, c) /\ Way(h, l, j, c)
  BY <1>2, StepGoes DEF Inv
<1>4. pc'[h] = l /\ job'[h] = j
  BY <1>3 DEF Goes, Inv, TypeOK
<1>5. pc'[h] \in {"idle", "retrieve", "create", "update"}
  BY DEF Retrieve, Create, Conflict, Goto, Leave, Inv, TypeOK
<1>6. pc'[h] # "idle" => job'[h] = job[h]
  BY <1>3, <1>4 DEF Way
<1>7. Supports(rec[i]) <=> reasons[KeyOf[i]] # {}
  BY <1>1 DEF Place, InPlace, On, Key
<1> QED BY <1>1, <1>4, <1>5, <1>6, <1>7 DEF StaysInPlace, Matches, Place, InPlace, ItemIn, Key, On

\* The update, accepted or not.
LEMMA UpdateInPlace ==
  ASSUME Inv, InitialOK, CounterGap, NEW h \in Handlers, NEW i \in Items, On(h, i), Place(h),
         IsLS(i), ~Abandons(h), Claim(h) \/ Decline(h) \/ Resolve(h) \/ GiveUp(h)
  PROVE  StaysInPlace(h, i)
<1>1. Step(h) /\ UNCHANGED reasons /\ pc[h] \in {"retrieve", "create", "update"}
  BY DEF Step, Claim, Decline, Resolve, GiveUp
<1>2. /\ rec[i] \in Item /\ Gap(rec[i]) /\ now \in Nat
      /\ Supports(rec[i]) <=> reasons[KeyOf[i]] # {}
  BY <1>1, FleetAssumption DEF Inv, TypeOK, CounterGap, Place, InPlace, On, Key
<1>3. CASE Keeps(h)
  <2>1. pc'[h] = "idle"
    BY <1>3 DEF Claim, Decline, Resolve, GiveUp, Goto, Leave, Keeps, Inv, TypeOK
  <2> QED BY <1>1, <1>2, <1>3, <2>1 DEF StaysInPlace, Matches, Keeps
<1>4. ASSUME NEW v, Stores(h, v)
      PROVE  StaysInPlace(h, i)
  <2>1. pc[h] = "update" /\ h \in current /\ v = Updated(h) /\ rec'[i] = v
    BY <1>1, <1>4 DEF Stores, On, Inv, TypeOK
  <2>2. /\ Acts(h) <=> Ledger!Due(i, job[h].firing)
        /\ v = Ledger!Observed(i, job[h].firing)
        /\ ctx[h].initial = Found(rec[i])
    BY <2>1, CopyDecides DEF On
  <2>3. Ledger!InSupport(i) <=> Supports(rec[i])
    BY SameOperators DEF Ledger!InSupport, Supports
  <2>4. CASE pc'[h] \in {"send", "list"} /\ Acts(h)
    <3>1. job'[h] = job[h] /\ ctx'[h].initial = Found(rec[i])
      BY <1>1, <2>1, <2>2, <2>4, InitialStep
    <3>2. Supports(ctx'[h].initial) <=> Supports(rec[i])
      BY <1>2, <3>1, FoundSupports
    <3>3. CASE Claim(h)
      <4>1. pc'[h] = "send" /\ job[h].firing
        BY <3>3 DEF Claim, Goto, Inv, TypeOK
      <4>2. Ledger!MayNotify(i)
        BY <2>2, <2>4, <4>1 DEF Ledger!Due
      <4>3. ~Supports(rec[i]) /\ v = Counted(Found(rec[i]), now)
        BY <2>2, <2>3, <4>1, <4>2, SameOperators DEF Ledger!MayNotify, Ledger!Observed
      <4>4. Found(rec[i]) \in Item /\ Gap(Found(rec[i]))
        BY <1>2, ItemSteps DEF Gap
      <4>5. Supports(v)
        BY <1>2, <4>3, <4>4, FoundSupports
      <4> QED BY <1>1, <1>2, <2>1, <3>1, <3>2, <4>1, <4>3, <4>5
              DEF StaysInPlace, Place, InPlace, ItemIn, Key, On
    <3>4. CASE Resolve(h)
      <4>1. pc'[h] = "list" /\ ~job[h].firing
        BY <2>4, <3>4 DEF Resolve, Goto, Leave, Inv, TypeOK
      <4>2. Supports(rec[i]) /\ v = Levelled(Found(rec[i]))
        BY <2>2, <2>3, <2>4, <4>1, SameOperators DEF Ledger!Due, Ledger!Observed
      <4>3. ~Supports(v)
        BY <1>2, <4>2, ItemSteps, FoundSupports
      <4> QED BY <1>1, <1>2, <2>1, <3>1, <3>2, <4>1, <4>2, <4>3
              DEF StaysInPlace, Place, InPlace, ItemIn, Key, On
    <3>5. CASE Decline(h) \/ GiveUp(h)
      BY <2>4, <3>5 DEF Decline, GiveUp, Leave, Inv, TypeOK
    <3> QED BY <3>3, <3>4, <3>5
  <2>5. CASE pc'[h] = "idle"
    <3>1. Supports(v) <=> Supports(rec[i])
      <4>1. [v EXCEPT !.stored = FALSE] = [rec[i] EXCEPT !.stored = FALSE]
        BY <2>1, <2>5 DEF Abandons, On
      <4>2. v \in Item
        BY <2>1, UpdatedType DEF Inv
      <4> QED BY <1>2, <4>1, <4>2 DEF Supports, Item
    <3> QED BY <1>1, <1>2, <2>1, <2>5, <3>1 DEF StaysInPlace, Matches
  <2> QED BY <1>4, <2>1, <2>4, <2>5 DEF Stores
<1> QED BY <1>1, <1>3, <1>4, StepWrites DEF Inv

\* The send and what follows it.
LEMMA SendInPlace ==
  ASSUME Inv, NEW h \in Handlers, NEW i \in Items, On(h, i), Place(h), IsLS(i), ~Abandons(h),
         \/ SendOK(h) \/ SendRateLimited(h) \/ SendFails(h)
         \/ KeepBackoff(h) \/ FindBackoff(h) \/ DeleteBackoff(h)
  PROVE  StaysInPlace(h, i)
<1>1. ItemIn(h) = i /\ KeyOf[i] \in Keys
  BY DEF On, Keys
<1> USE <1>1 DEF StaysInPlace, Matches, Place, InPlace, ItemIn, Key
<1>2. CASE SendOK(h)
  <2>1. /\ pc[h] = "send" /\ pc'[h] = "load" /\ UNCHANGED <<rec, ctx, job>>
    BY <1>2 DEF SendOK, Goto, Inv, TypeOK
  <2>2. reasons'[KeyOf[i]] # {}
    BY <1>2 DEF SendOK, Accepted, Inv, TypeOK
  <2> QED BY <2>1, <2>2
<1>3. CASE SendRateLimited(h)
  BY <1>3 DEF SendRateLimited
<1>4. CASE SendFails(h)
  <2>1. /\ pc[h] = "send" /\ pc'[h] = "restore" /\ UNCHANGED <<rec, ctx, job>>
    BY <1>4 DEF SendFails, Goto, Inv, TypeOK
  <2>2. UNCHANGED reasons
    BY <2>1 DEF Abandons
  <2> QED BY <2>1, <2>2
<1>5. CASE FindBackoff(h)
  <2>1. /\ pc[h] = "load" /\ pc'[h] = "delete" /\ UNCHANGED <<rec, ctx, job, reasons>>
    BY <1>5 DEF FindBackoff, Goto, Inv, TypeOK
  <2> QED BY <2>1
<1>6. CASE KeepBackoff(h) \/ DeleteBackoff(h)
  <2>1. /\ pc[h] \in {"load", "delete"} /\ pc'[h] = "idle" /\ UNCHANGED <<rec, reasons>>
    BY <1>6 DEF KeepBackoff, DeleteBackoff, Leave, Inv, TypeOK
  <2> QED BY <2>1
<1> QED BY <1>2, <1>3, <1>4, <1>5, <1>6

\* The removal of limited support, to its end or as far as it gets.
LEMMA RemoveInPlace ==
  ASSUME Inv, NEW h \in Handlers, NEW i \in Items, On(h, i), Place(h), ~Abandons(h),
         \/ List(h) \/ RemoveFails(h) \/ Removed(h)
         \/ \E id \in 1 .. MaxReasons : Remove(h, id)
  PROVE  StaysInPlace(h, i)
<1>1. ItemIn(h) = i /\ KeyOf[i] \in Keys /\ ctx[h] \in ContextType
  BY DEF On, Keys, Inv, TypeOK, ContextType
<1> USE <1>1 DEF StaysInPlace, Matches, Place, InPlace, ItemIn, Key
<1>2. CASE List(h)
  <2> DEFINE c == [ctx[h] EXCEPT !.listed = reasons[KeyOf[i]]]
  <2>1. /\ pc[h] = "list" /\ pc'[h] = "remove" /\ UNCHANGED <<rec, reasons, job>>
        /\ ctx' = [ctx EXCEPT ![h] = c]
    <3>1. ctx' = [ctx EXCEPT ![h] = c]
      BY <1>2, Zenon DEF List
    <3> QED BY <1>2, <3>1 DEF List, Goto, Inv, TypeOK
  <2>2. c.listed = reasons[KeyOf[i]] /\ c.initial = ctx[h].initial
    BY DEF ContextType
  <2>3. ctx'[h] = c
    BY <2>1 DEF Inv, TypeOK
  <2> QED BY <2>1, <2>2, <2>3
<1>3. ASSUME NEW id \in 1 .. MaxReasons, Remove(h, id)
      PROVE  StaysInPlace(h, i)
  <2> DEFINE c == [ctx[h] EXCEPT !.listed = ctx[h].listed \ {id}]
  <2>1. /\ pc[h] = "remove" /\ pc'[h] = "remove" /\ UNCHANGED <<rec, job>>
        /\ ctx' = [ctx EXCEPT ![h] = c]
        /\ reasons' = [reasons EXCEPT ![KeyOf[i]] = reasons[KeyOf[i]] \ {id}]
    <3>1. /\ ctx' = [ctx EXCEPT ![h] = c]
          /\ reasons' = [reasons EXCEPT ![KeyOf[i]] = reasons[KeyOf[i]] \ {id}]
      BY <1>3, Zenon DEF Remove
    <3> QED BY <1>3, <3>1 DEF Remove
  <2>2. c.listed = ctx[h].listed \ {id} /\ c.initial = ctx[h].initial
    BY DEF ContextType
  <2>3. ctx'[h] = c /\ reasons'[KeyOf[i]] = reasons[KeyOf[i]] \ {id}
    BY <2>1 DEF Inv, TypeOK
  <2> QED BY <2>1, <2>2, <2>3
<1>4. CASE RemoveFails(h)
  <2> DEFINE c == [ctx[h] EXCEPT !.listed = {}]
  <2>1. /\ pc[h] \in {"list", "remove"} /\ pc'[h] = "restore" /\ UNCHANGED <<rec, job>>
        /\ ctx' = [ctx EXCEPT ![h] = c]
        /\ pc[h] = "remove" => ctx[h].listed # {}
    <3>1. ctx' = [ctx EXCEPT ![h] = c]
      BY <1>4, Zenon DEF RemoveFails
    <3> QED BY <1>4, <3>1 DEF RemoveFails, Goto, Inv, TypeOK
  <2>2. c.initial = ctx[h].initial
    BY DEF ContextType
  <2>3. ctx'[h] = c
    BY <2>1 DEF Inv, TypeOK
  <2>4. UNCHANGED reasons
    BY <2>1 DEF Abandons
  <2> QED BY <2>1, <2>2, <2>3, <2>4
<1>5. CASE Removed(h)
  <2>1. /\ pc[h] = "remove" /\ pc'[h] = "idle" /\ UNCHANGED <<rec, reasons>>
        /\ ctx[h].listed = {}
    BY <1>5 DEF Removed, Leave, Inv, TypeOK
  <2> QED BY <2>1
<1> QED BY <1>2, <1>3, <1>4, <1>5

\* Putting the former item back.
LEMMA RestoreInPlace ==
  ASSUME Inv, NEW h \in Handlers, NEW i \in Items, On(h, i), Place(h), ~Abandons(h),
         RestoreGet(h) \/ RestorePut(h) \/ RestoreFails(h)
  PROVE  StaysInPlace(h, i)
<1>1. ItemIn(h) = i /\ UNCHANGED reasons /\ pc[h] \in {"restore", "restorePut"}
  BY DEF On, RestoreGet, RestorePut, RestoreFails
<1> USE <1>1 DEF StaysInPlace, Matches, Place, InPlace, ItemIn, Key
<1>2. CASE RestoreGet(h)
  <2>1. pc'[h] = "restorePut" /\ UNCHANGED <<rec, ctx, job>>
    BY <1>2 DEF RestoreGet, Goto, Inv, TypeOK
  <2> QED BY <2>1
<1>3. CASE RestorePut(h) \/ RestoreFails(h)
  <2>1. pc'[h] = "idle"
    BY <1>3 DEF RestorePut, RestoreFails, Leave, Inv, TypeOK
  <2>2. rec'[i] = ctx[h].initial
    BY <2>1 DEF Abandons, Restored
  <2> QED BY <2>1, <2>2
<1> QED BY <1>2, <1>3

\* Whatever the handler does, it stays in charge, or leaves a match behind.
LEMMA OwnStep ==
  ASSUME Inv, InitialOK, CounterGap, NEW h \in Handlers, Step(h), ~Abandons(h),
         NEW i \in Items, IsLS(i), On(h, i), Place(h)
  PROVE  StaysInPlace(h, i)
<1>1. Retrieve(h) \/ Create(h) \/ Conflict(h) => StaysInPlace(h, i)
  BY ReadsInPlace
<1>2. Claim(h) \/ Decline(h) \/ Resolve(h) \/ GiveUp(h) => StaysInPlace(h, i)
  BY UpdateInPlace
<1>3. (\/ SendOK(h) \/ SendRateLimited(h) \/ SendFails(h)
       \/ KeepBackoff(h) \/ FindBackoff(h) \/ DeleteBackoff(h)) => StaysInPlace(h, i)
  BY SendInPlace
<1>4. (\/ List(h) \/ RemoveFails(h) \/ Removed(h)
       \/ \E id \in 1 .. MaxReasons : Remove(h, id)) => StaysInPlace(h, i)
  BY RemoveInPlace
<1>5. RestoreGet(h) \/ RestorePut(h) \/ RestoreFails(h) => StaysInPlace(h, i)
  BY RestoreInPlace
<1> QED BY <1>1, <1>2, <1>3, <1>4, <1>5, Zenon DEF Step

-----------------------------------------------------------------------------
\* The records that stay undisturbed.

\* What a handler does to one item leaves the others, and their reasons, alone.
LEMMA Elsewhere ==
  ASSUME Inv, OneKeyPerItem, NEW h \in Handlers, Step(h), NEW i \in Items, ItemIn(h) # i
  PROVE  rec'[i] = rec[i] /\ reasons'[KeyOf[i]] = reasons[KeyOf[i]]
<1>1. ItemIn(h) \in Items /\ Key(h) \in Keys /\ KeyOf[i] \in Keys
  BY StepBusy, Known DEF Inv, Keys
<1>2. Key(h) # KeyOf[i]
  BY <1>1 DEF OneKeyPerItem, Key
<1>3. rec'[i] = rec[i]
  BY <1>1, StepWrites DEF Keeps, Stores, Inv, TypeOK
<1>4. UNCHANGED reasons \/ \E s : reasons' = [reasons EXCEPT ![Key(h)] = s]
  <2>1. CASE SendOK(h) \/ SendFails(h)
    BY <2>1 DEF SendOK, SendFails, Accepted
  <2>2. CASE RemoveFails(h) \/ \E id \in 1 .. MaxReasons : Remove(h, id)
    BY <2>2 DEF RemoveFails, Remove
  <2>3. CASE ~(SendOK(h) \/ SendFails(h) \/ RemoveFails(h)
               \/ \E id \in 1 .. MaxReasons : Remove(h, id))
    BY <2>3, Zenon DEF Step, Retrieve, Create, Claim, Decline, Resolve, Conflict, GiveUp,
       SendRateLimited, KeepBackoff, FindBackoff, DeleteBackoff, List,
       Removed, RestoreGet, RestorePut, RestoreFails
  <2> QED BY <2>1, <2>2, <2>3
<1> QED BY <1>1, <1>2, <1>3, <1>4 DEF Inv, TypeOK

\* A step of a handler leaves the others where they are, and itself on its item or on none.
LEMMA Whereabouts ==
  ASSUME Inv, NEW h \in Handlers, Step(h)
  PROVE  /\ IF pc'[h] = "idle" THEN job'[h] = NoJob ELSE job'[h] = job[h]
         /\ \A g \in Handlers \ {h} : pc'[g] = pc[g] /\ job'[g] = job[g] /\ ctx'[g] = ctx[g]
<1>1. PICK l, j, c : Goes(h, l, j, c) /\ Way(h, l, j, c)
  BY StepGoes DEF Inv
<1>2. pc'[h] = l /\ job'[h] = j
  BY <1>1 DEF Goes, Inv, TypeOK
<1>3. IF l = "idle" THEN j = NoJob ELSE j = job[h]
  BY <1>1 DEF Way
<1> QED BY <1>1, <1>2, <1>3 DEF Goes, Inv, TypeOK

\* An idle handler has no alert, after every step.
LEMMA IdleNext ==
  ASSUME Inv, IdleOK, [Next]_vars
  PROVE  IdleOK'
<1>1. ASSUME NEW h \in Handlers, Step(h) PROVE IdleOK'
  BY <1>1, Whereabouts DEF IdleOK
<1>2. ASSUME NEW h \in Handlers, NEW i \in Items, Receive(h, i) PROVE IdleOK'
  BY <1>2 DEF Receive, ReceiveFiring, ReceiveResolved, Begin, IdleOK, Inv, TypeOK
<1>3. CASE Tick \/ Crash \/ UNCHANGED vars
  BY <1>3 DEF Tick, Crash, vars, agent, IdleOK
<1> QED BY <1>1, <1>2, <1>3 DEF Next

\* What a record that is not disturbed by a step has been spared.
LEMMA Undisturbed ==
  ASSUME JobOK', IdleOK', HNext, NEW i \in Items, RecordOf[i] \notin disturbed'
  PROVE  /\ RecordOf[i] \notin disturbed
         /\ \A h \in Handlers : ItemIn(h) = i => ~Abandons(h)
         /\ \A g, h \in Handlers :
              pc'[g] # "idle" /\ pc'[h] # "idle" /\ RecordOf[ItemIn(g)'] = RecordOf[i]
                /\ RecordOf[ItemIn(h)'] = RecordOf[i] => g = h
<1>1. disturbed' = disturbed \cup {r \in Records : \E g, h \in Busy(r) : g # h}
                             \cup {RecordOf[ItemIn(h)] : h \in {g \in Handlers : Abandons(g)}}
  BY DEF HNext
<1>2. RecordOf[i] \notin disturbed /\ \A h \in Handlers : ItemIn(h) = i => ~Abandons(h)
  BY <1>1
<1>3. ASSUME NEW h \in Handlers, pc'[h] # "idle", RecordOf[ItemIn(h)'] = RecordOf[i]
      PROVE  h \in Busy(RecordOf[i])
  <2>1. job'[h] \in Job
    BY <1>3 DEF JobOK
  <2>2. job'[h].item # "none"
    BY <2>1, FleetAssumption DEF Job
  <2>3. job'[h] # NoJob
    BY <2>2 DEF NoJob
  <2> QED BY <1>3, <2>3 DEF Busy, ItemIn
<1>4. RecordOf[i] \in Records
  BY DEF Records
<1> QED BY <1>1, <1>2, <1>3, <1>4

\* A handler's step keeps an undisturbed item accounted for.
LEMMA AccountedStep ==
  ASSUME Inv, InitialOK, CounterGap, OneKeyPerItem, NEW h \in Handlers, Step(h),
         NEW i \in Items, IsLS(i), Accounted(i),
         ItemIn(h) = i => ~Abandons(h),
         \A f, g \in Handlers : On(f, i) /\ On(g, i) => f = g
  PROVE  Accounted(i)'
<1>1. pc[h] # "idle"
  BY StepBusy
<1>2. ASSUME NEW g \in Handlers, g # h
      PROVE  pc'[g] = pc[g] /\ job'[g] = job[g] /\ ctx'[g] = ctx[g]
  BY <1>2, Whereabouts
<1>3. ASSUME NEW g \in Handlers, g # h
      PROVE  On(g, i)' <=> On(g, i)
  BY <1>2, <1>3 DEF On, ItemIn
<1>4. CASE ItemIn(h) = i
  <2>1. On(h, i) /\ Place(h)
    BY <1>1, <1>4 DEF On, Accounted
  <2>2. StaysInPlace(h, i)
    BY <1>4, <2>1, OwnStep
  <2>3. ASSUME NEW g \in Handlers, On(g, i)' PROVE g = h
    BY <1>3, <2>1, <2>3
  <2>4. CASE pc'[h] = "idle"
    <3>1. ~On(h, i)' /\ Matches(i)'
      BY <2>2, <2>4 DEF StaysInPlace, On
    <3> QED BY <2>3, <3>1 DEF Accounted
  <2>5. CASE pc'[h] # "idle"
    <3>1. On(h, i)' /\ Place(h)'
      BY <2>2, <2>5 DEF StaysInPlace, On
    <3> QED BY <2>3, <3>1 DEF Accounted
  <2> QED BY <2>4, <2>5
<1>5. CASE ItemIn(h) # i
  <2>1. rec'[i] = rec[i] /\ reasons'[KeyOf[i]] = reasons[KeyOf[i]]
    BY <1>5, Elsewhere
  <2>2. ~On(h, i) /\ ~On(h, i)'
    BY <1>5, Whereabouts DEF On, ItemIn
  <2>3. Matches(i)' <=> Matches(i)
    BY <2>1 DEF Matches
  <2>4. ASSUME NEW g \in Handlers, On(g, i)' PROVE Place(g)'
    <3>1. g # h /\ On(g, i) /\ Place(g)
      BY <1>3, <2>2, <2>4 DEF Accounted
    <3>2. ItemIn(g) = i /\ ItemIn(g)' = i
      BY <2>4, <3>1 DEF On
    <3> QED BY <1>2, <2>1, <3>1, <3>2 DEF Place, Key
  <2>5. (\A g \in Handlers : ~On(g, i)') => \A g \in Handlers : ~On(g, i)
    BY <1>3, <2>2
  <2> QED BY <2>3, <2>4, <2>5 DEF Accounted
<1> QED BY <1>4, <1>5

\* So does the arrival of an alert, if nobody else is on the item.
LEMMA AccountedReceive ==
  ASSUME Inv, NEW h \in Handlers, NEW j \in Items, Receive(h, j), NEW i \in Items, Accounted(i),
         \A f, g \in Handlers : On(f, i)' /\ On(g, i)' => f = g
  PROVE  Accounted(i)'
<1>1. /\ pc[h] = "idle" /\ UNCHANGED <<rec, reasons>>
      /\ \A g \in Handlers \ {h} : pc'[g] = pc[g] /\ job'[g] = job[g] /\ ctx'[g] = ctx[g]
  BY DEF Receive, ReceiveFiring, ReceiveResolved, Begin, Inv, TypeOK
<1>2. pc'[h] \in {"idle", "retrieve"}
  BY <1>1 DEF Receive, ReceiveFiring, ReceiveResolved, Begin, Inv, TypeOK
<1>3. Matches(i)' <=> Matches(i)
  BY <1>1 DEF Matches
<1>4. ASSUME NEW g \in Handlers, g # h
      PROVE  /\ On(g, i)' <=> On(g, i)
             /\ Place(g)' <=> Place(g)
  BY <1>1, <1>4 DEF On, Place, ItemIn, Key
<1>5. ~On(h, i)
  BY <1>1 DEF On
<1>6. (\A g \in Handlers : ~On(g, i)') => Matches(i)'
  BY <1>3, <1>4, <1>5 DEF Accounted
<1>7. ASSUME NEW g \in Handlers, On(g, i)' PROVE Place(g)'
  <2>1. CASE g = h
    <3>1. \A f \in Handlers : ~On(f, i)
      BY <1>4, <1>5, <1>7, <2>1
    <3>2. pc'[h] = "retrieve" /\ ItemIn(h)' = i /\ Matches(i)'
      BY <1>2, <1>3, <1>7, <2>1, <3>1 DEF On, Accounted
    <3> QED BY <2>1, <3>2 DEF Place, InPlace, Matches, Key
  <2>2. CASE g # h
    BY <1>4, <1>7, <2>2 DEF Accounted
  <2> QED BY <2>1, <2>2
<1> QED BY <1>6, <1>7 DEF Accounted

\* A crash leaves a match on an item whose handler could have ended there.
LEMMA AccountedCrash ==
  ASSUME Inv, Crash, NEW i \in Items, Accounted(i),
         \A h \in Handlers : ItemIn(h) = i => ~Abandons(h)
  PROVE  Accounted(i)'
<1>1. UNCHANGED <<rec, reasons>> /\ \A h \in Handlers : pc'[h] = "idle"
  BY DEF Crash
<1>2. Matches(i)
  <2>1. CASE \A h \in Handlers : ~On(h, i)
    BY <2>1 DEF Accounted
  <2>2. ASSUME NEW h \in Handlers, On(h, i) PROVE Matches(i)
    <3>1. /\ pc[h] \notin {"send", "list"}
          /\ pc[h] = "remove" => ctx[h].listed = {}
          /\ pc[h] \in {"restore", "restorePut"} => rec[i] = ctx[h].initial
      BY <1>1, <2>2 DEF On, Abandons, Restored
    <3>2. pc[h] \in Labels \ {"idle"}
      BY <2>2 DEF On, Inv, TypeOK, Labels
    <3> QED BY <2>2, <3>1, <3>2 DEF Accounted, Place, InPlace, Matches, On, Key, Labels
  <2> QED BY <2>1, <2>2
<1> QED BY <1>1, <1>2 DEF Accounted, Matches, On

\* The invariant of undisturbed records, step by step.
LEMMA HistoryNext ==
  ASSUME OneKeyPerItem
  PROVE  /\ HistoryInv /\ Inv /\ InitialOK /\ CounterGap
         /\ [HNext]_<<vars, disturbed>>
         => HistoryInv'
<1> SUFFICES ASSUME HistoryInv, Inv, InitialOK, CounterGap, [HNext]_<<vars, disturbed>>
             PROVE  HistoryInv'
  OBVIOUS
<1>1. CASE UNCHANGED <<vars, disturbed>>
  BY <1>1 DEF vars, agent, HistoryInv, IdleOK, AloneOK, KeptOK, Accounted, Matches, Place, On,
              ItemIn, Key
<1>2. CASE HNext
  <2>1. Next /\ Inv'
    BY <1>2, NextInv DEF HNext
  <2>2. IdleOK'
    BY <2>1, IdleNext DEF HistoryInv
  <2>3. ASSUME NEW i \in Items, RecordOf[i] \notin disturbed'
        PROVE  /\ RecordOf[i] \notin disturbed
               /\ \A h \in Handlers : ItemIn(h) = i => ~Abandons(h)
               /\ \A g, h \in Handlers :
                    pc'[g] # "idle" /\ pc'[h] # "idle" /\ RecordOf[ItemIn(g)'] = RecordOf[i]
                      /\ RecordOf[ItemIn(h)'] = RecordOf[i] => g = h
    BY <1>2, <2>1, <2>2, <2>3, Undisturbed DEF Inv
  <2>4. AloneOK'
    <3> SUFFICES ASSUME NEW g \in Handlers, NEW h \in Handlers,
                        pc'[g] # "idle", pc'[h] # "idle",
                        RecordOf[ItemIn(g)'] = RecordOf[ItemIn(h)'],
                        RecordOf[ItemIn(h)'] \notin disturbed'
                 PROVE  g = h
      BY DEF AloneOK
    <3>1. job'[h] \in Job
      BY <2>1 DEF Inv, JobOK
    <3>2. ItemIn(h)' \in Items
      BY <3>1 DEF ItemIn, Job
    <3> QED BY <2>3, <3>2
  <2>5. ASSUME NEW i \in Items, IsLS(i), RecordOf[i] \notin disturbed'
        PROVE  Accounted(i)'
    <3>1. Accounted(i)
      BY <2>3, <2>5 DEF HistoryInv, KeptOK
    <3>2. \A f, g \in Handlers : On(f, i) /\ On(g, i) => f = g
      BY <2>3, <2>5 DEF HistoryInv, AloneOK, On
    <3>3. \A f, g \in Handlers : On(f, i)' /\ On(g, i)' => f = g
      BY <2>3, <2>5 DEF On
    <3>4. ASSUME NEW h \in Handlers, Step(h) PROVE Accounted(i)'
      BY <2>3, <2>5, <3>1, <3>2, <3>4, AccountedStep
    <3>5. ASSUME NEW h \in Handlers, NEW j \in Items, Receive(h, j) PROVE Accounted(i)'
      BY <3>1, <3>3, <3>5, AccountedReceive
    <3>6. CASE Crash
      BY <2>3, <2>5, <3>1, <3>6, AccountedCrash
    <3>7. CASE Tick
      <4>1. UNCHANGED <<rec, reasons, pc, job, ctx>>
        BY <3>7 DEF Tick, agent
      <4> QED BY <3>1, <4>1 DEF Accounted, Matches, Place, On, ItemIn, Key
    <3> QED BY <2>1, <3>4, <3>5, <3>6, <3>7 DEF Next
  <2> QED BY <2>2, <2>4, <2>5 DEF HistoryInv, KeptOK
<1> QED BY <1>1, <1>2

\* The history variable only watches.
LEMMA HistoryWatches == HSpec => Spec
<1>1. HInit => Init
  BY DEF HInit
<1>2. [HNext]_<<vars, disturbed>> => [Next]_vars
  BY DEF HNext
<1> QED BY <1>1, <1>2, PTL DEF HSpec, Spec

\* The counters tell what OCM holds: on a record on which alerts have not overlapped and no
\* handler has ended in ignorance, and as long as no hosted cluster is reported under two
\* management clusters, whatever OCM and the API server refuse in between.
THEOREM CountersTellOCM ==
  ASSUME OneKeyPerItem
  PROVE  HSpec => []LedgerKept
<1>1. HInit => HistoryInv
  <2> SUFFICES ASSUME HInit PROVE HistoryInv
    OBVIOUS
  <2>1. /\ \A h \in Handlers : pc[h] = "idle" /\ job[h] = NoJob
        /\ \A i \in Items : rec[i] = NoItem /\ KeyOf[i] \in Keys
        /\ \A k \in Keys : reasons[k] = {}
    BY DEF HInit, Init, Keys
  <2>2. ~Supports(NoItem)
    BY DEF Supports, NoItem
  <2>3. \A i \in Items : Matches(i)
    BY <2>1, <2>2 DEF Matches
  <2> QED BY <2>1, <2>3 DEF HistoryInv, IdleOK, AloneOK, KeptOK, Accounted, On
<1>2. HistoryInv /\ Inv /\ InitialOK /\ CounterGap /\ [HNext]_<<vars, disturbed>>
        => HistoryInv'
  BY HistoryNext
<1>3. Inv /\ HistoryInv => LedgerKept
  <2> SUFFICES ASSUME Inv, HistoryInv, NEW i \in Items, IsLS(i), Quiet(KeyOf[i]),
                      RecordOf[i] \notin disturbed
               PROVE  Matches(i)
    BY DEF LedgerKept, Matches, Supports
  <2>1. Accounted(i)
    BY DEF HistoryInv, KeptOK
  <2>2. ASSUME NEW h \in Handlers, On(h, i) PROVE FALSE
    <3>1. job[h] \in Job /\ Key(h) = KeyOf[i]
      BY <2>2 DEF On, Inv, JobOK, Key
    <3>2. job[h].item # "none"
      BY <3>1, FleetAssumption DEF Job
    <3>3. job[h] # NoJob
      BY <3>2 DEF NoJob
    <3> QED BY <3>1, <3>3 DEF Quiet
  <2> QED BY <2>1, <2>2 DEF Accounted
<1>4. HSpec => [](Inv /\ InitialOK /\ InitialGap /\ CounterGap)
  BY HistoryWatches, LedgerInvariance, PTL
<1> QED BY <1>1, <1>2, <1>3, <1>4, PTL DEF HSpec
=============================================================================
