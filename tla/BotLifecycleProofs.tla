------------------------- MODULE BotLifecycleProofs -------------------------
(***************************************************************************)
(* Machine-checked proofs about BotLifecycle, for any set of bots,         *)
(* requests, loop identities and any bounds.                               *)
(***************************************************************************)
EXTENDS BotLifecycle, TLAPS

-----------------------------------------------------------------------------
(* Lock operators keep the types of the lock variables.                    *)

LEMMA TakeType ==
    ASSUME TypeOK, NEW p \in Procs, NEW b \in Bots, Take(p, b)
    PROVE  /\ holder' \in [Bots -> [Gens -> Procs \cup {NoOne}]]
           /\ queue' \in [Bots -> [Gens -> Seq(Procs)]]
           /\ lref' \in [Procs -> Gens]
  BY DEF TypeOK, Take

LEMMA EnqueueType ==
    ASSUME TypeOK, NEW p \in Procs, NEW b \in Bots, Enqueue(p, b)
    PROVE  /\ holder' \in [Bots -> [Gens -> Procs \cup {NoOne}]]
           /\ queue' \in [Bots -> [Gens -> Seq(Procs)]]
           /\ lref' \in [Procs -> Gens]
<1>1. Append(queue[b][gen[b]], p) \in Seq(Procs)
  BY DEF TypeOK
<1> QED BY <1>1 DEF TypeOK, Enqueue

LEMMA HandOverType ==
    ASSUME TypeOK, NEW b \in Bots, NEW g \in Gens, HandOver(b, g)
    PROVE  /\ holder' \in [Bots -> [Gens -> Procs \cup {NoOne}]]
           /\ queue' \in [Bots -> [Gens -> Seq(Procs)]]
           /\ lref' \in [Procs -> Gens]
<1>1. queue[b][g] \in Seq(Procs)
  BY DEF TypeOK
<1>2. queue[b][g] # <<>> => /\ Head(queue[b][g]) \in Procs
                            /\ Tail(queue[b][g]) \in Seq(Procs)
  BY <1>1
<1> QED BY <1>1, <1>2 DEF TypeOK, HandOver

LEMMA LeaveQueueType ==
    ASSUME TypeOK, NEW p \in Procs, NEW b \in Bots, LeaveQueue(p, b)
    PROVE  /\ holder' \in [Bots -> [Gens -> Procs \cup {NoOne}]]
           /\ queue' \in [Bots -> [Gens -> Seq(Procs)]]
           /\ lref' \in [Procs -> Gens]
<1> DEFINE q == queue[b][lref[p]]
<1>1. q \in Seq(Procs)
  BY DEF TypeOK
<1>2. PICK i \in 1 .. Len(q) :
         queue' = [queue EXCEPT ![b][lref[p]] = SubSeq(q, 1, i - 1) \o SubSeq(q, i + 1, Len(q))]
  BY DEF LeaveQueue
<1>3. SubSeq(q, 1, i - 1) \in Seq(Procs) /\ SubSeq(q, i + 1, Len(q)) \in Seq(Procs)
  BY <1>1, <1>2
<1>4. SubSeq(q, 1, i - 1) \o SubSeq(q, i + 1, Len(q)) \in Seq(Procs)
  BY <1>3
<1> HIDE DEF q
<1> QED BY <1>2, <1>4 DEF TypeOK, LeaveQueue

-----------------------------------------------------------------------------
(* Type correctness.                                                       *)

LEMMA BlankType == Blank \in Record /\ NoCall \in Call
  BY ConstantsAssumption DEF Blank, Record, NoCall, CallOn, Call

LEMMA EnabledUpdate ==
    ASSUME NEW r \in Record, NEW e \in BOOLEAN
    PROVE  [r EXCEPT !.enabled = e] =
               [stored |-> r.stored, enabled |-> e, live |-> r.live, edit |-> r.edit]
  BY DEF Record

LEMMA EnabledUpdateType ==
    ASSUME NEW r \in Record, NEW e \in BOOLEAN
    PROVE  [r EXCEPT !.enabled = e] \in Record
  BY EnabledUpdate DEF Record

LEMMA InitType == Init => TypeOK
<1> SUFFICES ASSUME Init PROVE TypeOK
  OBVIOUS
<1>1. rec \in [Bots -> Record] /\ snap \in [Loops -> Record] /\ call \in [Disablers -> Call]
  <2>1. [Blank EXCEPT !.stored = "stored"] \in Record
    BY BlankType DEF Blank, Record
  <2> QED BY <2>1, BlankType DEF Init
<1>2. own \in [Loops -> Bots]
  BY ConstantsAssumption DEF Init
<1>3. /\ queue \in [Bots -> [Gens -> Seq(Procs)]]
      /\ holder \in [Bots -> [Gens -> Procs \cup {NoOne}]]
  BY DEF Init
<1>4. 0 \in Gens
  BY ConstantsAssumption DEF Gens
<1> QED BY <1>1, <1>2, <1>3, <1>4 DEF Init, TypeOK

LEMMA LoopTypeStep ==
    ASSUME TypeOK, NEW t \in Loops, LoopStep(t)
    PROVE  TypeOK'
<1> t \in Procs /\ own[t] \in Bots /\ lref[t] \in Gens /\ snap[t] \in Record /\ rec[own[t]] \in Record
  BY DEF TypeOK, Procs
<1> USE BlankType DEF Procs
<1>1. CASE LoopExits(t) \/ LoopDies(t) \/ TickContinues(t) \/ OrderSent(t)
  BY <1>1 DEF TypeOK, LoopExits, LoopDies, TickContinues, OrderSent, lockVars
<1>2. CASE TickStarts(t)
  BY <1>2, TakeType DEF TypeOK, TickStarts, EnterTick
<1>3. CASE TickQueues(t)
  BY <1>3, EnqueueType DEF TypeOK, TickQueues
<1>4. CASE TickGranted(t)
  <2>1. CASE HandOver(own[t], lref[t]) /\ LeaveTick(t)
    BY <1>4, <2>1, HandOverType DEF TypeOK, TickGranted, LeaveTick
  <2>2. CASE EnterTick(t, own[t]) /\ UNCHANGED lockVars
    BY <1>4, <2>2 DEF TypeOK, TickGranted, EnterTick, lockVars
  <2> QED BY <1>4, <2>1, <2>2 DEF TickGranted, LeaveTick
<1>5. CASE FetchFails(t)
  BY <1>5, HandOverType DEF TypeOK, FetchFails, LeaveTick
<1>6. CASE TickEnds(t)
  BY <1>6, HandOverType DEF TypeOK, TickEnds, LeaveTick
<1>7. CASE CancelDelivered(t)
  <2>1. /\ holder' \in [Bots -> [Gens -> Procs \cup {NoOne}]]
        /\ queue' \in [Bots -> [Gens -> Seq(Procs)]]
        /\ lref' \in [Procs -> Gens]
    <3>1. CASE HandOver(own[t], lref[t])
      BY <3>1, HandOverType
    <3>2. CASE LeaveQueue(t, own[t])
      BY <3>2, LeaveQueueType
    <3>3. CASE UNCHANGED lockVars
      BY <3>3 DEF TypeOK, lockVars
    <3> QED BY <1>7, <3>1, <3>2, <3>3 DEF CancelDelivered
  <2> QED BY <1>7, <2>1 DEF TypeOK, CancelDelivered
<1> QED
  BY <1>1, <1>2, <1>3, <1>4, <1>5, <1>6, <1>7 DEF LoopStep

LEMMA DropLockType ==
    ASSUME TypeOK, NEW b \in Bots, DropLock(b)
    PROVE  gen' \in [Bots -> Gens]
  BY DEF TypeOK, DropLock

(* The disable operators are proved about once, for the arguments with     *)
(* which the actions use them.                                             *)
DisableArgs(p, b, op, todo) ==
    /\ p \in Disablers /\ b \in Bots /\ todo \in SUBSET Bots
    /\ op \in {"disable", "delete", "cascade", "hook"}

LEMMA DisableBodyType ==
    ASSUME TypeOK, NEW p, NEW b, NEW op, NEW todo, DisableArgs(p, b, op, todo),
           DisableBody(p, b, op, todo)
    PROVE  /\ rec' \in [Bots -> Record] /\ gen' \in [Bots -> Gens]
           /\ pc' \in [Procs -> {"none", "ready", "wait", "fetch", "work", "order",
                                 "idle", "sched", "join", "next"}]
           /\ call' \in [Disablers -> Call]
           /\ UNCHANGED <<cred, mode, own, snap>>
<1>1. rec' \in [Bots -> Record]
  <2>1. Disabled(b, op) \in Record
    <3>1. rec[b] \in Record
      BY DEF TypeOK, DisableArgs
    <3> QED BY <3>1 DEF Disabled, Record
  <2> QED
    BY <2>1 DEF TypeOK, DisableBody
<1>2. gen' \in [Bots -> Gens]
  BY DropLockType DEF TypeOK, DisableBody, DisableArgs
<1>3. CallOn(NoOne, op, NoOne, todo) \in Call
  BY DEF CallOn, DisableArgs, Call
<1> QED
  BY <1>1, <1>2, <1>3, BlankType DEF TypeOK, DisableBody, DisableArgs, Disablers, Procs

LEMMA DisableLocksType ==
    ASSUME TypeOK, NEW p, NEW b, NEW op, NEW todo, DisableArgs(p, b, op, todo),
           DisableLocks(p, b, op, todo),
           tasks' \in [Bots -> Loops \cup {NoOne}], UNCHANGED cxl
    PROVE  TypeOK'
<1>1. CASE UNCHANGED lockVars /\ DisableBody(p, b, op, todo)
  BY <1>1, DisableBodyType DEF TypeOK, lockVars
<1>2. CASE DisableQueues(p, b, op, todo)
  <2>1. CallOn(b, op, NoOne, todo) \in Call
    BY DEF CallOn, DisableArgs, Call
  <2> QED
    BY <1>2, <2>1, EnqueueType DEF TypeOK, DisableQueues, DisableArgs, Disablers, Procs
<1> QED BY <1>1, <1>2 DEF DisableLocks

LEMMA DisableStartsType ==
    ASSUME TypeOK, NEW p, NEW b, NEW op, NEW todo, DisableArgs(p, b, op, todo),
           DisableStarts(p, b, op, todo)
    PROVE  TypeOK'
<1>1. tasks' \in [Bots -> Loops \cup {NoOne}]
  BY DEF TypeOK, DisableStarts
<1>2. CASE Running(b)
  <2>1. CallOn(b, op, tasks[b], todo) \in Call
    BY <1>2 DEF CallOn, DisableArgs, Call, TypeOK
  <2>2. /\ cxl' = [cxl EXCEPT ![tasks[b]] = TRUE]
        /\ pc' = [pc EXCEPT ![p] = "join"]
        /\ call' = [call EXCEPT ![p] = CallOn(b, op, tasks[b], todo)]
        /\ UNCHANGED <<rec, cred, mode, own, snap, gen, lockVars>>
    BY <1>2 DEF DisableStarts
  <2> QED
    BY <1>1, <2>1, <2>2 DEF TypeOK, DisableArgs, Disablers, Procs, lockVars
<1>3. CASE ~Running(b)
  BY <1>1, <1>3, DisableLocksType DEF DisableStarts
<1> QED BY <1>2, <1>3 DEF DisableStarts

LEMMA SpawnType ==
    ASSUME TypeOK, NEW b \in Bots, NEW c \in Callers, Spawn(b, c)
    PROVE  /\ tasks' \in [Bots -> Loops \cup {NoOne}]
           /\ own' \in [Loops -> Bots] /\ cxl' \in [Loops -> BOOLEAN]
           /\ pc' \in [Procs -> {"none", "ready", "wait", "fetch", "work", "order",
                                 "idle", "sched", "join", "next"}]
<1>1. CASE mode # "up" \/ Running(b)
  BY <1>1 DEF TypeOK, Spawn, Procs
<1>2. CASE mode = "up" /\ ~Running(b)
  <2>1. PICK t \in Loops :
            /\ tasks' = [tasks EXCEPT ![b] = t] /\ own' = [own EXCEPT ![t] = b]
            /\ cxl' = [cxl EXCEPT ![t] = FALSE]
            /\ pc' = [pc EXCEPT ![t] = "ready", ![c] = "idle"]
    BY <1>2 DEF Spawn
  <2> QED BY <2>1 DEF TypeOK, Procs
<1> QED BY <1>1, <1>2

LEMMA EnableBodyType ==
    ASSUME TypeOK, NEW b \in Bots, NEW c \in Callers, EnableBody(c, b)
    PROVE  /\ rec' \in [Bots -> Record]
           /\ tasks' \in [Bots -> Loops \cup {NoOne}]
           /\ own' \in [Loops -> Bots] /\ cxl' \in [Loops -> BOOLEAN]
           /\ pc' \in [Procs -> {"none", "ready", "wait", "fetch", "work", "order",
                                 "idle", "sched", "join", "next"}]
<1>1. CASE ~Stored(b)
  BY <1>1 DEF TypeOK, EnableBody, Procs
<1>2. CASE Stored(b)
  <2>1. rec' \in [Bots -> Record]
    <3>1. [rec[b] EXCEPT !.enabled = TRUE] \in Record
      BY EnabledUpdateType DEF TypeOK
    <3> QED BY <1>2, <3>1 DEF TypeOK, EnableBody
  <2> QED BY <1>2, <2>1, SpawnType DEF EnableBody
<1> QED BY <1>1, <1>2

LEMMA RequestTypeStep ==
    ASSUME TypeOK, NEW c \in Callers, NEW b \in Bots, Request(c, b)
    PROVE  TypeOK'
<1> USE DEF Disablers, Procs
<1>1. CASE EnableNow(c, b)
  BY <1>1, EnableBodyType DEF TypeOK, EnableNow, lockVars
<1>2. CASE EnableQueues(c, b)
  <2>1. CallOn(b, "enable", NoOne, {}) \in Call
    BY DEF CallOn, Call
  <2> QED
    BY <1>2, <2>1, EnqueueType DEF TypeOK, EnableQueues
<1>3. CASE DisableBot(c, b)
  BY <1>3, DisableStartsType DEF DisableBot, DisableArgs
<1>4. CASE DeleteBot(c, b)
  BY <1>4, DisableStartsType DEF DeleteBot, DisableArgs
<1> QED BY <1>1, <1>2, <1>3, <1>4 DEF Request

LEMMA CallArgs ==
    ASSUME TypeOK, NEW p \in Disablers, call[p].bot \in Bots,
           call[p].op \in {"disable", "delete", "cascade", "hook"}
    PROVE  DisableArgs(p, call[p].bot, call[p].op, call[p].todo)
  BY DEF TypeOK, DisableArgs, Call

LEMMA CallerTypeStep ==
    ASSUME TypeOK, NEW p \in Disablers, CallerStep(p),
           pc[p] \in {"join", "wait"} => call[p].bot \in Bots,
           pc[p] = "join" => call[p].op \in {"disable", "delete", "cascade", "hook"}
    PROVE  TypeOK'
<1> USE DEF Disablers, Procs
<1>0. p \in Procs /\ call[p] \in Call /\ lref[p] \in Gens
  BY DEF TypeOK
<1>1. CASE DisableJoins(p)
  <2>1. DisableArgs(p, call[p].bot, call[p].op, call[p].todo)
    BY <1>1, CallArgs DEF DisableJoins
  <2>2. DisableLocks(p, call[p].bot, call[p].op, call[p].todo) /\ UNCHANGED <<tasks, cxl>>
    BY <1>1 DEF DisableJoins
  <2>3. tasks' \in [Bots -> Loops \cup {NoOne}]
    BY <2>2 DEF TypeOK
  <2> QED BY <2>1, <2>2, <2>3, DisableLocksType
<1>2. CASE DisableGranted(p)
  <2>1. DisableArgs(p, call[p].bot, call[p].op, call[p].todo)
    BY <1>2, CallArgs DEF DisableGranted, Granted
  <2>2. call[p].bot \in Bots
    BY <2>1 DEF DisableArgs
  <2>3. HandOver(call[p].bot, lref[p]) /\ DisableBody(p, call[p].bot, call[p].op, call[p].todo)
        /\ UNCHANGED <<tasks, cxl>>
    BY <1>2 DEF DisableGranted
  <2> QED BY <1>0, <2>1, <2>2, <2>3, HandOverType, DisableBodyType DEF TypeOK
<1>3. CASE p \in Callers /\ CascadeNext(p)
  <2>1. PICK b \in call[p].todo : DisableStarts(p, b, "cascade", call[p].todo \ {b})
    BY <1>3 DEF CascadeNext
  <2>2. DisableArgs(p, b, "cascade", call[p].todo \ {b})
    BY <1>0 DEF DisableArgs, Call
  <2> QED BY <2>1, <2>2, DisableStartsType
<1>4. CASE p \in Callers /\ \E b \in Bots : EnableGranted(p, b)
  <2>1. PICK b \in Bots : EnableGranted(p, b)
    BY <1>4
  <2> QED
    BY <1>0, <1>4, <2>1, BlankType, HandOverType, EnableBodyType DEF TypeOK, EnableGranted
<1>5. CASE p \in Bots /\ HookStarts(p)
  BY <1>5, DisableStartsType DEF HookStarts, DisableArgs
<1> QED BY <1>1, <1>2, <1>3, <1>4, <1>5 DEF CallerStep

LEMMA RouteTypeStep ==
    ASSUME TypeOK,
           \/ \E b \in Bots : CreateBot(b) \/ \E live \in BOOLEAN : UpdateBot(b, live)
           \/ \E k \in Creds : \/ \E perm \in {"trade", "read"} : PatchCredential(k, perm)
                               \/ \E c \in Callers : DeleteCredential(c, k)
    PROVE  TypeOK'
<1>1. ASSUME NEW b \in Bots, CreateBot(b) PROVE TypeOK'
  BY <1>1, ZenonT(30) DEF TypeOK, CreateBot, Record, lockVars
<1>2. ASSUME NEW b \in Bots, NEW live \in BOOLEAN, UpdateBot(b, live) PROVE TypeOK'
  <2>1. rec' \in [Bots -> Record]
    <3>1. rec[b] \in Record /\ rec[b].edit + 1 \in 0 .. MaxEdits
      BY <1>2, ConstantsAssumption DEF TypeOK, UpdateBot, Record
    <3>2. rec' = [rec EXCEPT ![b] = [rec[b] EXCEPT !.live = live, !.edit = rec[b].edit + 1]]
      BY <1>2 DEF UpdateBot, TypeOK
    <3>3. [rec[b] EXCEPT !.live = live, !.edit = rec[b].edit + 1] \in Record
      BY <3>1 DEF Record
    <3> QED BY <3>2, <3>3 DEF TypeOK
  <2> QED BY <1>2, <2>1 DEF TypeOK, UpdateBot, lockVars
<1>3. ASSUME NEW k \in Creds, NEW perm \in {"trade", "read"}, PatchCredential(k, perm) PROVE TypeOK'
  <2>1. rec' \in [Bots -> Record]
    <3>1. \A b \in Bots : [rec[b] EXCEPT !.enabled = FALSE] \in Record
      BY EnabledUpdateType DEF TypeOK
    <3> QED BY <1>3, <3>1 DEF TypeOK, PatchCredential, HookFires
  <2> QED BY <1>3, <2>1 DEF TypeOK, PatchCredential, HookFires, lockVars
<1>4. ASSUME NEW k \in Creds, NEW c \in Callers, DeleteCredential(c, k) PROVE TypeOK'
  <2>1. rec' \in [Bots -> Record]
    <3>1. \A b \in Bots : [rec[b] EXCEPT !.enabled = FALSE] \in Record
      BY EnabledUpdateType DEF TypeOK
    <3> QED BY <1>4, <3>1 DEF TypeOK, DeleteCredential
  <2>2. CallOn(NoOne, "cascade", NoOne, Users(k)) \in Call
    BY DEF CallOn, Call, Users
  <2>3. call' \in [Disablers -> Call]
    BY <1>4, <2>2, BlankType DEF TypeOK, DeleteCredential, Disablers
  <2> QED BY <1>4, <2>1, <2>3 DEF TypeOK, DeleteCredential, lockVars
<1> QED BY <1>1, <1>2, <1>3, <1>4

LEMMA ProcessTypeStep ==
    ASSUME TypeOK, Startup \/ Close \/ Closed \/ Exit
    PROVE  TypeOK'
<1>1. CASE Startup
  <2>1. rec' \in [Bots -> Record]
    <3>1. \A b \in Bots : [rec[b] EXCEPT !.enabled = FALSE] \in Record
      BY EnabledUpdateType DEF TypeOK
    <3> QED BY <1>1, <3>1 DEF TypeOK, Startup
  <2>2. /\ tasks' \in [Bots -> Loops \cup {NoOne}] /\ own' \in [Loops -> Bots]
        /\ pc' \in [Procs -> {"none", "ready", "wait", "fetch", "work", "order",
                              "idle", "sched", "join", "next"}]
    BY <1>1 DEF TypeOK, Startup
  <2> QED BY <1>1, <2>1, <2>2 DEF TypeOK, Startup, lockVars
<1>2. CASE Close \/ Closed
  BY <1>2 DEF TypeOK, Close, Closed, lockVars
<1>3. CASE Exit
  BY <1>3, BlankType, ConstantsAssumption DEF TypeOK, Exit, Gens
<1> QED BY <1>1, <1>2, <1>3

-----------------------------------------------------------------------------
(* What the lock operators leave alone.                                    *)

LEMMA HandOverFacts ==
    ASSUME TypeOK, NEW b \in Bots, NEW g \in Gens, HandOver(b, g)
    PROVE  /\ lref' = lref
           /\ \A b2 \in Bots, g2 \in Gens : b2 # b \/ g2 # g => holder'[b2][g2] = holder[b2][g2]
  BY DEF TypeOK, HandOver

LEMMA TakeFacts ==
    ASSUME TypeOK, NEW p \in Procs, NEW b \in Bots, Take(p, b)
    PROVE  /\ holder'[b][gen[b]] = p /\ lref'[p] = gen[b]
           /\ \A q \in Procs \ {p} : lref'[q] = lref[q]
           /\ \A b2 \in Bots, g2 \in Gens : b2 # b \/ g2 # gen[b] => holder'[b2][g2] = holder[b2][g2]
  BY DEF TypeOK, Take

LEMMA EnqueueFacts ==
    ASSUME TypeOK, NEW p \in Procs, NEW b \in Bots, Enqueue(p, b)
    PROVE  /\ holder' = holder /\ \A q \in Procs \ {p} : lref'[q] = lref[q]
  BY DEF TypeOK, Enqueue

-----------------------------------------------------------------------------
(* The inductive invariant holds initially.                                *)

LEMMA InitInv == Init => IndInv
<1> SUFFICES ASSUME Init PROVE IndInv
  OBVIOUS
<1>1. TypeOK
  BY InitType
<1>2. \A t \in Loops : pc[t] = "none"
  BY DEF Init, Procs
<1>3. \A b \in Bots, g \in Gens : holder[b][g] = NoOne
  BY DEF Init
<1>4. CallsWellFormed
  BY ConstantsAssumption DEF Init, CallsWellFormed, NoCall, CallOn, Disablers, Procs
<1> QED
  BY <1>1, <1>2, <1>3, <1>4 DEF IndInv, OneLoopPerBot, Effective, Alive, InTick, TicksHoldLocks,
     TicksAreCurrent, SnapsAreOn, AbandonedLocks, HeldLocks, DownMeansDead

-----------------------------------------------------------------------------
(* The rest of the invariant, proved together: how ticks relate to the     *)
(* locks, to _tasks and to the records.                                    *)
TickInv ==
    /\ OneLoopPerBot /\ TicksHoldLocks /\ TicksAreCurrent
    /\ SnapsAreOn /\ AbandonedLocks /\ HeldLocks /\ DownMeansDead

(* A tick that holds its lock and ends, by itself or cancelled: the lock   *)
(* goes to the next waiter and nothing else that TickInv reads changes.    *)
LEMMA ReleaseInv ==
    ASSUME IndInv, NEW t \in Loops, Alive(t), holder[own[t]][lref[t]] = t,
           HandOver(own[t], lref[t]),
           \A u \in Loops \ {t} : pc'[u] = pc[u] /\ cxl'[u] = cxl[u] /\ snap'[u] = snap[u],
           pc'[t] \in {"none", "ready"}, cxl'[t] = cxl[t] \/ pc'[t] = "none",
           \A b \in Bots : /\ On(b) => On(b)'
                           /\ rec[b].stored = rec'[b].stored,
           UNCHANGED <<cred, mode, tasks, own, gen>>
    PROVE  TickInv'
<1> USE DEF IndInv
<1>1. t \in Procs /\ own[t] \in Bots /\ lref[t] \in Gens /\ t # NoOne
  BY ConstantsAssumption DEF TypeOK, Procs
<1>2. /\ lref' = lref
      /\ \A b \in Bots, g \in Gens : b # own[t] \/ g # lref[t] => holder'[b][g] = holder[b][g]
  BY <1>1, HandOverFacts
<1>3. \A b \in Bots, g \in Gens : holder'[b][g] # NoOne => holder[b][g] # NoOne
  BY <1>1, <1>2
<1>4. \A u \in Loops : (InTick(u))' => u # t /\ InTick(u)
  BY DEF InTick
<1>5. OneLoopPerBot'
  BY DEF OneLoopPerBot, Effective, Alive
<1>6. TicksHoldLocks'
  <2> SUFFICES ASSUME NEW u \in Loops, (InTick(u))' PROVE holder'[own[u]][lref[u]] = u
    BY <1>2 DEF TicksHoldLocks
  <2>1. holder[own[u]][lref[u]] = u /\ u # t /\ own[u] \in Bots /\ lref[u] \in Gens
    BY <1>4 DEF TicksHoldLocks, TypeOK, Procs
  <2> QED BY <1>1, <1>2, <2>1
<1>7. TicksAreCurrent'
  BY <1>2, <1>4 DEF TicksAreCurrent, TypeOK
<1>8. SnapsAreOn'
  BY <1>4 DEF SnapsAreOn
<1>9. AbandonedLocks'
  BY <1>3, <1>4 DEF AbandonedLocks
<1>10. HeldLocks'
  BY <1>3 DEF HeldLocks
<1>11. DownMeansDead'
  BY DEF DownMeansDead, Alive
<1> QED BY <1>5, <1>6, <1>7, <1>8, <1>9, <1>10, <1>11 DEF TickInv

(* A loop starts its tick holding the bot's current lock.                  *)
LEMMA EnterInv ==
    ASSUME IndInv, NEW t \in Loops, Alive(t), ~cxl[t],
           EnterTick(t, own[t]), TickProceeds(own[t]),
           \A q \in Procs \ {t} : lref'[q] = lref[q],
           lref'[t] = gen[own[t]],
           holder'[own[t]][lref'[t]] = t,
           holder[own[t]][gen[own[t]]] \in {NoOne, t},
           \A b \in Bots, g \in Gens : b # own[t] \/ g # gen[own[t]] => holder'[b][g] = holder[b][g],
           UNCHANGED <<rec, cred, mode, tasks, cxl, own, gen>>
    PROVE  TickInv'
<1> USE DEF IndInv
<1>1. t \in Procs /\ own[t] \in Bots /\ lref[t] \in Gens /\ t # NoOne
  BY ConstantsAssumption DEF TypeOK, Procs
<1>2. \A u \in Loops : u # t => pc'[u] = pc[u] /\ snap'[u] = snap[u] /\ lref'[u] = lref[u]
  BY DEF EnterTick, TypeOK, Procs
<1>3. pc'[t] = "fetch" /\ snap'[t] = rec[own[t]]
  BY <1>1 DEF EnterTick, TypeOK
<1>4. OneLoopPerBot'
  BY <1>2 DEF OneLoopPerBot, Effective, Alive
<1>5. TicksHoldLocks'
  <2> SUFFICES ASSUME NEW u \in Loops, (InTick(u))', u # t PROVE holder'[own[u]][lref'[u]] = u
    BY DEF TicksHoldLocks
  <2>1. /\ lref'[u] = lref[u] /\ holder[own[u]][lref[u]] = u
        /\ own[u] \in Bots /\ lref[u] \in Gens /\ u # NoOne
    BY <1>2, ConstantsAssumption DEF TicksHoldLocks, TypeOK, Procs, InTick
  <2> QED BY <1>1, <2>1
<1>6. TicksAreCurrent'
  BY <1>2 DEF TicksAreCurrent, InTick, TickProceeds, On, Stored
<1>7. SnapsAreOn'
  BY <1>2, <1>3 DEF SnapsAreOn, InTick, TickProceeds, On, Stored
<1>8. AbandonedLocks'
  <2> SUFFICES ASSUME NEW b \in Bots, NEW g \in Gens, g # gen[b], holder'[b][g] # NoOne
               PROVE  /\ rec[b].stored = "deleted" \/ cred[CredOf[b]] = "gone"
                      /\ \A u \in Loops : (InTick(u))' /\ own[u] = b => cxl[u]
    BY DEF AbandonedLocks
  <2>1. holder[b][g] # NoOne
    OBVIOUS
  <2>2. b # own[t]
    BY <2>1 DEF AbandonedLocks, TickProceeds, On, Stored
  <2> QED BY <1>2, <2>1, <2>2 DEF AbandonedLocks, InTick
<1>9. HeldLocks'
  BY <1>1 DEF HeldLocks, TickProceeds, On, Stored
<1>10. DownMeansDead'
  BY <1>2 DEF DownMeansDead, Alive
<1> QED BY <1>4, <1>5, <1>6, <1>7, <1>8, <1>9, <1>10 DEF TickInv

(* A step of a loop that keeps it out of its tick, or in it, and touches   *)
(* no lock it holds.                                                       *)
LEMMA PlainInv ==
    ASSUME IndInv, NEW t \in Loops, Alive(t),
           \A u \in Loops \ {t} : pc'[u] = pc[u] /\ cxl'[u] = cxl[u],
           InTick(t)' => InTick(t), cxl'[t] = cxl[t] \/ ~Alive(t)',
           InTick(t)' => lref'[t] = lref[t],
           \A q \in Procs \ {t} : lref'[q] = lref[q],
           UNCHANGED holder, \A u \in Loops : InTick(u)' => snap'[u] = snap[u],
           UNCHANGED <<rec, cred, mode, tasks, own, gen>>
    PROVE  TickInv'
<1> USE DEF IndInv
<1>1. \A u \in Loops : (InTick(u))' => InTick(u) /\ lref'[u] = lref[u]
  BY DEF InTick, Procs
<1>2. OneLoopPerBot' /\ DownMeansDead'
  BY DEF OneLoopPerBot, Effective, Alive, DownMeansDead
<1>3. TicksHoldLocks' /\ SnapsAreOn'
  BY <1>1 DEF TicksHoldLocks, SnapsAreOn
<1>4. TicksAreCurrent'
  BY <1>1 DEF TicksAreCurrent, On, Stored, Alive, InTick
<1>5. AbandonedLocks' /\ HeldLocks'
  BY <1>1 DEF AbandonedLocks, HeldLocks, Alive, InTick
<1> QED BY <1>2, <1>3, <1>4, <1>5 DEF TickInv

LEMMA LoopInvStep ==
    ASSUME IndInv, NEW t \in Loops, LoopStep(t)
    PROVE  TickInv'
<1> USE DEF IndInv
<1>0. t \in Procs /\ own[t] \in Bots /\ lref[t] \in Gens
  BY DEF TypeOK, Procs
<1>1. CASE LoopExits(t) \/ LoopDies(t) \/ TickContinues(t) \/ OrderSent(t)
  BY <1>0, <1>1, PlainInv DEF LoopExits, LoopDies, TickContinues, OrderSent, LoopAt, lockVars,
     InTick, Alive, TypeOK, Procs
<1>2. CASE TickStarts(t)
  <2>1. /\ holder[own[t]][gen[own[t]]] = NoOne /\ Alive(t) /\ ~cxl[t]
        /\ EnterTick(t, own[t]) /\ TickProceeds(own[t]) /\ Take(t, own[t])
        /\ UNCHANGED <<rec, cred, mode, tasks, cxl, own, call, gen>>
    BY <1>2 DEF TickStarts, Free, LoopAt, Alive
  <2> QED BY <1>0, <2>1, TakeFacts, EnterInv
<1>3. CASE TickQueues(t)
  <2>1. /\ Alive(t) /\ Enqueue(t, own[t]) /\ pc' = [pc EXCEPT ![t] = "wait"]
        /\ UNCHANGED <<rec, cred, mode, tasks, cxl, own, snap, call, gen>>
    BY <1>3 DEF TickQueues, LoopAt, Alive
  <2>2. ~InTick(t)' /\ \A u \in Loops \ {t} : pc'[u] = pc[u]
    BY <1>0, <2>1 DEF InTick, TypeOK, Procs
  <2> QED BY <1>0, <2>1, <2>2, EnqueueFacts, PlainInv
<1>4. CASE TickGranted(t)
  <2>1. ~cxl[t] /\ pc[t] = "wait" /\ holder[own[t]][lref[t]] = t /\ Alive(t)
        /\ UNCHANGED <<rec, cred, mode, tasks, cxl, own, call, gen>>
    BY <1>4 DEF TickGranted, Granted, Alive
  <2>2. CASE TickProceeds(own[t]) /\ EnterTick(t, own[t]) /\ UNCHANGED lockVars
    <3>1. lref[t] = gen[own[t]]
      BY <1>0, <2>1, <2>2, ConstantsAssumption
         DEF AbandonedLocks, TickProceeds, On, Stored, Procs
    <3> QED BY <1>0, <2>1, <2>2, <3>1, EnterInv DEF lockVars
  <2>3. CASE LeaveTick(t)
    <3>1. /\ HandOver(own[t], lref[t]) /\ pc' = [pc EXCEPT ![t] = "ready"]
          /\ snap' = [snap EXCEPT ![t] = Blank]
      BY <2>3 DEF LeaveTick
    <3>2. \A u \in Loops \ {t} : pc'[u] = pc[u] /\ snap'[u] = snap[u]
      BY <1>0, <3>1 DEF TypeOK, Procs
    <3> QED BY <1>0, <2>1, <3>1, <3>2, ReleaseInv DEF On, Stored, TypeOK
  <2> QED BY <1>4, <2>2, <2>3 DEF TickGranted
<1>5. CASE FetchFails(t)
  <2>1. /\ InTick(t) /\ ~cxl[t] /\ Alive(t) /\ HandOver(own[t], lref[t])
        /\ pc' = [pc EXCEPT ![t] = "ready"] /\ snap' = [snap EXCEPT ![t] = Blank]
        /\ rec' = [rec EXCEPT ![own[t]] = snap[t]]
        /\ UNCHANGED <<cred, mode, tasks, cxl, own, call, gen>>
    BY <1>5 DEF FetchFails, LeaveTick, LoopAt, InTick, Alive
  <2>2. \A u \in Loops \ {t} : pc'[u] = pc[u] /\ snap'[u] = snap[u]
    BY <1>0, <2>1 DEF TypeOK, Procs
  <2>3. holder[own[t]][lref[t]] = t
    BY <2>1 DEF TicksHoldLocks
  <2>4. \A b \in Bots : (On(b) => On(b)') /\ rec[b].stored = rec'[b].stored
    BY <1>0, <2>1 DEF SnapsAreOn, TicksAreCurrent, On, Stored, TypeOK
  <2>5. pc'[t] = "ready"
    BY <1>0, <2>1 DEF TypeOK
  <2> QED BY <1>0, <2>1, <2>2, <2>3, <2>4, <2>5, ReleaseInv
<1>6. CASE TickEnds(t)
  <2>1. /\ InTick(t) /\ Alive(t) /\ HandOver(own[t], lref[t])
        /\ pc' = [pc EXCEPT ![t] = "ready"] /\ snap' = [snap EXCEPT ![t] = Blank]
        /\ UNCHANGED <<rec, cred, mode, tasks, cxl, own, call, gen>>
    BY <1>6 DEF TickEnds, LeaveTick, InTick, Alive
  <2>2. \A u \in Loops \ {t} : pc'[u] = pc[u] /\ snap'[u] = snap[u]
    BY <1>0, <2>1 DEF TypeOK, Procs
  <2>3. holder[own[t]][lref[t]] = t
    BY <2>1 DEF TicksHoldLocks
  <2> QED BY <1>0, <2>1, <2>2, <2>3, ReleaseInv DEF On, Stored, TypeOK
<1>7. CASE CancelDelivered(t)
  <2>1. /\ Alive(t) /\ cxl[t] /\ pc' = [pc EXCEPT ![t] = "none"]
        /\ cxl' = [cxl EXCEPT ![t] = FALSE] /\ snap' = [snap EXCEPT ![t] = Blank]
        /\ UNCHANGED <<rec, cred, mode, tasks, own, call, gen>>
    BY <1>7 DEF CancelDelivered
  <2>2. /\ \A u \in Loops \ {t} : pc'[u] = pc[u] /\ cxl'[u] = cxl[u] /\ snap'[u] = snap[u]
        /\ pc'[t] = "none"
    BY <1>0, <2>1 DEF TypeOK, Procs
  <2>3. CASE HandOver(own[t], lref[t]) /\ (InTick(t) \/ Granted(t, own[t]))
    <3>1. holder[own[t]][lref[t]] = t
      BY <2>3 DEF TicksHoldLocks, Granted
    <3> QED BY <2>1, <2>2, <2>3, <3>1, ReleaseInv DEF On, Stored
  <2>4. CASE LeaveQueue(t, own[t]) \/ UNCHANGED lockVars
    <3>1. UNCHANGED <<holder, lref>>
      BY <2>4 DEF LeaveQueue, lockVars
    <3> QED BY <2>1, <2>2, <3>1, PlainInv DEF InTick, Alive
  <2> QED BY <1>7, <2>3, <2>4 DEF CancelDelivered
<1> QED
  BY <1>1, <1>2, <1>3, <1>4, <1>5, <1>6, <1>7 DEF LoopStep

-----------------------------------------------------------------------------
(* Disabling.  A loop that will still act on a bot excludes everybody from *)
(* the bot's critical section, whichever lock object guards it.            *)
LEMMA NoTickInside ==
    ASSUME IndInv, NEW p \in Disablers, NEW b \in Bots,
           Free(b) \/ holder[b][lref[p]] = p
    PROVE  \A t \in Loops : InTick(t) /\ own[t] = b => cxl[t]
<1> SUFFICES ASSUME NEW t \in Loops, InTick(t), own[t] = b, ~cxl[t] PROVE FALSE
  OBVIOUS
<1>1. holder[b][gen[b]] = t /\ t # NoOne /\ p # t /\ p # NoOne
  BY ConstantsAssumption DEF IndInv, TicksHoldLocks, TicksAreCurrent, Procs, Disablers
<1>2. CASE Free(b)
  BY <1>1, <1>2 DEF Free
<1>3. CASE holder[b][lref[p]] = p
  <2>1. lref[p] \in Gens /\ lref[p] # gen[b]
    BY <1>1, <1>3 DEF IndInv, TypeOK, Procs, Disablers
  <2> QED BY <1>1, <1>3, <2>1 DEF IndInv, AbandonedLocks
<1> QED BY <1>2, <1>3

LEMMA DisableBodyInv ==
    ASSUME IndInv, NEW p, NEW b, NEW op, NEW todo, DisableArgs(p, b, op, todo),
           DisableBody(p, b, op, todo),
           \/ Free(b) /\ UNCHANGED lockVars
           \/ holder[b][lref[p]] = p /\ HandOver(b, lref[p]),
           op = "cascade" => cred[CredOf[b]] = "gone",
           \A b2 \in Bots \ {b} : tasks'[b2] = tasks[b2],
           tasks'[b] = tasks[b] \/ ~Running(b), UNCHANGED cxl
    PROVE  TickInv'
<1> USE DEF IndInv
<1>0. p \in Disablers /\ p \in Procs /\ b \in Bots /\ p # NoOne /\ lref[p] \in Gens
  BY ConstantsAssumption DEF DisableArgs, Disablers, Procs, TypeOK
<1>1. lref' = lref /\ UNCHANGED <<cred, mode, own, snap>>
  BY <1>0, HandOverFacts DEF DisableBody, lockVars
<1>2. \A t \in Loops : pc'[t] = pc[t] /\ (InTick(t)' <=> InTick(t))
  BY <1>0, ConstantsAssumption DEF DisableBody, TypeOK, Procs, Disablers, InTick
<1>3. \A t \in Loops : InTick(t) /\ own[t] = b => cxl[t]
  BY <1>0, NoTickInside
<1>4. \A b2 \in Bots, g \in Gens : holder'[b2][g] # NoOne => holder[b2][g] # NoOne
  BY <1>0, HandOverFacts DEF lockVars
<1>5. \A b2 \in Bots \ {b} : rec'[b2] = rec[b2] /\ \A g \in Gens : holder'[b2][g] = holder[b2][g]
  BY <1>0, HandOverFacts, SMTT(30) DEF DisableBody, TypeOK, lockVars
<1>6. rec'[b] = Disabled(b, op)
  BY <1>0 DEF DisableBody, TypeOK
<1>7. \A b2 \in Bots : b2 # b => gen'[b2] = gen[b2]
  BY <1>0 DEF DisableBody, DropLock, TypeOK
<1>8. OneLoopPerBot'
  <2> SUFFICES ASSUME NEW t \in Loops, Effective(t)' PROVE tasks'[own[t]] = t
    BY <1>1 DEF OneLoopPerBot
  <2>1. Alive(t) /\ tasks[own[t]] = t /\ own[t] \in Bots /\ t # NoOne
    BY <1>2, ConstantsAssumption DEF OneLoopPerBot, Effective, Alive, TypeOK, Procs
  <2> QED BY <2>1 DEF Running
<1>9. TicksHoldLocks'
  <2> SUFFICES ASSUME NEW t \in Loops, InTick(t)' PROVE holder'[own[t]][lref[t]] = t
    BY <1>1 DEF TicksHoldLocks
  <2>0. t # p /\ t # NoOne
    BY <1>0, ConstantsAssumption DEF Procs, Disablers
  <2>1. holder[own[t]][lref[t]] = t /\ own[t] \in Bots /\ lref[t] \in Gens
    BY <1>2 DEF TicksHoldLocks, TypeOK, Procs
  <2>2. CASE UNCHANGED lockVars
    BY <2>1, <2>2 DEF lockVars
  <2>3. CASE holder[b][lref[p]] = p /\ HandOver(b, lref[p])
    BY <1>0, <2>0, <2>1, <2>3, HandOverFacts
  <2> QED BY <2>2, <2>3
<1>10. TicksAreCurrent'
  <2> SUFFICES ASSUME NEW t \in Loops, InTick(t)', ~cxl[t]
               PROVE  lref[t] = gen'[own[t]] /\ On(own[t])'
    BY <1>1 DEF TicksAreCurrent
  <2>1. own[t] \in Bots /\ own[t] # b /\ lref[t] = gen[own[t]] /\ On(own[t])
    BY <1>2, <1>3 DEF TicksAreCurrent, TypeOK
  <2> QED BY <1>1, <1>5, <1>7, <2>1 DEF On, Stored
<1>11. SnapsAreOn'
  BY <1>1, <1>2 DEF SnapsAreOn
<1>12. rec[b].stored = "deleted" => rec'[b].stored = "deleted"
  BY <1>6 DEF Disabled, Stored
<1>13. AbandonedLocks'
  <2> SUFFICES ASSUME NEW b2 \in Bots, NEW g \in Gens, g # gen'[b2], holder'[b2][g] # NoOne
               PROVE  /\ rec'[b2].stored = "deleted" \/ cred[CredOf[b2]] = "gone"
                      /\ \A t \in Loops : InTick(t) /\ own[t] = b2 => cxl[t]
    BY <1>1, <1>2 DEF AbandonedLocks
  <2>0. holder[b2][g] # NoOne
    BY <1>4
  <2>1. CASE b2 # b
    BY <1>5, <1>7, <2>0, <2>1 DEF AbandonedLocks
  <2>2. CASE b2 = b /\ g # gen[b]
    BY <1>12, <1>3, <2>0, <2>2 DEF AbandonedLocks
  <2>3. CASE b2 = b /\ g = gen[b]
    <3>1. op = "delete" \/ (op = "cascade" /\ Stored(b))
      BY <2>3 DEF DisableBody
    <3>2. rec[b].stored # "never" /\ rec[b].stored \in {"never", "stored", "deleted"}
      BY <1>0, <2>0, <2>3 DEF HeldLocks, TypeOK, Record
    <3>3. op = "delete" => rec'[b].stored = "deleted"
      BY <1>6, <3>2 DEF Disabled, Stored
    <3> QED BY <1>3, <2>3, <3>1, <3>3
  <2> QED BY <2>1, <2>2, <2>3
<1>14. HeldLocks'
  BY <1>4, <1>5, <1>6 DEF HeldLocks, Disabled
<1>15. DownMeansDead'
  BY <1>1, <1>2 DEF DownMeansDead, Alive
<1> QED BY <1>8, <1>9, <1>10, <1>11, <1>13, <1>14, <1>15 DEF TickInv

(* A step of a disabler or caller that enters no critical section.         *)
LEMMA OutsideInv ==
    ASSUME IndInv, NEW p \in Disablers,
           \A q \in Procs \ {p} : pc'[q] = pc[q] /\ lref'[q] = lref[q],
           \A t \in Loops : (Effective(t) /\ tasks[own[t]] = t)' \/ ~Effective(t)',
           \A t \in Loops : cxl[t] => cxl'[t],
           UNCHANGED <<rec, cred, mode, own, snap, gen, holder>>
    PROVE  TickInv'
<1> USE DEF IndInv
<1>1. \A t \in Loops : /\ InTick(t)' <=> InTick(t)
                       /\ Alive(t)' <=> Alive(t)
                       /\ lref'[t] = lref[t]
  BY ConstantsAssumption DEF InTick, Alive, Procs, Disablers
<1>2. OneLoopPerBot' /\ DownMeansDead'
  BY <1>1 DEF OneLoopPerBot, DownMeansDead
<1>3. TicksHoldLocks' /\ SnapsAreOn' /\ HeldLocks'
  BY <1>1 DEF TicksHoldLocks, SnapsAreOn, HeldLocks
<1>4. TicksAreCurrent'
  BY <1>1 DEF TicksAreCurrent, On, Stored
<1>5. AbandonedLocks'
  BY <1>1 DEF AbandonedLocks
<1> QED BY <1>2, <1>3, <1>4, <1>5 DEF TickInv

LEMMA DisableLocksInv ==
    ASSUME IndInv, NEW p, NEW b, NEW op, NEW todo, DisableArgs(p, b, op, todo),
           DisableLocks(p, b, op, todo),
           op = "cascade" => cred[CredOf[b]] = "gone",
           \A b2 \in Bots \ {b} : tasks'[b2] = tasks[b2],
           tasks'[b] = tasks[b] \/ ~Running(b), UNCHANGED cxl
    PROVE  TickInv'
<1> USE DEF IndInv
<1>1. CASE Free(b) /\ UNCHANGED lockVars /\ DisableBody(p, b, op, todo)
  BY <1>1, DisableBodyInv
<1>2. CASE DisableQueues(p, b, op, todo)
  <2>0. p \in Disablers /\ p \in Procs /\ b \in Bots
    BY DEF DisableArgs, Disablers, Procs
  <2>1. /\ Enqueue(p, b) /\ pc' = [pc EXCEPT ![p] = "wait"]
        /\ UNCHANGED <<rec, cred, mode, own, snap, gen>>
    BY <1>2 DEF DisableQueues
  <2>2. /\ holder' = holder
        /\ \A q \in Procs \ {p} : pc'[q] = pc[q] /\ lref'[q] = lref[q]
    BY <2>0, <2>1, EnqueueFacts DEF TypeOK
  <2>3. \A t \in Loops : (Effective(t) /\ tasks[own[t]] = t)' \/ ~Effective(t)'
    <3> SUFFICES ASSUME NEW t \in Loops, Effective(t)' PROVE tasks'[own[t]] = t
      BY <2>1
    <3>0. t # p /\ t \in Procs /\ t # NoOne
      BY <2>0, ConstantsAssumption DEF Procs, Disablers
    <3>1. Alive(t) /\ tasks[own[t]] = t /\ own[t] \in Bots
      BY <2>2, <3>0 DEF OneLoopPerBot, Effective, Alive, TypeOK
    <3> QED BY <3>0, <3>1 DEF Running
  <2> QED BY <2>0, <2>1, <2>2, <2>3, OutsideInv
<1> QED BY <1>1, <1>2 DEF DisableLocks

LEMMA DisableStartsInv ==
    ASSUME IndInv, NEW p, NEW b, NEW op, NEW todo, DisableArgs(p, b, op, todo),
           DisableStarts(p, b, op, todo),
           op = "cascade" => cred[CredOf[b]] = "gone"
    PROVE  TickInv'
<1> USE DEF IndInv
<1>0. p \in Disablers /\ p \in Procs /\ b \in Bots
  BY DEF DisableArgs, Disablers, Procs
<1>1. tasks' = [tasks EXCEPT ![b] = NoOne]
  BY DEF DisableStarts
<1>2. CASE Running(b)
  <2>1. /\ cxl' = [cxl EXCEPT ![tasks[b]] = TRUE] /\ pc' = [pc EXCEPT ![p] = "join"]
        /\ UNCHANGED <<rec, cred, mode, own, snap, gen, lockVars>>
    BY <1>2 DEF DisableStarts
  <2>2. tasks[b] \in Loops /\ \A q \in Procs \ {p} : pc'[q] = pc[q] /\ lref'[q] = lref[q]
    BY <1>0, <1>2, <2>1 DEF Running, TypeOK, lockVars
  <2>3. \A t \in Loops : (Effective(t) /\ tasks[own[t]] = t)' \/ ~Effective(t)'
    <3> SUFFICES ASSUME NEW t \in Loops, Effective(t)' PROVE tasks'[own[t]] = t
      BY <2>1
    <3>0. t # p /\ t \in Procs
      BY <1>0, ConstantsAssumption DEF Procs, Disablers
    <3>1. t # tasks[b]
      BY <2>1, <2>2 DEF Effective, TypeOK
    <3>2. tasks[own[t]] = t
      BY <2>1, <2>2, <3>0, <3>1 DEF OneLoopPerBot, Effective, Alive, TypeOK
    <3> QED BY <1>0, <1>1, <3>1, <3>2 DEF TypeOK
  <2>4. \A t \in Loops : cxl[t] => cxl'[t]
    BY <2>1, <2>2 DEF TypeOK
  <2> QED BY <1>0, <2>1, <2>2, <2>3, <2>4, OutsideInv DEF lockVars
<1>3. CASE ~Running(b)
  <2>1. DisableLocks(p, b, op, todo) /\ UNCHANGED cxl
    BY <1>3 DEF DisableStarts
  <2>2. \A b2 \in Bots \ {b} : tasks'[b2] = tasks[b2]
    BY <1>1 DEF TypeOK
  <2> QED BY <1>3, <2>1, <2>2, DisableLocksInv
<1> QED BY <1>2, <1>3

(* What a disabler is doing stays well formed.                             *)
LEMMA DisableCalls ==
    ASSUME IndInv, NEW p, NEW b, NEW op, NEW todo, DisableArgs(p, b, op, todo),
           DisableStarts(p, b, op, todo) \/ DisableBody(p, b, op, todo) \/ DisableQueues(p, b, op, todo),
           op = "cascade" => \A b2 \in todo \cup {b} : cred[CredOf[b2]] = "gone",
           todo # {} => op = "cascade"
    PROVE  CallsWellFormed'
<1> USE DEF IndInv
<1>0. p \in Disablers /\ p \in Procs /\ b \in Bots /\ cred' = cred /\ todo \in SUBSET Bots /\ NoOne \notin Bots
  BY ConstantsAssumption
     DEF DisableArgs, Disablers, Procs, DisableStarts, DisableLocks, DisableBody, DisableQueues
<1>1. \A q \in Disablers \ {p} : pc'[q] = pc[q] /\ call'[q] = call[q]
  BY <1>0 DEF DisableStarts, DisableLocks, DisableBody, DisableQueues, TypeOK, Disablers, Procs
<1>2. \/ pc'[p] = "idle" /\ call'[p] = NoCall
      \/ pc'[p] = "next" /\ todo # {} /\ call'[p] = CallOn(NoOne, op, NoOne, todo)
      \/ pc'[p] = "wait" /\ call'[p] = CallOn(b, op, NoOne, todo)
      \/ pc'[p] = "join" /\ call'[p] = CallOn(b, op, tasks[b], todo)
  BY <1>0 DEF DisableStarts, DisableLocks, DisableBody, DisableQueues, TypeOK, Disablers, Procs
<1>3. \A q \in Disablers \ {p} :
        /\ pc'[q] \in {"join", "wait"} => call'[q].bot \in Bots
        /\ pc'[q] = "join" => call'[q].op \in {"disable", "delete", "cascade", "hook"}
        /\ pc'[q] = "next" \/ call'[q].todo # {} => call'[q].op = "cascade"
        /\ call'[q].op = "cascade" =>
              \A b2 \in Bots : b2 \in call'[q].todo \/ b2 = call'[q].bot => cred'[CredOf[b2]] = "gone"
  BY <1>0, <1>1 DEF CallsWellFormed
<1>4. /\ pc'[p] \in {"join", "wait"} => call'[p].bot \in Bots
      /\ pc'[p] = "join" => call'[p].op \in {"disable", "delete", "cascade", "hook"}
      /\ pc'[p] = "next" \/ call'[p].todo # {} => call'[p].op = "cascade"
      /\ call'[p].op = "cascade" =>
              \A b2 \in Bots : b2 \in call'[p].todo \/ b2 = call'[p].bot => cred'[CredOf[b2]] = "gone"
  BY <1>0, <1>2 DEF NoCall, CallOn, DisableArgs
<1> QED BY <1>3, <1>4 DEF CallsWellFormed

-----------------------------------------------------------------------------
(* Enabling: the loop spawned is the bot's only one.                       *)
LEMMA EnableBodyInv ==
    ASSUME IndInv, NEW c \in Callers, NEW b \in Bots, EnableBody(c, b),
           \/ UNCHANGED lockVars
           \/ holder[b][lref[c]] = c /\ HandOver(b, lref[c]),
           UNCHANGED <<cred, mode, snap, gen>>
    PROVE  TickInv'
<1> USE DEF IndInv
<1>0. c \in Disablers /\ c \in Procs /\ c # NoOne /\ c \notin Loops /\ lref[c] \in Gens
  BY ConstantsAssumption DEF Disablers, Procs, TypeOK
<1>1. /\ lref' = lref
      /\ \A b2 \in Bots, g \in Gens : holder[b2][g] # holder'[b2][g] => holder[b2][g] = c
  BY <1>0, HandOverFacts DEF lockVars
<1>2. \A b2 \in Bots : /\ rec'[b2].stored = rec[b2].stored
                       /\ rec[b2].enabled => rec'[b2].enabled
  <2>1. rec' \in {rec, [rec EXCEPT ![b] = [rec[b] EXCEPT !.enabled = TRUE]]}
    BY DEF EnableBody, TypeOK
  <2>2. rec[b] \in Record
    BY DEF TypeOK
  <2>3. [rec[b] EXCEPT !.enabled = TRUE] =
          [stored |-> rec[b].stored, enabled |-> TRUE, live |-> rec[b].live, edit |-> rec[b].edit]
    BY <2>2, EnabledUpdate
  <2> QED BY <2>1, <2>3 DEF TypeOK, On, Stored
<1>3. \/ \E t \in Loops :
            /\ mode = "up" /\ ~Running(b) /\ Unused(t, b)
            /\ tasks' = [tasks EXCEPT ![b] = t] /\ own' = [own EXCEPT ![t] = b]
            /\ cxl' = [cxl EXCEPT ![t] = FALSE]
            /\ pc' = [pc EXCEPT ![t] = "ready", ![c] = "idle"]
      \/ pc' = [pc EXCEPT ![c] = "idle"] /\ UNCHANGED <<tasks, own, cxl>>
  BY DEF EnableBody, Spawn
<1>4. \A t \in Loops :
        \/ /\ pc'[t] = pc[t] /\ own'[t] = own[t] /\ cxl'[t] = cxl[t]
           /\ Effective(t) => tasks'[own[t]] = tasks[own[t]]
        \/ /\ pc[t] = "none" /\ pc'[t] = "ready" /\ tasks'[own'[t]] = t /\ mode = "up"
  <2> SUFFICES ASSUME NEW t \in Loops
               PROVE  \/ /\ pc'[t] = pc[t] /\ own'[t] = own[t] /\ cxl'[t] = cxl[t]
                         /\ Effective(t) => tasks'[own[t]] = tasks[own[t]]
                      \/ /\ pc[t] = "none" /\ pc'[t] = "ready" /\ tasks'[own'[t]] = t /\ mode = "up"
    OBVIOUS
  <2>0. t # c /\ t \in Procs /\ t # NoOne
    BY <1>0, ConstantsAssumption DEF Procs
  <2>1. CASE pc' = [pc EXCEPT ![c] = "idle"] /\ UNCHANGED <<tasks, own, cxl>>
    BY <2>0, <2>1 DEF TypeOK
  <2>2. ASSUME NEW u \in Loops, mode = "up", ~Running(b), Unused(u, b),
               tasks' = [tasks EXCEPT ![b] = u], own' = [own EXCEPT ![u] = b],
               cxl' = [cxl EXCEPT ![u] = FALSE],
               pc' = [pc EXCEPT ![u] = "ready", ![c] = "idle"]
        PROVE  \/ /\ pc'[t] = pc[t] /\ own'[t] = own[t] /\ cxl'[t] = cxl[t]
                  /\ Effective(t) => tasks'[own[t]] = tasks[own[t]]
               \/ /\ pc[t] = "none" /\ pc'[t] = "ready" /\ tasks'[own'[t]] = t /\ mode = "up"
    <3>1. CASE t = u
      BY <2>0, <2>2, <3>1 DEF TypeOK, Unused, Alive
    <3>2. CASE t # u
      <4>1. Effective(t) => own[t] # b
        BY <2>0, <2>2 DEF OneLoopPerBot, Effective, Running
      <4> QED BY <2>0, <2>2, <3>2, <4>1 DEF TypeOK
    <3> QED BY <3>1, <3>2
  <2> QED BY <1>3, <2>1, <2>2
<1>5. \A t \in Loops : InTick(t)' => InTick(t) /\ own'[t] = own[t] /\ cxl'[t] = cxl[t]
  BY <1>4 DEF InTick
<1>6. OneLoopPerBot'
  BY <1>4 DEF OneLoopPerBot, Effective, Alive
<1>7. TicksHoldLocks'
  <2> SUFFICES ASSUME NEW t \in Loops, InTick(t)' PROVE holder'[own'[t]][lref[t]] = t
    BY <1>1 DEF TicksHoldLocks
  <2>1. /\ own'[t] = own[t] /\ holder[own[t]][lref[t]] = t
        /\ own[t] \in Bots /\ lref[t] \in Gens /\ t # c
    BY <1>0, <1>5 DEF TicksHoldLocks, TypeOK, Procs
  <2> QED BY <1>1, <2>1
<1>8. TicksAreCurrent'
  <2> SUFFICES ASSUME NEW t \in Loops, InTick(t)', ~cxl'[t]
               PROVE  /\ lref[t] = gen[own'[t]]
                      /\ rec'[own'[t]].stored = "stored" /\ rec'[own'[t]].enabled
    BY <1>1 DEF TicksAreCurrent, On, Stored
  <2>1. own'[t] = own[t] /\ own[t] \in Bots /\ lref[t] = gen[own[t]] /\ On(own[t])
    BY <1>5 DEF TicksAreCurrent, TypeOK
  <2> QED BY <1>2, <2>1 DEF On, Stored
<1>9. SnapsAreOn'
  BY <1>5 DEF SnapsAreOn
<1>10. \A b2 \in Bots, g \in Gens : holder'[b2][g] # NoOne => holder[b2][g] # NoOne
  BY <1>0, <1>1
<1>11. AbandonedLocks' /\ HeldLocks'
  BY <1>2, <1>5, <1>10 DEF AbandonedLocks, HeldLocks
<1>12. DownMeansDead'
  BY <1>4 DEF DownMeansDead, Alive
<1> QED BY <1>6, <1>7, <1>8, <1>9, <1>11, <1>12 DEF TickInv

LEMMA EnableCalls ==
    ASSUME IndInv, NEW c \in Callers, NEW b \in Bots,
           EnableNow(c, b) \/ EnableQueues(c, b) \/ EnableGranted(c, b)
    PROVE  CallsWellFormed'
<1> USE DEF IndInv
<1>0. c \in Disablers /\ c \in Procs /\ NoOne \notin Bots /\ cred' = cred
  BY ConstantsAssumption DEF Disablers, Procs, EnableNow, EnableQueues, EnableGranted
<1>1. \A q \in Disablers \ {c} : pc'[q] = pc[q] /\ call'[q] = call[q]
  <2> SUFFICES ASSUME NEW q \in Disablers \ {c} PROVE pc'[q] = pc[q] /\ call'[q] = call[q]
    OBVIOUS
  <2>1. q \in Procs /\ q \notin Loops
    BY ConstantsAssumption DEF Disablers, Procs
  <2> QED
    BY <1>0, <2>1 DEF EnableNow, EnableQueues, EnableGranted, EnableBody, Spawn, TypeOK
<1>2. \/ pc'[c] = "wait" /\ call'[c] = CallOn(b, "enable", NoOne, {})
      \/ pc'[c] = "idle" /\ call'[c] \in {call[c], NoCall}
  <2>1. c \notin Loops
    BY ConstantsAssumption
  <2> QED
    BY <1>0, <2>1 DEF EnableNow, EnableQueues, EnableGranted, EnableBody, Spawn, TypeOK
<1>4. /\ pc'[c] \in {"join", "wait"} => call'[c].bot \in Bots
      /\ pc'[c] # "join"
      /\ pc'[c] = "next" \/ call'[c].todo # {} => call'[c].op = "cascade"
      /\ call'[c].op = "cascade" =>
              \A b2 \in Bots : b2 \in call'[c].todo \/ b2 = call'[c].bot => cred'[CredOf[b2]] = "gone"
  <2>1. CASE pc'[c] = "wait" /\ call'[c] = CallOn(b, "enable", NoOne, {})
    BY <2>1 DEF CallOn
  <2>2. CASE pc'[c] = "idle" /\ call'[c] = call[c]
    BY <1>0, <2>2 DEF CallsWellFormed
  <2>3. CASE pc'[c] = "idle" /\ call'[c] = NoCall
    BY <2>3 DEF NoCall, CallOn
  <2> QED BY <1>2, <2>1, <2>2, <2>3
<1> QED BY <1>0, <1>1, <1>4 DEF CallsWellFormed

LEMMA EnableInv ==
    ASSUME IndInv, NEW c \in Callers, NEW b \in Bots,
           EnableNow(c, b) \/ EnableQueues(c, b) \/ EnableGranted(c, b)
    PROVE  TickInv'
<1> USE DEF IndInv
<1>1. CASE EnableNow(c, b)
  BY <1>1, EnableBodyInv DEF EnableNow
<1>2. CASE EnableQueues(c, b)
  <2>0. c \in Disablers /\ c \in Procs
    BY DEF Disablers, Procs
  <2>1. /\ Enqueue(c, b) /\ pc' = [pc EXCEPT ![c] = "wait"]
        /\ UNCHANGED <<rec, cred, mode, tasks, cxl, own, snap, gen>>
    BY <1>2 DEF EnableQueues
  <2>2. /\ holder' = holder
        /\ \A q \in Procs \ {c} : pc'[q] = pc[q] /\ lref'[q] = lref[q]
    BY <2>0, <2>1, EnqueueFacts DEF TypeOK
  <2>3. \A t \in Loops : (Effective(t) /\ tasks[own[t]] = t)' \/ ~Effective(t)'
    BY <2>1, <2>2, ConstantsAssumption DEF OneLoopPerBot, Effective, Alive, Procs
  <2> QED BY <2>0, <2>1, <2>2, <2>3, OutsideInv
<1>3. CASE EnableGranted(c, b)
  BY <1>3, EnableBodyInv DEF EnableGranted, Granted
<1> QED BY <1>1, <1>2, <1>3

LEMMA RequestInvStep ==
    ASSUME IndInv, NEW c \in Callers, NEW b \in Bots, Request(c, b)
    PROVE  IndInv'
<1>0. TypeOK'
  BY RequestTypeStep DEF IndInv
<1>1. CASE EnableNow(c, b) \/ EnableQueues(c, b)
  BY <1>0, <1>1, EnableInv, EnableCalls DEF IndInv, TickInv
<1>2. CASE DisableBot(c, b) \/ DeleteBot(c, b)
  <2>1. PICK op \in {"disable", "delete"} : DisableStarts(c, b, op, {})
    BY <1>2 DEF DisableBot, DeleteBot
  <2>2. DisableArgs(c, b, op, {})
    BY <2>1 DEF DisableArgs, Disablers
  <2>3. TickInv' /\ CallsWellFormed'
    BY <2>1, <2>2, DisableStartsInv, DisableCalls
  <2> QED BY <1>0, <2>3 DEF IndInv, TickInv
<1> QED BY <1>1, <1>2 DEF Request

LEMMA CallerInvStep ==
    ASSUME IndInv, NEW p \in Disablers, CallerStep(p)
    PROVE  IndInv'
<1>0. /\ call[p] \in Call
      /\ pc[p] \in {"join", "wait"} => call[p].bot \in Bots
      /\ pc[p] = "join" => call[p].op \in {"disable", "delete", "cascade", "hook"}
      /\ pc[p] = "next" \/ call[p].todo # {} => call[p].op = "cascade"
      /\ call[p].op = "cascade" =>
              \A b \in Bots : b \in call[p].todo \/ b = call[p].bot => cred[CredOf[b]] = "gone"
  BY DEF IndInv, TypeOK, CallsWellFormed
<1>1. TypeOK'
  BY <1>0, CallerTypeStep DEF IndInv
<1>2. TickInv' /\ CallsWellFormed'
  <2>1. CASE DisableJoins(p)
    <3>1. DisableArgs(p, call[p].bot, call[p].op, call[p].todo)
      BY <1>0, <2>1, CallArgs DEF DisableJoins, IndInv
    <3>2. DisableLocks(p, call[p].bot, call[p].op, call[p].todo) /\ UNCHANGED <<tasks, cxl>>
      BY <2>1 DEF DisableJoins
    <3>3. TickInv'
      BY <1>0, <3>1, <3>2, DisableLocksInv DEF DisableArgs
    <3>4. CallsWellFormed'
      BY <1>0, <3>1, <3>2, DisableCalls DEF DisableLocks, DisableArgs, Call
    <3> QED BY <3>3, <3>4
  <2>2. CASE DisableGranted(p)
    <3>0. call[p].bot \in Bots
      BY <1>0, <2>2 DEF DisableGranted, Granted
    <3>1. DisableArgs(p, call[p].bot, call[p].op, call[p].todo)
      BY <2>2, <3>0, CallArgs DEF DisableGranted, IndInv
    <3>2. /\ holder[call[p].bot][lref[p]] = p /\ HandOver(call[p].bot, lref[p])
          /\ DisableBody(p, call[p].bot, call[p].op, call[p].todo)
          /\ UNCHANGED <<tasks, cxl>>
      BY <2>2 DEF DisableGranted, Granted
    <3>3. TickInv'
      BY <1>0, <3>0, <3>1, <3>2, DisableBodyInv
    <3>4. CallsWellFormed'
      BY <1>0, <3>1, <3>2, DisableCalls DEF DisableArgs, Call
    <3> QED BY <3>3, <3>4
  <2>3. CASE p \in Callers /\ CascadeNext(p)
    <3>1. PICK b \in call[p].todo : DisableStarts(p, b, "cascade", call[p].todo \ {b})
      BY <2>3 DEF CascadeNext
    <3>2. DisableArgs(p, b, "cascade", call[p].todo \ {b})
      BY <1>0 DEF DisableArgs, Call
    <3>3. \A b2 \in (call[p].todo \ {b}) \cup {b} : cred[CredOf[b2]] = "gone"
      <4>1. call[p].op = "cascade"
        BY <1>0, <2>3 DEF CascadeNext
      <4> QED BY <1>0, <4>1 DEF Call
    <3>4. TickInv'
      BY <3>1, <3>2, <3>3, DisableStartsInv
    <3>5. CallsWellFormed'
      BY <3>1, <3>2, <3>3, DisableCalls
    <3> QED BY <3>4, <3>5
  <2>4. CASE p \in Callers /\ \E b \in Bots : EnableGranted(p, b)
    BY <2>4, EnableInv, EnableCalls
  <2>5. CASE p \in Bots /\ HookStarts(p)
    <3>1. DisableStarts(p, p, "hook", {}) /\ DisableArgs(p, p, "hook", {})
      BY <2>5 DEF HookStarts, DisableArgs, Disablers
    <3> QED BY <3>1, DisableStartsInv, DisableCalls
  <2> QED BY <2>1, <2>2, <2>3, <2>4, <2>5 DEF CallerStep
<1> QED BY <1>1, <1>2 DEF IndInv, TickInv

-----------------------------------------------------------------------------
(* Routes without an await.                                                *)

(* A step that moves no loop and no lock, and keeps every running bot on.  *)
LEMMA RouteInv ==
    ASSUME IndInv,
           \A t \in Loops : pc'[t] = pc[t],
           \A k \in Creds : cred[k] = "gone" => cred'[k] = "gone",
           \A b \in Bots :
              /\ rec[b].stored = "deleted" => rec'[b].stored = "deleted"
              /\ On(b) /\ Running(b) => On(b)'
              /\ rec'[b].stored = "never" => rec[b].stored = "never",
           UNCHANGED <<mode, tasks, cxl, own, snap, gen, holder, lref>>
    PROVE  TickInv'
<1> USE DEF IndInv
<1>1. \A t \in Loops : (InTick(t)' <=> InTick(t)) /\ (Alive(t)' <=> Alive(t))
  BY DEF InTick, Alive
<1>2. OneLoopPerBot' /\ DownMeansDead' /\ TicksHoldLocks' /\ SnapsAreOn'
  BY <1>1 DEF OneLoopPerBot, Effective, Alive, DownMeansDead, TicksHoldLocks, SnapsAreOn
<1>3. TicksAreCurrent'
  <2> SUFFICES ASSUME NEW t \in Loops, InTick(t), ~cxl[t]
               PROVE  /\ lref[t] = gen[own[t]]
                      /\ rec'[own[t]].stored = "stored" /\ rec'[own[t]].enabled
    BY <1>1 DEF TicksAreCurrent, On, Stored
  <2>1. own[t] \in Bots /\ lref[t] = gen[own[t]] /\ On(own[t]) /\ tasks[own[t]] = t /\ t # NoOne
    BY ConstantsAssumption
       DEF TicksAreCurrent, TypeOK, OneLoopPerBot, Effective, Alive, InTick, Procs
  <2>2. Running(own[t])
    BY <2>1 DEF Running, Alive, InTick
  <2> QED BY <2>1, <2>2 DEF On, Stored
<1>4. AbandonedLocks'
  <2>1. \A b \in Bots : CredOf[b] \in Creds
    BY ConstantsAssumption
  <2> QED BY <1>1, <2>1 DEF AbandonedLocks
<1>5. HeldLocks'
  BY DEF HeldLocks
<1> QED BY <1>2, <1>3, <1>4, <1>5 DEF TickInv

LEMMA CreateInv ==
    ASSUME IndInv, NEW b \in Bots, CreateBot(b)
    PROVE  TickInv' /\ CallsWellFormed'
<1> USE DEF IndInv
<1>1. rec[b].stored = "never" /\ rec'[b].stored = "stored"
  BY DEF CreateBot, TypeOK, Record
<1>2. \A b2 \in Bots \ {b} : rec'[b2] = rec[b2]
  BY DEF CreateBot, TypeOK
<1>3. UNCHANGED <<cred, mode, tasks, pc, cxl, own, snap, call, gen, lockVars>>
  BY DEF CreateBot
<1>4. \A b2 \in Bots :
              /\ rec[b2].stored = "deleted" => rec'[b2].stored = "deleted"
              /\ On(b2) /\ Running(b2) => On(b2)'
              /\ rec'[b2].stored = "never" => rec[b2].stored = "never"
  BY <1>1, <1>2 DEF On, Stored
<1>5. TickInv'
  BY <1>3, <1>4, RouteInv DEF lockVars
<1>6. CallsWellFormed'
  BY <1>3 DEF CallsWellFormed
<1> QED BY <1>5, <1>6

LEMMA StoredUpdate ==
    ASSUME NEW r \in Record, NEW s
    PROVE  [r EXCEPT !.stored = s].enabled = r.enabled
<1>1. [r EXCEPT !.stored = s] = [stored |-> s, enabled |-> r.enabled, live |-> r.live, edit |-> r.edit]
  BY DEF Record
<1> QED BY <1>1

LEMMA EditUpdate ==
    ASSUME NEW r \in Record, NEW l, NEW e
    PROVE  /\ [r EXCEPT !.live = l, !.edit = e].stored = r.stored
           /\ [r EXCEPT !.live = l, !.edit = e].enabled = r.enabled
<1> DEFINE r1 == [r EXCEPT !.live = l]
<1>1. r1 = [stored |-> r.stored, enabled |-> r.enabled, live |-> l, edit |-> r.edit]
  BY DEF Record
<1>2. [r1 EXCEPT !.edit = e] = [stored |-> r1.stored, enabled |-> r1.enabled, live |-> r1.live, edit |-> e]
  <2> HIDE DEF r1
  <2> QED BY <1>1
<1> QED BY <1>1, <1>2

LEMMA UpdateInv ==
    ASSUME IndInv, NEW b \in Bots, NEW live \in BOOLEAN, UpdateBot(b, live)
    PROVE  TickInv' /\ CallsWellFormed'
<1> USE DEF IndInv
<1>1. /\ rec'[b].stored = rec[b].stored /\ rec'[b].enabled = rec[b].enabled
      /\ \A b2 \in Bots \ {b} : rec'[b2] = rec[b2]
  <2>1. rec[b] \in Record
    BY DEF TypeOK
  <2>2. rec' = [rec EXCEPT ![b] = [rec[b] EXCEPT !.live = live, !.edit = rec[b].edit + 1]]
    BY DEF UpdateBot, TypeOK
  <2> QED BY <2>1, <2>2, EditUpdate DEF TypeOK
<1>2. UNCHANGED <<cred, mode, tasks, pc, cxl, own, snap, call, gen, lockVars>>
  BY DEF UpdateBot
<1>3. TickInv'
  BY <1>1, <1>2, RouteInv DEF lockVars, On, Stored
<1>4. CallsWellFormed'
  BY <1>2 DEF CallsWellFormed
<1> QED BY <1>3, <1>4

(* The hook clears the flag of bots that have no loop.                     *)
LEMMA HookRecords ==
    ASSUME IndInv, NEW k \in Creds,
           rec' = [b \in Bots |-> IF b \in Users(k) \ {b2 \in Users(k) : Running(b2)}
                                  THEN [rec[b] EXCEPT !.enabled = FALSE] ELSE rec[b]]
    PROVE  \A b \in Bots : /\ rec'[b].stored = rec[b].stored
                           /\ On(b) /\ Running(b) => rec'[b] = rec[b]
                           /\ rec'[b].enabled => rec[b].enabled
<1> SUFFICES ASSUME NEW b \in Bots
             PROVE  /\ rec'[b].stored = rec[b].stored
                    /\ On(b) /\ Running(b) => rec'[b] = rec[b]
                    /\ rec'[b].enabled => rec[b].enabled
  OBVIOUS
<1>1. [rec[b] EXCEPT !.enabled = FALSE] =
          [stored |-> rec[b].stored, enabled |-> FALSE, live |-> rec[b].live, edit |-> rec[b].edit]
  BY EnabledUpdate DEF IndInv, TypeOK
<1> QED BY <1>1 DEF Users

LEMMA PatchInv ==
    ASSUME IndInv, NEW k \in Creds, NEW perm \in {"trade", "read"}, PatchCredential(k, perm)
    PROVE  TickInv' /\ CallsWellFormed'
<1> USE DEF IndInv
<1>1. /\ cred[k] # "gone" /\ cred' = [cred EXCEPT ![k] = perm]
      /\ UNCHANGED <<mode, tasks, cxl, own, snap, call, gen, holder, lref>>
  BY DEF PatchCredential, lockVars
<1>2. \A k2 \in Creds : cred[k2] = "gone" => cred'[k2] = "gone"
  BY <1>1 DEF TypeOK
<1>3. \A p \in Procs : pc'[p] = pc[p] \/ (p \in Bots /\ pc'[p] = "sched")
  BY DEF PatchCredential, HookFires, Users
<1>4. \A t \in Loops : pc'[t] = pc[t]
  BY <1>3, ConstantsAssumption DEF Procs
<1>5. TickInv'
  BY <1>1, <1>2, <1>4, HookRecords, RouteInv DEF PatchCredential, HookFires, On, Stored
<1>6. CallsWellFormed'
  <2>1. \A b \in Bots : CredOf[b] \in Creds
    BY ConstantsAssumption
  <2> QED BY <1>1, <1>2, <1>3, <2>1 DEF CallsWellFormed, Disablers, Procs
<1> QED BY <1>5, <1>6

LEMMA DeleteCredentialInv ==
    ASSUME IndInv, NEW k \in Creds, NEW c \in Callers, DeleteCredential(c, k)
    PROVE  TickInv' /\ CallsWellFormed'
<1> USE DEF IndInv
<1>0. c \in Disablers /\ c \in Procs /\ pc[c] = "idle" /\ NoOne \notin Bots
  BY ConstantsAssumption DEF Disablers, Procs, DeleteCredential, IdleCaller
<1>1. /\ cred' = [cred EXCEPT ![k] = "gone"]
      /\ UNCHANGED <<mode, tasks, cxl, own, snap, gen, holder, lref>>
  BY DEF DeleteCredential, lockVars
<1>2. \A k2 \in Creds : cred[k2] = "gone" => cred'[k2] = "gone"
  BY <1>1 DEF TypeOK
<1>3. \A p \in Procs : \/ pc'[p] = pc[p]
                       \/ p \in Bots /\ pc'[p] = "sched"
                       \/ p = c /\ pc'[p] = "next" /\ Users(k) # {}
  BY DEF DeleteCredential, Users
<1>4. \A t \in Loops : pc'[t] = pc[t]
  BY <1>3, ConstantsAssumption DEF Procs
<1>5. TickInv'
  BY <1>1, <1>2, <1>4, HookRecords, RouteInv DEF DeleteCredential, On, Stored
<1>6. \A q \in Disablers \ {c} : call'[q] = call[q]
  BY DEF DeleteCredential, TypeOK
<1>7. \/ call'[c] = NoCall /\ Users(k) = {}
      \/ call'[c] = CallOn(NoOne, "cascade", NoOne, Users(k))
  BY <1>0 DEF DeleteCredential, TypeOK
<1>8. \A b \in Users(k) : cred'[CredOf[b]] = "gone"
  BY <1>1, ConstantsAssumption DEF Users, TypeOK
<1>9. CallsWellFormed'
  <2>1. \A q \in Disablers \ {c} :
        /\ pc'[q] \in {"join", "wait"} => call'[q].bot \in Bots
        /\ pc'[q] = "join" => call'[q].op \in {"disable", "delete", "cascade", "hook"}
        /\ pc'[q] = "next" \/ call'[q].todo # {} => call'[q].op = "cascade"
        /\ call'[q].op = "cascade" =>
              \A b2 \in Bots : b2 \in call'[q].todo \/ b2 = call'[q].bot => cred'[CredOf[b2]] = "gone"
    <3>1. \A b \in Bots : CredOf[b] \in Creds
      BY ConstantsAssumption
    <3> QED BY <1>2, <1>3, <1>6, <3>1 DEF CallsWellFormed, Disablers, Procs
  <2>2. pc'[c] \notin {"join", "wait"} /\ (Users(k) = {} => pc'[c] # "next")
    BY <1>0, <1>3
  <2>3. /\ pc'[c] = "next" \/ call'[c].todo # {} => call'[c].op = "cascade"
        /\ call'[c].op = "cascade" =>
              \A b2 \in Bots : b2 \in call'[c].todo \/ b2 = call'[c].bot => cred'[CredOf[b2]] = "gone"
    BY <1>0, <1>7, <1>8, <2>2 DEF NoCall, CallOn
  <2> QED BY <2>1, <2>2, <2>3 DEF CallsWellFormed
<1> QED BY <1>5, <1>9

-----------------------------------------------------------------------------
(* The process comes up, shuts down or dies.                               *)

LEMMA StartupInv ==
    ASSUME IndInv, Startup
    PROVE  TickInv' /\ CallsWellFormed'
<1> USE DEF IndInv
<1> DEFINE revoked == {b \in Bots : On(b) /\ rec[b].live /\ cred[CredOf[b]] = "read"}
           start == {b \in Bots : On(b)} \ revoked
<1>0. start \subseteq Bots /\ Loops \subseteq Procs
  BY DEF Procs
<1>1. PICK f \in [start -> Loops] :
        /\ \A b1, b2 \in start : f[b1] = f[b2] => b1 = b2
        /\ tasks' = [b \in Bots |-> IF b \in start THEN f[b] ELSE NoOne]
        /\ own' = [t \in Loops |-> IF \E b \in start : f[b] = t
                                   THEN CHOOSE b \in start : f[b] = t ELSE own[t]]
        /\ pc' = [p \in Procs |-> IF \E b \in start : f[b] = p THEN "ready" ELSE pc[p]]
  BY DEF Startup
<1>2. rec' = [b \in Bots |-> IF b \in revoked THEN [rec[b] EXCEPT !.enabled = FALSE] ELSE rec[b]]
  BY DEF Startup
<1>3. UNCHANGED <<cred, cxl, snap, call, gen, lockVars>> /\ mode = "down" /\ mode' = "up"
  BY DEF Startup
<1>4. \A b \in Bots : rec'[b].stored = rec[b].stored
  <2> SUFFICES ASSUME NEW b \in Bots PROVE rec'[b].stored = rec[b].stored
    OBVIOUS
  <2>1. [rec[b] EXCEPT !.enabled = FALSE] =
          [stored |-> rec[b].stored, enabled |-> FALSE, live |-> rec[b].live, edit |-> rec[b].edit]
    BY EnabledUpdate DEF TypeOK
  <2> HIDE DEF revoked
  <2> QED BY <1>2, <2>1
<1> HIDE DEF start, revoked
<1>5. \A t \in Loops : pc[t] = "none"
  BY <1>3 DEF DownMeansDead, Alive
<1>6. \A t \in Loops : ~InTick(t)' /\ ~InTick(t)
  BY <1>0, <1>1, <1>5 DEF InTick
<1>7. OneLoopPerBot'
  <2> SUFFICES ASSUME NEW t \in Loops, pc'[t] # "none" PROVE tasks'[own'[t]] = t
    BY DEF OneLoopPerBot, Effective, Alive
  <2>1. PICK b \in start : f[b] = t
    BY <1>0, <1>1, <1>5
  <2>2. own'[t] = CHOOSE b2 \in start : f[b2] = t
    BY <1>1, <2>1
  <2>3. own'[t] \in start /\ f[own'[t]] = t
    BY <2>1, <2>2
  <2> QED BY <1>0, <1>1, <2>3
<1>8. TicksHoldLocks' /\ TicksAreCurrent' /\ SnapsAreOn' /\ DownMeansDead'
  BY <1>3, <1>6 DEF TicksHoldLocks, TicksAreCurrent, SnapsAreOn, DownMeansDead
<1>9. AbandonedLocks' /\ HeldLocks'
  BY <1>3, <1>4, <1>6 DEF AbandonedLocks, HeldLocks, lockVars
<1>10. \A p \in Disablers : pc'[p] = pc[p]
  BY <1>1, ConstantsAssumption DEF Disablers, Procs
<1>11. CallsWellFormed'
  BY <1>3, <1>10 DEF CallsWellFormed
<1> QED BY <1>7, <1>8, <1>9, <1>11 DEF TickInv

LEMMA ProcessInv ==
    ASSUME IndInv, Close \/ Closed \/ Exit
    PROVE  TickInv' /\ CallsWellFormed'
<1> USE DEF IndInv
<1>1. CASE Close
  <2>1. /\ UNCHANGED <<rec, cred, tasks, pc, own, snap, call, gen, holder, lref>>
        /\ mode' = "closing" /\ \A t \in Loops : cxl[t] => cxl'[t]
    BY <1>1 DEF Close, lockVars
  <2>2. \A t \in Loops : InTick(t)' <=> InTick(t)
    BY <2>1 DEF InTick
  <2>3. OneLoopPerBot' /\ DownMeansDead' /\ TicksHoldLocks' /\ SnapsAreOn'
    BY <2>1, <2>2 DEF OneLoopPerBot, Effective, Alive, DownMeansDead, TicksHoldLocks, SnapsAreOn
  <2>4. TicksAreCurrent'
    BY <2>1, <2>2 DEF TicksAreCurrent, On, Stored
  <2>5. AbandonedLocks' /\ HeldLocks' /\ CallsWellFormed'
    BY <2>1, <2>2 DEF AbandonedLocks, HeldLocks, CallsWellFormed
  <2> QED BY <2>3, <2>4, <2>5 DEF TickInv
<1>2. CASE Closed
  <2>1. /\ UNCHANGED <<rec, cred, pc, cxl, own, snap, call, gen, holder, lref>>
        /\ mode' = "closed" /\ \A b \in Bots : ~Running(b)
    BY <1>2 DEF Closed, lockVars
  <2>2. \A t \in Loops : InTick(t)' <=> InTick(t)
    BY <2>1 DEF InTick
  <2>3. \A t \in Loops : ~Effective(t)
    <3> SUFFICES ASSUME NEW t \in Loops, Effective(t) PROVE FALSE
      OBVIOUS
    <3>1. tasks[own[t]] = t /\ own[t] \in Bots /\ t # NoOne /\ Alive(t)
      BY ConstantsAssumption DEF OneLoopPerBot, Effective, TypeOK, Procs
    <3> QED BY <2>1, <3>1 DEF Running
  <2>4. OneLoopPerBot' /\ DownMeansDead' /\ TicksHoldLocks' /\ SnapsAreOn'
    BY <2>1, <2>2, <2>3 DEF OneLoopPerBot, Effective, Alive, DownMeansDead, TicksHoldLocks, SnapsAreOn
  <2>5. TicksAreCurrent'
    BY <2>1, <2>2 DEF TicksAreCurrent, On, Stored
  <2>6. AbandonedLocks' /\ HeldLocks' /\ CallsWellFormed'
    BY <2>1, <2>2 DEF AbandonedLocks, HeldLocks, CallsWellFormed
  <2> QED BY <2>4, <2>5, <2>6 DEF TickInv
<1>3. CASE Exit
  <2>1. /\ \A t \in Loops : pc'[t] = "none"
        /\ \A b \in Bots, g \in Gens : holder'[b][g] = NoOne
        /\ \A p \in Disablers : pc'[p] = "idle" /\ call'[p] = NoCall
    BY <1>3, ConstantsAssumption DEF Exit, Procs, Disablers
  <2>2. CallsWellFormed'
    BY <2>1, ConstantsAssumption DEF CallsWellFormed, NoCall, CallOn
  <2> QED
    BY <2>1, <2>2 DEF TickInv, OneLoopPerBot, Effective, Alive, InTick, TicksHoldLocks,
       TicksAreCurrent, SnapsAreOn, AbandonedLocks, HeldLocks, DownMeansDead
<1> QED BY <1>1, <1>2, <1>3

LEMMA LoopCalls ==
    ASSUME IndInv, NEW t \in Loops, LoopStep(t)
    PROVE  CallsWellFormed'
<1>1. UNCHANGED <<call, cred>> /\ \A q \in Procs \ {t} : pc'[q] = pc[q]
  BY DEF IndInv, TypeOK, LoopStep, LoopExits, LoopDies, TickStarts, TickQueues, TickGranted,
     FetchFails, TickContinues, OrderSent, TickEnds, CancelDelivered, EnterTick, LeaveTick
<1>2. \A p \in Disablers : pc'[p] = pc[p]
  BY <1>1, ConstantsAssumption DEF Procs, Disablers
<1> QED BY <1>1, <1>2 DEF IndInv, CallsWellFormed

-----------------------------------------------------------------------------
(* The theorems.                                                           *)

LEMMA StutterInv == ASSUME IndInv, UNCHANGED vars PROVE IndInv'
  BY DEF vars, lockVars, IndInv, TypeOK, OneLoopPerBot, Effective, Alive, InTick, TicksHoldLocks,
     TicksAreCurrent, SnapsAreOn, AbandonedLocks, HeldLocks, DownMeansDead, CallsWellFormed, On, Stored

(* Every action keeps the inductive invariant.                             *)
LEMMA NextInv == ASSUME IndInv, [Next]_vars PROVE IndInv'
<1>1. ASSUME NEW t \in Loops, LoopStep(t) PROVE IndInv'
  BY <1>1, LoopTypeStep, LoopInvStep, LoopCalls DEF IndInv, TickInv
<1>2. ASSUME NEW p \in Disablers, CallerStep(p) PROVE IndInv'
  BY <1>2, CallerInvStep
<1>3. ASSUME NEW c \in Callers, NEW b \in Bots, Request(c, b) PROVE IndInv'
  BY <1>3, RequestInvStep
<1>4. CASE \/ \E b \in Bots : CreateBot(b) \/ \E live \in BOOLEAN : UpdateBot(b, live)
           \/ \E k \in Creds : \/ \E perm \in {"trade", "read"} : PatchCredential(k, perm)
                               \/ \E c \in Callers : DeleteCredential(c, k)
  <2>1. TypeOK'
    BY <1>4, RouteTypeStep DEF IndInv
  <2>2. TickInv' /\ CallsWellFormed'
    BY <1>4, CreateInv, UpdateInv, PatchInv, DeleteCredentialInv
  <2> QED BY <2>1, <2>2 DEF IndInv, TickInv
<1>5. CASE Startup \/ Close \/ Closed \/ Exit
  BY <1>5, ProcessTypeStep, StartupInv, ProcessInv DEF IndInv, TickInv
<1>6. CASE UNCHANGED vars
  BY <1>6, StutterInv
<1> QED BY <1>1, <1>2, <1>3, <1>4, <1>5, <1>6 DEF Next

(* Every reachable state satisfies the inductive invariant.                *)
THEOREM InvariantHolds == Spec => []IndInv
  BY InitInv, NextInv, PTL DEF Spec

(* The variables keep their types.                                         *)
THEOREM TypeCorrect == Spec => []TypeOK
<1>1. IndInv => TypeOK
  BY DEF IndInv
<1> QED BY <1>1, InvariantHolds, PTL

(* Every loop that is not cancelled is the one BotRunner._tasks knows: no  *)
(* schedule of enables, disables, hooks and restarts makes a second one.   *)
THEOREM AtMostOneLoop == Spec => []OneLoopPerBot
<1>1. IndInv => OneLoopPerBot
  BY DEF IndInv
<1> QED BY <1>1, InvariantHolds, PTL

(* While a bot is off, no tick of it is between its read and its write.    *)
THEOREM OffMeansQuiet == Spec => []QuietWhenOff
<1>1. IndInv => QuietWhenOff
  BY DEF IndInv, TicksAreCurrent, QuietWhenOff
<1> QED BY <1>1, InvariantHolds, PTL

-----------------------------------------------------------------------------
(* What a step does to a record that is deleted, or switched off.          *)
KeepsDeletions == \A b \in Bots : rec[b].stored = "deleted" => rec'[b].stored = "deleted"
SwitchesNothingOn == \A b \in Bots : rec'[b].enabled => rec[b].enabled

LEMMA LoopRecords ==
    ASSUME IndInv, NEW t \in Loops, LoopStep(t)
    PROVE  KeepsDeletions /\ SwitchesNothingOn
<1> USE DEF IndInv
<1>1. CASE FetchFails(t)
  <2>1. own[t] \in Bots /\ rec[own[t]].stored = "stored" /\ rec[own[t]].enabled
    BY <1>1 DEF FetchFails, LoopAt, TicksAreCurrent, InTick, On, Stored, TypeOK
  <2>2. \A b \in Bots \ {own[t]} : rec'[b] = rec[b]
    BY <1>1, <2>1 DEF FetchFails, TypeOK
  <2> QED BY <2>1, <2>2 DEF KeepsDeletions, SwitchesNothingOn
<1>2. CASE ~FetchFails(t)
  <2>1. UNCHANGED rec
    BY <1>2 DEF LoopStep, LoopExits, LoopDies, TickStarts, TickQueues, TickGranted,
       TickContinues, OrderSent, TickEnds, CancelDelivered
  <2> QED BY <2>1 DEF KeepsDeletions, SwitchesNothingOn
<1> QED BY <1>1, <1>2

LEMMA DisableRecords ==
    ASSUME IndInv, NEW p, NEW b \in Bots, NEW op, NEW todo,
           DisableStarts(p, b, op, todo) \/ DisableLocks(p, b, op, todo) \/ DisableBody(p, b, op, todo)
    PROVE  KeepsDeletions /\ SwitchesNothingOn
<1>1. rec' \in {rec, [rec EXCEPT ![b] = Disabled(b, op)]}
  BY DEF IndInv, TypeOK, DisableStarts, DisableLocks, DisableBody, DisableQueues
<1>2. /\ Disabled(b, op).enabled = FALSE
      /\ rec[b].stored = "deleted" => Disabled(b, op).stored = "deleted"
  BY DEF Disabled, Stored
<1>3. rec \in [Bots -> Record]
  BY DEF IndInv, TypeOK
<1>4. CASE rec' = rec
  BY <1>4 DEF KeepsDeletions, SwitchesNothingOn
<1>5. CASE rec' = [rec EXCEPT ![b] = Disabled(b, op)]
  BY <1>2, <1>3, <1>5 DEF KeepsDeletions, SwitchesNothingOn
<1> QED BY <1>1, <1>4, <1>5

LEMMA CallerRecords ==
    ASSUME IndInv, NEW p \in Disablers, CallerStep(p),
           ~ \E b \in Bots : p \in Callers /\ EnableGranted(p, b)
    PROVE  KeepsDeletions /\ SwitchesNothingOn
<1>1. call[p] \in Call /\ (pc[p] \in {"join", "wait"} => call[p].bot \in Bots)
  BY DEF IndInv, TypeOK, CallsWellFormed
<1>2. CASE DisableJoins(p) \/ DisableGranted(p)
  BY <1>1, <1>2, DisableRecords DEF DisableJoins, DisableGranted, Granted
<1>3. CASE CascadeNext(p)
  BY <1>1, <1>3, DisableRecords DEF CascadeNext, Call
<1>4. CASE p \in Bots /\ HookStarts(p)
  BY <1>4, DisableRecords DEF HookStarts
<1> QED BY <1>2, <1>3, <1>4 DEF CallerStep

LEMMA EnableRecords ==
    ASSUME IndInv, NEW c \in Callers, NEW b \in Bots, EnableNow(c, b) \/ EnableGranted(c, b)
    PROVE  KeepsDeletions /\ \A b2 \in Bots \ {b} : rec'[b2] = rec[b2]
<1>1. rec' \in {rec, [rec EXCEPT ![b] = [rec[b] EXCEPT !.enabled = TRUE]]}
  BY DEF IndInv, TypeOK, EnableNow, EnableGranted, EnableBody
<1>2. [rec[b] EXCEPT !.enabled = TRUE] =
          [stored |-> rec[b].stored, enabled |-> TRUE, live |-> rec[b].live, edit |-> rec[b].edit]
  BY EnabledUpdate DEF IndInv, TypeOK
<1> QED BY <1>1, <1>2 DEF IndInv, TypeOK, KeepsDeletions

LEMMA RouteRecords ==
    ASSUME IndInv,
           \/ \E b \in Bots : CreateBot(b) \/ \E live \in BOOLEAN : UpdateBot(b, live)
           \/ \E k \in Creds : \/ \E perm \in {"trade", "read"} : PatchCredential(k, perm)
                               \/ \E c \in Callers : DeleteCredential(c, k)
    PROVE  KeepsDeletions /\ SwitchesNothingOn
<1> USE DEF IndInv
<1>1. ASSUME NEW b \in Bots, CreateBot(b) PROVE KeepsDeletions /\ SwitchesNothingOn
  <2>1. rec[b].stored = "never" /\ rec' = [rec EXCEPT ![b] = [rec[b] EXCEPT !.stored = "stored"]]
    BY <1>1 DEF CreateBot, TypeOK
  <2>2. [rec[b] EXCEPT !.stored = "stored"].enabled = rec[b].enabled
    BY StoredUpdate DEF TypeOK
  <2> QED BY <2>1, <2>2 DEF TypeOK, KeepsDeletions, SwitchesNothingOn
<1>2. ASSUME NEW b \in Bots, NEW live \in BOOLEAN, UpdateBot(b, live)
      PROVE  KeepsDeletions /\ SwitchesNothingOn
  <2>1. rec' = [rec EXCEPT ![b] = [rec[b] EXCEPT !.live = live, !.edit = rec[b].edit + 1]]
    BY <1>2 DEF UpdateBot, TypeOK
  <2>2. rec[b] \in Record
    BY DEF TypeOK
  <2> QED BY <2>1, <2>2, EditUpdate DEF TypeOK, KeepsDeletions, SwitchesNothingOn
<1>3. ASSUME NEW k \in Creds, (\E perm \in {"trade", "read"} : PatchCredential(k, perm))
                              \/ (\E c \in Callers : DeleteCredential(c, k))
      PROVE  KeepsDeletions /\ SwitchesNothingOn
  BY <1>3, HookRecords DEF PatchCredential, HookFires, DeleteCredential, KeepsDeletions, SwitchesNothingOn
<1> QED BY <1>1, <1>2, <1>3

LEMMA ProcessRecords ==
    ASSUME IndInv, Startup \/ Close \/ Closed \/ Exit
    PROVE  KeepsDeletions /\ SwitchesNothingOn
<1>1. CASE Startup
  <2>1. \A b \in Bots : [rec[b] EXCEPT !.enabled = FALSE] =
          [stored |-> rec[b].stored, enabled |-> FALSE, live |-> rec[b].live, edit |-> rec[b].edit]
    BY EnabledUpdate DEF IndInv, TypeOK
  <2>2. \A b \in Bots : rec'[b] \in {rec[b], [rec[b] EXCEPT !.enabled = FALSE]}
    BY <1>1 DEF Startup
  <2> QED BY <2>1, <2>2 DEF KeepsDeletions, SwitchesNothingOn
<1>2. CASE Close \/ Closed \/ Exit
  BY <1>2 DEF Close, Closed, Exit, KeepsDeletions, SwitchesNothingOn
<1> QED BY <1>1, <1>2

LEMMA NextRecords ==
    ASSUME IndInv, Next
    PROVE  /\ KeepsDeletions
           /\ \A b \in Bots : ~rec[b].enabled /\ rec'[b].enabled =>
                 \E c \in Callers : EnableNow(c, b) \/ EnableGranted(c, b)
<1>1. ASSUME NEW c \in Callers, NEW b \in Bots, EnableNow(c, b) \/ EnableGranted(c, b)
      PROVE  /\ KeepsDeletions
             /\ \A b2 \in Bots : ~rec[b2].enabled /\ rec'[b2].enabled => b2 = b
  BY <1>1, EnableRecords
<1>2. ASSUME NEW p \in Disablers, CallerStep(p), ~\E b \in Bots : p \in Callers /\ EnableGranted(p, b)
      PROVE  KeepsDeletions /\ SwitchesNothingOn
  BY <1>2, CallerRecords
<1>3. ASSUME NEW c \in Callers, NEW b \in Bots, Request(c, b), ~EnableNow(c, b)
      PROVE  KeepsDeletions /\ SwitchesNothingOn
  <2>1. CASE EnableQueues(c, b)
    BY <2>1 DEF EnableQueues, KeepsDeletions, SwitchesNothingOn
  <2>2. CASE DisableBot(c, b) \/ DeleteBot(c, b)
    BY <2>2, DisableRecords DEF DisableBot, DeleteBot
  <2> QED BY <1>3, <2>1, <2>2 DEF Request
<1>4. \/ KeepsDeletions /\ SwitchesNothingOn
      \/ \E c \in Callers, b \in Bots : EnableNow(c, b) \/ EnableGranted(c, b)
  BY <1>2, <1>3, LoopRecords, RouteRecords, ProcessRecords DEF Next
<1>5. CASE KeepsDeletions /\ SwitchesNothingOn
  BY <1>5 DEF SwitchesNothingOn
<1>6. CASE \E c \in Callers, b \in Bots : EnableNow(c, b) \/ EnableGranted(c, b)
  BY <1>1, <1>6
<1> QED BY <1>4, <1>5, <1>6

(* No tick, PUT, hook or restart writes a deleted bot's file back.         *)
THEOREM DeletionIsFinal == Spec => DeletedStaysDeleted
<1>1. IndInv /\ [Next]_vars =>
        [\A b \in Bots : rec[b].stored = "deleted" => rec'[b].stored = "deleted"]_vars
  BY NextRecords DEF KeepsDeletions
<1> QED BY <1>1, InvariantHolds, PTL DEF Spec, DeletedStaysDeleted

(* Only an enable request switches a bot on: no tick's stale save, hook,   *)
(* PUT or restart brings back a flag that a disable cleared.               *)
THEOREM OnlyRequestsEnable == Spec => OnlyEnableEnables
<1>1. IndInv /\ [Next]_vars =>
        [\A b \in Bots : ~rec[b].enabled /\ rec'[b].enabled =>
            \E c \in Callers : EnableNow(c, b) \/ EnableGranted(c, b)]_vars
  BY NextRecords
<1> QED BY <1>1, InvariantHolds, PTL DEF Spec, OnlyEnableEnables

-----------------------------------------------------------------------------
(* An enabled bot is never without a loop, unless a read of its record may *)
(* fail (LoopDies).  The strengthening says which loop _tasks points at:   *)
(* one of that bot, not cancelled while the sidecar is up; and that only a *)
(* call on a bot's way through disable names the bot.                      *)

TasksAreOwned == \A b \in Bots : tasks[b] # NoOne => own[tasks[b]] = b
CancelsAreDue == \A t \in Loops : cxl[t] => Alive(t)
UpMeansUncancelled == mode = "up" => \A b \in Bots : tasks[b] # NoOne => ~cxl[tasks[b]]
CallsAreAbout == \A p \in Disablers : pc[p] \in {"idle", "sched", "next"} => call[p].bot = NoOne
NeverStoredIsOff == \A b \in Bots : rec[b].stored = "never" => ~rec[b].enabled

Watched(b) == Running(b) \/ \E p \in Disablers : call[p].bot = b /\ call[p].op # "enable"

StuckInv ==
    /\ TasksAreOwned /\ CancelsAreDue /\ UpMeansUncancelled
    /\ CallsAreAbout /\ NeverStoredIsOff /\ NeverStuck

LEMMA InitStuck == Init => StuckInv
<1> SUFFICES ASSUME Init PROVE StuckInv
  OBVIOUS
<1>1. \A b \in Bots : rec[b].enabled = FALSE
  <2>1. Blank \in Record /\ Blank.enabled = FALSE
    BY BlankType DEF Blank
  <2>2. [Blank EXCEPT !.stored = "stored"].enabled = FALSE
    BY <2>1, StoredUpdate
  <2> QED BY <2>1, <2>2 DEF Init
<1>2. mode = "down" /\ (\A b \in Bots : tasks[b] = NoOne) /\ \A t \in Loops : cxl[t] = FALSE
  BY DEF Init
<1>3. \A p \in Disablers : call[p].bot = NoOne
  BY DEF Init, NoCall, CallOn
<1> QED
  BY <1>1, <1>2, <1>3 DEF StuckInv, TasksAreOwned, CancelsAreDue, UpMeansUncancelled,
     CallsAreAbout, NeverStoredIsOff, NeverStuck

(* What a loop does to itself: it ends only when cancelled or off.         *)
LEMMA LoopEnds ==
    ASSUME ReadFaults = FALSE, IndInv, NEW t \in Loops, LoopStep(t)
    PROVE  /\ UNCHANGED <<tasks, own, call, mode>>
           /\ \A q \in Procs \ {t} : pc'[q] = pc[q]
           /\ \A u \in Loops \ {t} : cxl'[u] = cxl[u]
           /\ Alive(t)
           /\ \/ pc'[t] # "none" /\ cxl'[t] = cxl[t]
              \/ pc'[t] = "none" /\ cxl'[t] = FALSE /\ (cxl[t] \/ ~On(own[t]))
<1> USE DEF IndInv
<1>0. t \in Procs
  BY DEF Procs
<1>1. UNCHANGED <<tasks, own, call, mode>> /\ \A q \in Procs \ {t} : pc'[q] = pc[q]
  BY DEF TypeOK, LoopStep, LoopExits, LoopDies, TickStarts, TickQueues, TickGranted,
     FetchFails, TickContinues, OrderSent, TickEnds, CancelDelivered, EnterTick, LeaveTick
<1>2. CASE LoopExits(t)
  BY <1>0, <1>1, <1>2 DEF LoopExits, LoopAt, Alive, TypeOK
<1>3. CASE CancelDelivered(t)
  BY <1>0, <1>1, <1>3 DEF CancelDelivered, Alive, TypeOK
<1>4. CASE \/ TickStarts(t) \/ TickQueues(t) \/ TickGranted(t) \/ FetchFails(t)
           \/ TickContinues(t) \/ OrderSent(t) \/ TickEnds(t)
  BY <1>0, <1>1, <1>4
     DEF TickStarts, TickQueues, TickGranted, Granted, FetchFails, TickContinues, OrderSent,
         TickEnds, EnterTick, LeaveTick, LoopAt, InTick, Alive, TypeOK
<1>5. ~LoopDies(t)
  BY DEF LoopDies
<1> QED
  BY <1>2, <1>3, <1>4, <1>5 DEF LoopStep

LEMMA LoopOnOff ==
    ASSUME IndInv, NEW t \in Loops, LoopStep(t), NEW b \in Bots
    PROVE  rec'[b] = rec[b] \/ (On(b) /\ rec'[b].stored = "stored")
<1> USE DEF IndInv
<1>1. CASE FetchFails(t)
  <2>1. own[t] \in Bots /\ On(own[t]) /\ snap[t].stored = "stored"
    BY <1>1 DEF FetchFails, LoopAt, TicksAreCurrent, SnapsAreOn, InTick, TypeOK
  <2> QED BY <1>1, <2>1 DEF FetchFails, TypeOK
<1>2. CASE ~FetchFails(t)
  BY <1>2 DEF LoopStep, LoopExits, LoopDies, TickStarts, TickQueues, TickGranted,
       TickContinues, OrderSent, TickEnds, CancelDelivered
<1> QED BY <1>1, <1>2

LEMMA LoopStuck ==
    ASSUME ReadFaults = FALSE, IndInv, StuckInv, NEW t \in Loops, LoopStep(t)
    PROVE  StuckInv'
<1> USE DEF StuckInv
<1>1. /\ UNCHANGED <<tasks, own, call, mode>>
      /\ \A q \in Procs \ {t} : pc'[q] = pc[q]
      /\ \A u \in Loops \ {t} : cxl'[u] = cxl[u]
      /\ \/ pc'[t] # "none" /\ cxl'[t] = cxl[t]
         \/ pc'[t] = "none" /\ cxl'[t] = FALSE /\ (cxl[t] \/ ~On(own[t]))
  BY LoopEnds
<1>2. \A b \in Bots : tasks[b] # NoOne => tasks[b] \in Loops
  BY DEF IndInv, TypeOK
<1>3. TasksAreOwned'
  BY <1>1 DEF TasksAreOwned
<1>4. CancelsAreDue'
  BY <1>1 DEF CancelsAreDue, Alive, Procs
<1>5. UpMeansUncancelled'
  BY <1>1, <1>2 DEF UpMeansUncancelled
<1>6. CallsAreAbout'
  <2>1. \A p \in Disablers : pc'[p] = pc[p]
    BY <1>1, ConstantsAssumption DEF Procs, Disablers
  <2> QED BY <1>1, <2>1 DEF CallsAreAbout
<1>7. NeverStoredIsOff'
  BY LoopOnOff DEF NeverStoredIsOff
<1>8. NeverStuck'
  <2> SUFFICES ASSUME mode' = "up", NEW b \in Bots, On(b)' PROVE Watched(b)'
    BY DEF NeverStuck, Watched
  <2>1. On(b) /\ mode = "up"
    BY <1>1, LoopOnOff DEF On, Stored
  <2>2. Watched(b)
    BY <2>1 DEF NeverStuck, Watched
  <2>3. CASE \E p \in Disablers : call[p].bot = b /\ call[p].op # "enable"
    BY <1>1, <2>3 DEF Watched
  <2>4. CASE Running(b)
    <3>1. /\ tasks[b] # NoOne /\ tasks[b] \in Loops /\ tasks[b] \in Procs
          /\ pc[tasks[b]] # "none" /\ ~cxl[tasks[b]] /\ own[tasks[b]] = b
      BY <1>2, <2>1, <2>4 DEF Running, Alive, UpMeansUncancelled, TasksAreOwned, Procs
    <3>2. pc'[tasks[b]] # "none"
      BY <1>1, <2>1, <3>1
    <3> QED BY <1>1, <3>1, <3>2 DEF Watched, Running, Alive
  <2> QED BY <2>2, <2>3, <2>4 DEF Watched
<1> QED BY <1>3, <1>4, <1>5, <1>6, <1>7, <1>8

(* A disabler names its bot until the record says off.                     *)
LEMMA DisablerStuck ==
    ASSUME IndInv, StuckInv, NEW p, NEW b, NEW op, NEW todo, DisableArgs(p, b, op, todo),
           call[p].bot \in {NoOne, b}, UNCHANGED <<mode, own>>,
           \A q \in Procs \ {p} : pc'[q] = pc[q],
           \A q \in Disablers \ {p} : call'[q] = call[q],
           \/ pc'[p] \in {"idle", "next"} /\ call'[p].bot = NoOne /\ rec'[b].enabled = FALSE
           \/ pc'[p] \in {"wait", "join"} /\ call'[p].bot = b /\ call'[p].op = op /\ rec'[b] = rec[b],
           \A b2 \in Bots \ {b} : rec'[b2] = rec[b2] /\ tasks'[b2] = tasks[b2],
           \/ tasks'[b] = tasks[b] /\ UNCHANGED cxl
           \/ tasks'[b] = NoOne /\ UNCHANGED cxl
           \/ tasks'[b] = NoOne /\ Running(b) /\ cxl' = [cxl EXCEPT ![tasks[b]] = TRUE]
    PROVE  StuckInv'
<1> USE DEF StuckInv
<1>0. p \in Disablers /\ p \in Procs /\ b \in Bots /\ NoOne \notin Bots /\ op # "enable"
  BY ConstantsAssumption DEF DisableArgs, Disablers, Procs
<1>1. \A t \in Loops : pc'[t] = pc[t]
  BY <1>0, ConstantsAssumption DEF Procs, Disablers
<1>2. \A b2 \in Bots : tasks[b2] # NoOne => tasks[b2] \in Loops
  BY DEF IndInv, TypeOK
<1>3. \A b2 \in Bots : tasks'[b2] # NoOne =>
        tasks'[b2] = tasks[b2] /\ cxl'[tasks[b2]] = cxl[tasks[b2]]
  <2> SUFFICES ASSUME NEW b2 \in Bots, tasks'[b2] # NoOne
               PROVE  tasks'[b2] = tasks[b2] /\ cxl'[tasks[b2]] = cxl[tasks[b2]]
    OBVIOUS
  <2>1. tasks'[b2] = tasks[b2]
    OBVIOUS
  <2>2. CASE UNCHANGED cxl
    BY <2>1, <2>2
  <2>3. CASE tasks'[b] = NoOne /\ Running(b) /\ cxl' = [cxl EXCEPT ![tasks[b]] = TRUE]
    <3>1. tasks[b] # tasks[b2]
      BY <1>0, <2>1, <2>3 DEF Running, TasksAreOwned
    <3> QED BY <1>2, <2>1, <2>3, <3>1 DEF IndInv, TypeOK
  <2> QED BY <2>2, <2>3
<1>4. TasksAreOwned' /\ UpMeansUncancelled'
  BY <1>3 DEF TasksAreOwned, UpMeansUncancelled
<1>5. CancelsAreDue'
  BY <1>1, <1>2, ZenonT(30) DEF CancelsAreDue, Alive, Running, IndInv, TypeOK
<1>6. CallsAreAbout'
  BY <1>0 DEF CallsAreAbout, Procs, Disablers
<1>7. NeverStoredIsOff'
  BY DEF NeverStoredIsOff
<1>8. NeverStuck'
  <2> SUFFICES ASSUME mode' = "up", NEW b2 \in Bots, On(b2)' PROVE Watched(b2)'
    BY DEF NeverStuck, Watched
  <2>1. CASE b2 = b
    BY <1>0, <2>1 DEF Watched, On
  <2>2. CASE b2 # b
    <3>1. Watched(b2) /\ tasks'[b2] = tasks[b2]
      BY <2>2 DEF NeverStuck, Watched, On, Stored
    <3>2. CASE Running(b2)
      BY <1>1, <1>2, <3>1, <3>2 DEF Watched, Running, Alive
    <3>3. CASE \E q \in Disablers : call[q].bot = b2 /\ call[q].op # "enable"
      <4>1. PICK q \in Disablers : call[q].bot = b2 /\ call[q].op # "enable"
        BY <3>3
      <4>2. q # p
        BY <1>0, <2>2, <4>1
      <4> QED BY <4>1, <4>2 DEF Watched
    <3> QED BY <3>1, <3>2, <3>3 DEF Watched
  <2> QED BY <2>1, <2>2
<1> QED BY <1>4, <1>5, <1>6, <1>7, <1>8

(* The two ends of disable, and its start.                                 *)
LEMMA DisableLocksFacts ==
    ASSUME IndInv, NEW p, NEW b, NEW op, NEW todo, DisableArgs(p, b, op, todo),
           DisableBody(p, b, op, todo) \/ DisableQueues(p, b, op, todo)
    PROVE  /\ UNCHANGED <<mode, own>>
           /\ \A q \in Procs \ {p} : pc'[q] = pc[q]
           /\ \A q \in Disablers \ {p} : call'[q] = call[q]
           /\ \/ pc'[p] \in {"idle", "next"} /\ call'[p].bot = NoOne /\ rec'[b].enabled = FALSE
              \/ pc'[p] \in {"wait", "join"} /\ call'[p].bot = b /\ call'[p].op = op /\ rec'[b] = rec[b]
           /\ \A b2 \in Bots \ {b} : rec'[b2] = rec[b2]
<1>0. p \in Disablers /\ p \in Procs /\ b \in Bots
  BY DEF DisableArgs, Disablers, Procs
<1>1. CASE DisableBody(p, b, op, todo)
  <2>1. Disabled(b, op).enabled = FALSE /\ NoCall.bot = NoOne /\ CallOn(NoOne, op, NoOne, todo).bot = NoOne
    BY DEF Disabled, NoCall, CallOn
  <2> QED BY <1>0, <1>1, <2>1 DEF DisableBody, IndInv, TypeOK
<1>2. CASE DisableQueues(p, b, op, todo)
  <2>1. CallOn(b, op, NoOne, todo).bot = b /\ CallOn(b, op, NoOne, todo).op = op
    BY DEF CallOn
  <2> QED BY <1>0, <1>2, <2>1 DEF DisableQueues, IndInv, TypeOK
<1> QED BY <1>1, <1>2

LEMMA DisableStartsStuck ==
    ASSUME IndInv, StuckInv, NEW p, NEW b, NEW op, NEW todo, DisableArgs(p, b, op, todo),
           call[p].bot \in {NoOne, b}, DisableStarts(p, b, op, todo)
    PROVE  StuckInv'
<1>0. p \in Disablers /\ p \in Procs /\ b \in Bots
  BY DEF DisableArgs, Disablers, Procs
<1>1. tasks'[b] = NoOne /\ \A b2 \in Bots \ {b} : tasks'[b2] = tasks[b2]
  BY <1>0 DEF DisableStarts, IndInv, TypeOK
<1>2. CASE Running(b)
  <2>1. /\ cxl' = [cxl EXCEPT ![tasks[b]] = TRUE] /\ UNCHANGED <<rec, mode, own>>
        /\ pc' = [pc EXCEPT ![p] = "join"]
        /\ call' = [call EXCEPT ![p] = CallOn(b, op, tasks[b], todo)]
    BY <1>2 DEF DisableStarts
  <2>2. CallOn(b, op, tasks[b], todo).bot = b /\ CallOn(b, op, tasks[b], todo).op = op
    BY DEF CallOn
  <2>3. /\ pc'[p] = "join" /\ call'[p].bot = b /\ call'[p].op = op
        /\ \A q \in Procs \ {p} : pc'[q] = pc[q]
        /\ \A q \in Disablers \ {p} : call'[q] = call[q]
    BY <1>0, <2>1, <2>2 DEF IndInv, TypeOK
  <2> QED BY <1>1, <1>2, <2>1, <2>3, DisablerStuck
<1>3. CASE ~Running(b)
  <2>1. UNCHANGED cxl /\ (DisableBody(p, b, op, todo) \/ DisableQueues(p, b, op, todo))
    BY <1>3 DEF DisableStarts, DisableLocks
  <2> QED BY <1>1, <2>1, DisableLocksFacts, DisablerStuck
<1> QED BY <1>2, <1>3

(* An enable leaves its bot with a loop, its own or the one that runs.     *)
LEMMA EnableStuck ==
    ASSUME IndInv, StuckInv, NEW c \in Callers, NEW b \in Bots,
           EnableNow(c, b) \/ EnableQueues(c, b) \/ EnableGranted(c, b)
    PROVE  StuckInv'
<1> USE DEF StuckInv
<1>0. c \in Disablers /\ c \in Procs /\ c \notin Loops /\ NoOne \notin Bots
      /\ \A b2 \in Bots : tasks[b2] # NoOne => tasks[b2] \in Loops
  BY ConstantsAssumption DEF Disablers, Procs, IndInv, TypeOK
<1>1. /\ mode' = mode
      /\ \A q \in Disablers \ {c} : pc'[q] = pc[q] /\ call'[q] = call[q]
  <2>1. \A q \in Disablers \ {c} : q \in Procs /\ q \notin Loops
    BY ConstantsAssumption DEF Disablers, Procs
  <2> QED
    BY <1>0, <2>1 DEF EnableNow, EnableQueues, EnableGranted, EnableBody, Spawn, IndInv, TypeOK
<1>2. /\ call[c].bot = NoOne \/ call[c].op = "enable"
      /\ pc'[c] = "wait" \/ (pc'[c] = "idle" /\ call'[c].bot = NoOne)
  <2>1. CASE EnableNow(c, b)
    BY <1>0, <2>1 DEF EnableNow, IdleCaller, EnableBody, Spawn, CallsAreAbout, IndInv, TypeOK
  <2>2. CASE EnableQueues(c, b)
    BY <1>0, <2>2 DEF EnableQueues, IdleCaller, CallsAreAbout, IndInv, TypeOK
  <2>3. CASE EnableGranted(c, b)
    <3>1. call[c].op = "enable" /\ call' = [call EXCEPT ![c] = NoCall] /\ EnableBody(c, b)
      BY <2>3 DEF EnableGranted
    <3>2. call'[c].bot = NoOne
      BY <1>0, <3>1 DEF NoCall, CallOn, IndInv, TypeOK
    <3> QED BY <1>0, <3>1, <3>2 DEF EnableBody, Spawn, IndInv, TypeOK
  <2> QED BY <2>1, <2>2, <2>3
<1>3. \A b2 \in Bots : /\ rec'[b2].stored = rec[b2].stored
                       /\ rec'[b2].enabled => rec[b2].enabled \/ (b2 = b /\ Stored(b))
  <2>1. rec' = rec \/ (Stored(b) /\ rec' = [rec EXCEPT ![b] = [rec[b] EXCEPT !.enabled = TRUE]])
    BY DEF EnableNow, EnableQueues, EnableGranted, EnableBody, IndInv, TypeOK
  <2>2. [rec[b] EXCEPT !.enabled = TRUE] =
          [stored |-> rec[b].stored, enabled |-> TRUE, live |-> rec[b].live, edit |-> rec[b].edit]
    BY EnabledUpdate DEF IndInv, TypeOK
  <2> QED BY <2>1, <2>2 DEF IndInv, TypeOK
<1>4. \/ \E t \in Loops :
            /\ ~Running(b) /\ Unused(t, b)
            /\ tasks' = [tasks EXCEPT ![b] = t] /\ own' = [own EXCEPT ![t] = b]
            /\ cxl' = [cxl EXCEPT ![t] = FALSE]
            /\ pc' = [pc EXCEPT ![t] = "ready", ![c] = "idle"]
      \/ /\ UNCHANGED <<tasks, own, cxl>> /\ \A t \in Loops : pc'[t] = pc[t]
         /\ rec' = rec \/ mode # "up" \/ Running(b)
  <2>1. CASE EnableQueues(c, b)
    BY <1>0, <2>1 DEF EnableQueues, IndInv, TypeOK, Procs
  <2>2. CASE EnableBody(c, b)
    BY <1>0, <2>2 DEF EnableBody, Spawn, IndInv, TypeOK, Procs
  <2> QED BY <2>1, <2>2 DEF EnableNow, EnableGranted
<1>5. CallsAreAbout' /\ NeverStoredIsOff'
  BY <1>1, <1>2, <1>3 DEF CallsAreAbout, NeverStoredIsOff, Stored
<1>6. ASSUME NEW b2 \in Bots, Watched(b2), Running(b2) => Running(b2)' PROVE Watched(b2)'
  <2>1. CASE Running(b2)
    BY <1>6, <2>1 DEF Watched
  <2>2. CASE \E q \in Disablers : call[q].bot = b2 /\ call[q].op # "enable"
    <3>1. PICK q \in Disablers : call[q].bot = b2 /\ call[q].op # "enable"
      BY <2>2
    <3>2. q # c
      BY <1>0, <1>2, <3>1
    <3> QED BY <1>1, <3>1, <3>2 DEF Watched
  <2> QED BY <1>6, <2>1, <2>2 DEF Watched
<1>7. CASE /\ UNCHANGED <<tasks, own, cxl>> /\ \A t \in Loops : pc'[t] = pc[t]
           /\ rec' = rec \/ mode # "up" \/ Running(b)
  <2>1. TasksAreOwned' /\ UpMeansUncancelled' /\ CancelsAreDue'
    BY <1>1, <1>7 DEF TasksAreOwned, UpMeansUncancelled, CancelsAreDue, Alive
  <2>2. \A b2 \in Bots : Running(b2)' <=> Running(b2)
    BY <1>0, <1>7 DEF Running, Alive
  <2>3. NeverStuck'
    <3> SUFFICES ASSUME mode' = "up", NEW b2 \in Bots, On(b2)' PROVE Watched(b2)'
      BY DEF NeverStuck, Watched
    <3>1. Watched(b2)
      BY <1>1, <1>3, <1>7 DEF NeverStuck, Watched, On, Stored
    <3> QED BY <1>6, <2>2, <3>1
  <2> QED BY <1>5, <2>1, <2>3
<1>8. ASSUME NEW t \in Loops, ~Running(b), Unused(t, b),
             tasks' = [tasks EXCEPT ![b] = t], own' = [own EXCEPT ![t] = b],
             cxl' = [cxl EXCEPT ![t] = FALSE],
             pc' = [pc EXCEPT ![t] = "ready", ![c] = "idle"]
      PROVE  StuckInv'
  <2>0. t # NoOne /\ t # c /\ t \in Procs /\ ~Alive(t)
        /\ \A b2 \in Bots \ {b} : tasks[b2] # t /\ tasks'[b2] = tasks[b2]
    BY <1>0, <1>8, ConstantsAssumption DEF Unused, Procs, IndInv, TypeOK
  <2>1. /\ tasks'[b] = t /\ own'[t] = b /\ cxl'[t] = FALSE /\ pc'[t] = "ready"
        /\ \A u \in Loops \ {t} : own'[u] = own[u] /\ cxl'[u] = cxl[u] /\ pc'[u] = pc[u]
    BY <1>0, <1>8, <2>0 DEF IndInv, TypeOK, Procs
  <2>2. TasksAreOwned'
    BY <1>0, <2>0, <2>1 DEF TasksAreOwned
  <2>3. UpMeansUncancelled'
    BY <1>0, <1>1, <2>0, <2>1 DEF UpMeansUncancelled
  <2>4. CancelsAreDue'
    BY <2>1 DEF CancelsAreDue, Alive
  <2>5. Running(b)'
    BY <2>0, <2>1 DEF Running, Alive
  <2>6. \A b2 \in Bots \ {b} : Running(b2) => Running(b2)'
    BY <1>0, <2>0, <2>1 DEF Running, Alive
  <2>7. NeverStuck'
    <3> SUFFICES ASSUME mode' = "up", NEW b2 \in Bots, On(b2)' PROVE Watched(b2)'
      BY DEF NeverStuck, Watched
    <3>1. CASE b2 = b
      BY <2>5, <3>1 DEF Watched
    <3>2. CASE b2 # b
      <4>1. Watched(b2)
        BY <1>1, <1>3, <3>2 DEF NeverStuck, Watched, On, Stored
      <4> QED BY <1>6, <2>6, <3>2, <4>1
    <3> QED BY <3>1, <3>2
  <2> QED BY <1>5, <2>2, <2>3, <2>4, <2>7
<1> QED BY <1>4, <1>7, <1>8

LEMMA CallerStuck ==
    ASSUME IndInv, StuckInv, NEW p \in Disablers, CallerStep(p)
    PROVE  StuckInv'
<1>0. /\ call[p] \in Call
      /\ pc[p] \in {"join", "wait"} => call[p].bot \in Bots
      /\ pc[p] = "join" => call[p].op \in {"disable", "delete", "cascade", "hook"}
      /\ pc[p] \in {"idle", "sched", "next"} => call[p].bot = NoOne
  BY DEF IndInv, TypeOK, CallsWellFormed, StuckInv, CallsAreAbout
<1>1. CASE DisableJoins(p) \/ DisableGranted(p)
  <2>1. DisableArgs(p, call[p].bot, call[p].op, call[p].todo)
    BY <1>0, <1>1, CallArgs DEF DisableJoins, DisableGranted, Granted, IndInv
  <2>2. /\ UNCHANGED <<tasks, cxl>>
        /\ \/ DisableBody(p, call[p].bot, call[p].op, call[p].todo)
           \/ DisableQueues(p, call[p].bot, call[p].op, call[p].todo)
    BY <1>1 DEF DisableJoins, DisableLocks, DisableGranted
  <2> DEFINE b == call[p].bot
             op == call[p].op
             todo == call[p].todo
  <2>3. DisableArgs(p, b, op, todo) /\ (DisableBody(p, b, op, todo) \/ DisableQueues(p, b, op, todo))
        /\ call[p].bot \in {NoOne, b}
    BY <2>1, <2>2
  <2> HIDE DEF b, op, todo
  <2> QED BY <2>2, <2>3, DisableLocksFacts, DisablerStuck
<1>2. CASE CascadeNext(p)
  <2>1. PICK b \in call[p].todo : DisableStarts(p, b, "cascade", call[p].todo \ {b})
    BY <1>2 DEF CascadeNext
  <2>2. DisableArgs(p, b, "cascade", call[p].todo \ {b})
    BY <1>0 DEF DisableArgs, Call
  <2> QED BY <1>0, <1>2, <2>1, <2>2, DisableStartsStuck DEF CascadeNext
<1>3. CASE p \in Callers /\ \E b \in Bots : EnableGranted(p, b)
  BY <1>3, EnableStuck
<1>4. CASE p \in Bots /\ HookStarts(p)
  BY <1>0, <1>4, DisableStartsStuck DEF HookStarts, DisableArgs, Disablers
<1> QED BY <1>1, <1>2, <1>3, <1>4 DEF CallerStep

LEMMA RequestStuck ==
    ASSUME IndInv, StuckInv, NEW c \in Callers, NEW b \in Bots, Request(c, b)
    PROVE  StuckInv'
<1>1. CASE EnableNow(c, b) \/ EnableQueues(c, b)
  BY <1>1, EnableStuck
<1>2. CASE DisableBot(c, b) \/ DeleteBot(c, b)
  <2>1. PICK op \in {"disable", "delete"} : DisableStarts(c, b, op, {})
    BY <1>2 DEF DisableBot, DeleteBot
  <2>2. DisableArgs(c, b, op, {}) /\ c \in Disablers
    BY <2>1 DEF DisableArgs, Disablers
  <2>3. call[c].bot = NoOne
    BY <1>2, <2>2 DEF DisableBot, DeleteBot, IdleCaller, StuckInv, CallsAreAbout
  <2> QED BY <2>1, <2>2, <2>3, DisableStartsStuck
<1> QED BY <1>1, <1>2 DEF Request

(* A step that moves no loop, switches nothing on and calls for nobody.    *)
LEMMA QuietStuck ==
    ASSUME IndInv, StuckInv,
           UNCHANGED <<mode, tasks, cxl, own>>,
           \A t \in Loops : pc'[t] = pc[t],
           \A p \in Disablers :
              \/ call'[p] = call[p] /\ (pc'[p] = pc[p] \/ call[p].bot = NoOne)
              \/ call[p].bot = NoOne /\ call'[p].bot = NoOne,
           \A b \in Bots : /\ rec'[b].enabled => rec[b].enabled
                           /\ rec'[b].stored = rec[b].stored \/ ~rec[b].enabled
    PROVE  StuckInv'
<1> USE DEF StuckInv
<1>0. NoOne \notin Bots /\ \A b \in Bots : tasks[b] # NoOne => tasks[b] \in Loops
  BY ConstantsAssumption DEF Procs, IndInv, TypeOK
<1>1. TasksAreOwned' /\ UpMeansUncancelled' /\ CancelsAreDue'
  BY DEF TasksAreOwned, UpMeansUncancelled, CancelsAreDue, Alive
<1>2. CallsAreAbout' /\ NeverStoredIsOff'
  BY DEF CallsAreAbout, NeverStoredIsOff
<1>3. NeverStuck'
  <2> SUFFICES ASSUME mode' = "up", NEW b \in Bots, On(b)' PROVE Watched(b)'
    BY DEF NeverStuck, Watched
  <2>1. Watched(b)
    BY DEF NeverStuck, Watched, On, Stored
  <2> QED BY <1>0, <2>1 DEF Watched, Running, Alive
<1> QED BY <1>1, <1>2, <1>3

LEMMA RouteStuck ==
    ASSUME IndInv, StuckInv,
           \/ \E b \in Bots : CreateBot(b) \/ \E live \in BOOLEAN : UpdateBot(b, live)
           \/ \E k \in Creds : \/ \E perm \in {"trade", "read"} : PatchCredential(k, perm)
                               \/ \E c \in Callers : DeleteCredential(c, k)
    PROVE  StuckInv'
<1>1. ASSUME NEW b \in Bots, CreateBot(b) PROVE StuckInv'
  <2>1. rec[b].stored = "never" /\ rec' = [rec EXCEPT ![b] = [rec[b] EXCEPT !.stored = "stored"]]
    BY <1>1 DEF CreateBot, IndInv, TypeOK
  <2>2. rec'[b].enabled = rec[b].enabled /\ ~rec[b].enabled
    BY <2>1, StoredUpdate DEF IndInv, TypeOK, StuckInv, NeverStoredIsOff
  <2>3. \A b2 \in Bots \ {b} : rec'[b2] = rec[b2]
    BY <2>1 DEF IndInv, TypeOK
  <2> QED BY <1>1, <2>2, <2>3, QuietStuck DEF CreateBot
<1>2. ASSUME NEW b \in Bots, NEW live \in BOOLEAN, UpdateBot(b, live) PROVE StuckInv'
  <2>1. rec' = [rec EXCEPT ![b] = [rec[b] EXCEPT !.live = live, !.edit = rec[b].edit + 1]]
    BY <1>2 DEF UpdateBot, IndInv, TypeOK
  <2>2. \A b2 \in Bots : rec'[b2].enabled = rec[b2].enabled /\ rec'[b2].stored = rec[b2].stored
    BY <2>1, EditUpdate DEF IndInv, TypeOK
  <2> QED BY <1>2, <2>2, QuietStuck DEF UpdateBot
<1>3. ASSUME NEW k \in Creds, NEW perm \in {"trade", "read"}, PatchCredential(k, perm)
      PROVE  StuckInv'
  <2>1. /\ UNCHANGED <<mode, tasks, cxl, own, call>>
        /\ \A p \in Procs : pc'[p] = pc[p] \/ (p \in Bots /\ pc[p] = "idle")
    BY <1>3 DEF PatchCredential, HookFires, Users
  <2>2. \A b \in Bots : rec'[b].stored = rec[b].stored /\ (rec'[b].enabled => rec[b].enabled)
    BY <1>3, HookRecords DEF PatchCredential, HookFires
  <2>3. \A t \in Loops : pc'[t] = pc[t]
    BY <2>1, ConstantsAssumption DEF Procs
  <2>4. \A p \in Disablers : pc'[p] = pc[p] \/ call[p].bot = NoOne
    BY <2>1 DEF StuckInv, CallsAreAbout, Disablers, Procs
  <2> QED BY <2>1, <2>2, <2>3, <2>4, QuietStuck
<1>4. ASSUME NEW k \in Creds, NEW c \in Callers, DeleteCredential(c, k) PROVE StuckInv'
  <2>1. /\ UNCHANGED <<mode, tasks, cxl, own>> /\ pc[c] = "idle" /\ c \in Disablers /\ c \in Procs
        /\ \A p \in Procs : pc'[p] = pc[p] \/ (p \in Disablers /\ pc[p] = "idle")
    BY <1>4 DEF DeleteCredential, IdleCaller, Users, Disablers, Procs
  <2>2. \A b \in Bots : rec'[b].stored = rec[b].stored /\ (rec'[b].enabled => rec[b].enabled)
    BY <1>4, HookRecords DEF DeleteCredential
  <2>3. \A t \in Loops : pc'[t] = pc[t]
    BY <2>1, ConstantsAssumption DEF Procs, Disablers
  <2>4. \A p \in Disablers : pc'[p] = pc[p] \/ call[p].bot = NoOne
    BY <2>1 DEF StuckInv, CallsAreAbout, Disablers, Procs
  <2>5. /\ \A p \in Disablers \ {c} : call'[p] = call[p]
        /\ call[c].bot = NoOne /\ call'[c].bot = NoOne
    BY <1>4, <2>1 DEF DeleteCredential, NoCall, CallOn, IndInv, TypeOK, StuckInv, CallsAreAbout
  <2> QED BY <2>1, <2>2, <2>3, <2>4, <2>5, QuietStuck
<1> QED BY <1>1, <1>2, <1>3, <1>4

(* start_all leaves every bot that is on with a loop of its own.           *)
LEMMA StartupStuck == ASSUME IndInv, StuckInv, Startup PROVE StuckInv'
<1> USE DEF StuckInv
<1> DEFINE revoked == {b \in Bots : On(b) /\ rec[b].live /\ cred[CredOf[b]] = "read"}
           start == {b \in Bots : On(b)} \ revoked
<1>1. PICK f \in [start -> Loops] :
        /\ \A b1, b2 \in start : f[b1] = f[b2] => b1 = b2
        /\ tasks' = [b \in Bots |-> IF b \in start THEN f[b] ELSE NoOne]
        /\ own' = [t \in Loops |-> IF \E b \in start : f[b] = t
                                   THEN CHOOSE b \in start : f[b] = t ELSE own[t]]
        /\ pc' = [p \in Procs |-> IF \E b \in start : f[b] = p THEN "ready" ELSE pc[p]]
  BY DEF Startup
<1>2. /\ rec' = [b \in Bots |-> IF b \in revoked THEN [rec[b] EXCEPT !.enabled = FALSE] ELSE rec[b]]
      /\ mode = "down" /\ UNCHANGED <<cxl, call>>
  BY DEF Startup
<1>3. \A b \in Bots : /\ rec'[b].stored = rec[b].stored
                      /\ rec'[b].enabled => rec[b].enabled /\ b \notin revoked
  <2> SUFFICES ASSUME NEW b \in Bots
               PROVE  /\ rec'[b].stored = rec[b].stored
                      /\ rec'[b].enabled => rec[b].enabled /\ b \notin revoked
    OBVIOUS
  <2>1. [rec[b] EXCEPT !.enabled = FALSE] =
          [stored |-> rec[b].stored, enabled |-> FALSE, live |-> rec[b].live, edit |-> rec[b].edit]
    BY EnabledUpdate DEF IndInv, TypeOK
  <2> HIDE DEF revoked
  <2> QED BY <1>2, <2>1
<1>4. \A b \in Bots : On(b)' => b \in start
  BY <1>3 DEF On, Stored
<1>5. start \subseteq Bots /\ Loops \subseteq Procs /\ NoOne \notin Procs
  BY ConstantsAssumption DEF Procs
<1> HIDE DEF start, revoked
<1>6. \A t \in Loops : cxl[t] = FALSE
  BY <1>2 DEF CancelsAreDue, IndInv, DownMeansDead, TypeOK
<1>7. \A b \in start : f[b] \in Loops /\ own'[f[b]] = b /\ tasks'[b] = f[b] /\ pc'[f[b]] = "ready"
  <2> SUFFICES ASSUME NEW b \in start
               PROVE  f[b] \in Loops /\ own'[f[b]] = b /\ tasks'[b] = f[b] /\ pc'[f[b]] = "ready"
    OBVIOUS
  <2>1. f[b] \in Loops /\ f[b] \in Procs /\ b \in Bots
    BY <1>1, <1>5
  <2>2. own'[f[b]] = CHOOSE b2 \in start : f[b2] = f[b]
    BY <1>1, <2>1
  <2>3. own'[f[b]] \in start /\ f[own'[f[b]]] = f[b]
    BY <2>2
  <2> QED BY <1>1, <2>1, <2>3
<1>8. \A b \in Bots : tasks'[b] # NoOne => b \in start
  BY <1>1
<1>9. TasksAreOwned' /\ UpMeansUncancelled' /\ CancelsAreDue'
  BY <1>2, <1>6, <1>7, <1>8 DEF TasksAreOwned, UpMeansUncancelled, CancelsAreDue
<1>10. CallsAreAbout'
  <2>1. \A p \in Disablers : pc'[p] = pc[p]
    BY <1>1, ConstantsAssumption DEF Disablers, Procs
  <2> QED BY <1>2, <2>1 DEF CallsAreAbout
<1>11. NeverStoredIsOff'
  BY <1>3 DEF NeverStoredIsOff
<1>12. NeverStuck'
  BY <1>4, <1>5, <1>7 DEF NeverStuck, Running, Alive
<1> QED BY <1>9, <1>10, <1>11, <1>12

LEMMA ProcessStuck == ASSUME IndInv, StuckInv, Close \/ Closed \/ Exit PROVE StuckInv'
<1> USE DEF StuckInv
<1>1. mode' # "up"
  BY DEF Close, Closed, Exit
<1>2. CASE Close
  <2>1. UNCHANGED <<rec, tasks, pc, own, call>> /\ \A t \in Loops : cxl'[t] => cxl[t] \/ Alive(t)
    BY <1>2 DEF Close
  <2> QED
    BY <1>1, <2>1 DEF TasksAreOwned, UpMeansUncancelled, CancelsAreDue, CallsAreAbout,
       NeverStoredIsOff, NeverStuck, Alive
<1>3. CASE Closed
  <2>1. UNCHANGED <<rec, pc, cxl, call>> /\ \A b \in Bots : tasks'[b] = NoOne
    BY <1>3 DEF Closed
  <2> QED
    BY <1>1, <2>1 DEF TasksAreOwned, UpMeansUncancelled, CancelsAreDue, CallsAreAbout,
       NeverStoredIsOff, NeverStuck, Alive
<1>4. CASE Exit
  <2>1. /\ UNCHANGED rec /\ (\A b \in Bots : tasks'[b] = NoOne)
        /\ (\A t \in Loops : cxl'[t] = FALSE) /\ \A p \in Disablers : call'[p] = NoCall
    BY <1>4 DEF Exit
  <2>2. NoCall.bot = NoOne
    BY DEF NoCall, CallOn
  <2> QED
    BY <1>1, <2>1, <2>2 DEF TasksAreOwned, UpMeansUncancelled, CancelsAreDue, CallsAreAbout,
       NeverStoredIsOff, NeverStuck
<1> QED BY <1>2, <1>3, <1>4

LEMMA NextStuck ==
    ASSUME ReadFaults = FALSE, IndInv, StuckInv, [Next]_vars
    PROVE  StuckInv'
<1>1. CASE \E t \in Loops : LoopStep(t)
  BY <1>1, LoopStuck
<1>2. CASE \E p \in Disablers : CallerStep(p)
  BY <1>2, CallerStuck
<1>3. CASE \E c \in Callers, b \in Bots : Request(c, b)
  BY <1>3, RequestStuck
<1>4. CASE \/ \E b \in Bots : CreateBot(b) \/ \E live \in BOOLEAN : UpdateBot(b, live)
           \/ \E k \in Creds : \/ \E perm \in {"trade", "read"} : PatchCredential(k, perm)
                               \/ \E c \in Callers : DeleteCredential(c, k)
  BY <1>4, RouteStuck
<1>5. CASE Startup \/ Close \/ Closed \/ Exit
  BY <1>5, StartupStuck, ProcessStuck
<1>6. CASE UNCHANGED vars
  BY <1>6, QuietStuck DEF vars
<1> QED BY <1>1, <1>2, <1>3, <1>4, <1>5, <1>6 DEF Next

(* While the sidecar is up, a bot whose record says enabled has a loop, or *)
(* a disable on its way to the record: no schedule of enables, disables,   *)
(* deletions, hooks and restarts leaves it on and forgotten.  A read that  *)
(* fails for another reason than UnknownBot does (LoopDies), hence the     *)
(* hypothesis.                                                             *)
THEOREM NoBotIsForgotten ==
    ASSUME ReadFaults = FALSE
    PROVE  Spec => []NeverStuck
<1>1. Init => IndInv /\ StuckInv
  BY InitInv, InitStuck
<1>2. IndInv /\ StuckInv /\ [Next]_vars => IndInv' /\ StuckInv'
  BY NextInv, NextStuck
<1>3. StuckInv => NeverStuck
  BY DEF StuckInv
<1> QED BY <1>1, <1>2, <1>3, PTL DEF Spec

=============================================================================
