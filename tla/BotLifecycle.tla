---------------------------- MODULE BotLifecycle ----------------------------
(***************************************************************************)
(* The scheduler half of the bot runner: which asyncio task runs a bot,    *)
(* who may touch its stored record and when.  What a tick computes (orders, *)
(* the signal log, funding) is the subject of BotTrading; here a tick is    *)
(* the sequence lock -> read -> await ... -> write -> unlock.              *)
(*                                                                         *)
(* Actors, each advancing by one action between two awaits:                *)
(*   - the loop tasks of _run_loop / tick               (Loops)            *)
(*   - the coroutines of the HTTP routes                (Callers)          *)
(*   - the disable task that the credential hook creates for a bot; it is  *)
(*     identified by the bot itself                     (Bots)             *)
(***************************************************************************)
EXTENDS Naturals, Sequences, FiniteSets

CONSTANTS
    Bots,        \* bot ids
    Creds,       \* credential ids
    CredOf,      \* the credential each bot references
    Loops,       \* identities of loop tasks
    Callers,     \* concurrent HTTP requests
    NoOne,       \* "no task" / "lock not held"
    MaxEdits,    \* bound: PUTs per bot
    MaxGen,      \* bound: lock objects abandoned per bot while in use
    ReadFaults   \* may a read of a record fail for a reason other than UnknownBot

Procs == Loops \cup Callers \cup Bots
Disablers == Callers \cup Bots
Gens == 0 .. MaxGen

ASSUME ConstantsAssumption ==
    /\ Bots # {} /\ CredOf \in [Bots -> Creds]
    /\ NoOne \notin Procs
    /\ Loops \cap Callers = {} /\ Loops \cap Bots = {} /\ Callers \cap Bots = {}
    /\ MaxEdits \in Nat /\ MaxGen \in Nat /\ ReadFaults \in BOOLEAN

VARIABLES
    rec,      \* the bot store on disk
    cred,     \* the credential vault and the broker registry
    mode,     \* the sidecar process: down, up, closing (aclose), closed
    tasks,    \* BotRunner._tasks
    pc,       \* where each task or coroutine is suspended
    cxl,      \* Task.cancel() was called and has not been delivered yet
    own,      \* the bot a loop task runs
    snap,     \* the local `rec` a tick read before its awaits
    call,     \* what a route or hook coroutine is doing
    holder,   \* per lock object: who holds it
    queue,    \* per lock object: who waits for it, in order
    gen,      \* per bot: the lock object that _locks maps it to
    lref      \* the lock object a process waits for or holds

vars == <<rec, cred, mode, tasks, pc, cxl, own, snap, call, holder, queue, gen, lref>>
lockVars == <<holder, queue, lref>>

Record == [stored: {"never", "stored", "deleted"}, enabled: BOOLEAN,
           live: BOOLEAN, edit: 0 .. MaxEdits]
Blank == [stored |-> "never", enabled |-> FALSE, live |-> FALSE, edit |-> 0]
Call == [op: {"none", "enable", "disable", "delete", "cascade", "hook"},
         bot: Bots \cup {NoOne}, loop: Loops \cup {NoOne}, todo: SUBSET Bots]
CallOn(b, op, t, todo) == [op |-> op, bot |-> b, loop |-> t, todo |-> todo]
NoCall == CallOn(NoOne, "none", NoOne, {})

Stored(b) == rec[b].stored = "stored"
On(b) == Stored(b) /\ rec[b].enabled

-----------------------------------------------------------------------------
(* Loop tasks.                                                             *)

(* A finished task is not told apart from one that never was.              *)
Alive(t) == pc[t] # "none"
Running(b) == tasks[b] # NoOne /\ Alive(tasks[b])
InTick(t) == pc[t] \in {"fetch", "work", "order"}

(* A task object nothing refers to any more can stand for a new one.       *)
Unused(t, b) ==
    /\ ~Alive(t)
    /\ \A b2 \in Bots \ {b} : tasks[b2] # t
    /\ \A p \in Disablers : call[p].loop # t

-----------------------------------------------------------------------------
(* Per-bot asyncio locks.  A lock is handed to its longest waiter on       *)
(* release, so nobody overtakes a waiter.  _locks.pop drops the bot's lock *)
(* object; the next access makes a new one.  A dropped lock nobody holds   *)
(* cannot be told from a new one, so gen advances only past one in use.    *)

(* Definitions marked "Wrong:" are the bugs the properties are tried on.   *)
(* Wrong: no lock.                                                         *)
AlwaysFree(b) == b \in Bots

Free(b) == holder[b][gen[b]] = NoOne
Granted(p, b) == pc[p] = "wait" /\ holder[b][lref[p]] = p

Take(p, b) ==
    /\ holder' = [holder EXCEPT ![b][gen[b]] = p]
    /\ lref' = [lref EXCEPT ![p] = gen[b]]
    /\ UNCHANGED queue

Enqueue(p, b) ==
    /\ queue' = [queue EXCEPT ![b][gen[b]] = Append(@, p)]
    /\ lref' = [lref EXCEPT ![p] = gen[b]]
    /\ UNCHANGED holder

(* Wrong: released, but nobody is woken.                                   *)
ReleaseOnly(b, g) ==
    /\ holder' = [holder EXCEPT ![b][g] = NoOne]
    /\ UNCHANGED <<queue, lref>>

HandOver(b, g) ==
    /\ holder' = [holder EXCEPT ![b][g] = IF queue[b][g] = <<>> THEN NoOne ELSE Head(queue[b][g])]
    /\ queue' = [queue EXCEPT ![b][g] = IF @ = <<>> THEN @ ELSE Tail(@)]
    /\ UNCHANGED lref

(* Wrong: a cancelled waiter keeps its place.                              *)
StaysQueued(p, b) == b \in Bots /\ p \in Procs /\ UNCHANGED lockVars

LeaveQueue(p, b) ==
    /\ \E i \in 1 .. Len(queue[b][lref[p]]) :
          /\ queue[b][lref[p]][i] = p
          /\ queue' = [queue EXCEPT ![b][lref[p]] = SubSeq(@, 1, i - 1) \o SubSeq(@, i + 1, Len(@))]
    /\ UNCHANGED <<holder, lref>>

DropLock(b) ==
    /\ gen' = [gen EXCEPT ![b] = IF holder'[b][@] = NoOne THEN @ ELSE @ + 1]
    /\ gen'[b] \in Gens

-----------------------------------------------------------------------------
Init ==
    /\ rec \in [Bots -> {Blank, [Blank EXCEPT !.stored = "stored"]}]
    /\ cred = [k \in Creds |-> "trade"]
    /\ mode = "down"
    /\ tasks = [b \in Bots |-> NoOne]
    /\ pc = [p \in Procs |-> IF p \in Loops THEN "none" ELSE "idle"]
    /\ cxl = [t \in Loops |-> FALSE]
    /\ own = [t \in Loops |-> CHOOSE b \in Bots : TRUE]
    /\ snap = [t \in Loops |-> Blank]
    /\ call = [p \in Disablers |-> NoCall]
    /\ holder = [b \in Bots |-> [g \in Gens |-> NoOne]]
    /\ queue = [b \in Bots |-> [g \in Gens |-> <<>>]]
    /\ gen = [b \in Bots |-> 0]
    /\ lref = [p \in Procs |-> 0]

-----------------------------------------------------------------------------
(* The loop task: `while True` of _run_loop around tick.                   *)

(* The conditions under which a tick gets past its early returns and       *)
(* suspends in fetch_ohlcv: record readable and enabled, trade permission  *)
(* of a live bot not revoked, broker registered.  A tick that returns      *)
(* before that has nothing to undo and leaves this state as it is.         *)
TickProceeds(b) ==
    /\ On(b)
    /\ cred[CredOf[b]] # "gone"
    /\ rec[b].live => cred[CredOf[b]] = "trade"

EnterTick(t, b) ==
    /\ pc' = [pc EXCEPT ![t] = "fetch"]
    /\ snap' = [snap EXCEPT ![t] = rec[b]]

LeaveTick(t) ==
    /\ HandOver(own[t], lref[t])
    /\ pc' = [pc EXCEPT ![t] = "ready"]
    /\ snap' = [snap EXCEPT ![t] = Blank]

LoopAt(t, where) == pc[t] = where /\ ~cxl[t]

(* Wrong: a refused tick ends the loop.                                    *)
LoopExitsWhenRefused(t) ==
    /\ LoopAt(t, "ready")
    /\ ~TickProceeds(own[t])
    /\ pc' = [pc EXCEPT ![t] = "none"]
    /\ UNCHANGED <<rec, cred, mode, tasks, cxl, own, snap, call, gen, lockVars>>

LoopExits(t) ==
    /\ LoopAt(t, "ready")
    /\ ~On(own[t])
    /\ pc' = [pc EXCEPT ![t] = "none"]
    /\ UNCHANGED <<rec, cred, mode, tasks, cxl, own, snap, call, gen, lockVars>>

LoopDies(t) ==
    /\ ReadFaults
    /\ LoopAt(t, "ready")
    /\ pc' = [pc EXCEPT ![t] = "none"]
    /\ UNCHANGED <<rec, cred, mode, tasks, cxl, own, snap, call, gen, lockVars>>

TickStarts(t) ==
    /\ LoopAt(t, "ready")
    /\ TickProceeds(own[t])
    /\ Free(own[t])
    /\ Take(t, own[t])
    /\ EnterTick(t, own[t])
    /\ UNCHANGED <<rec, cred, mode, tasks, cxl, own, call, gen>>

TickQueues(t) ==
    /\ LoopAt(t, "ready")
    /\ On(own[t])
    /\ ~Free(own[t])
    /\ Enqueue(t, own[t])
    /\ pc' = [pc EXCEPT ![t] = "wait"]
    /\ UNCHANGED <<rec, cred, mode, tasks, cxl, own, snap, call, gen>>

TickGranted(t) ==
    /\ ~cxl[t]
    /\ Granted(t, own[t])
    /\ \/ /\ TickProceeds(own[t])
          /\ EnterTick(t, own[t])
          /\ UNCHANGED lockVars
       \/ /\ ~TickProceeds(own[t])
          /\ LeaveTick(t)
    /\ UNCHANGED <<rec, cred, mode, tasks, cxl, own, call, gen>>

(* fetch_ohlcv failed: the record read BEFORE the await is written back.   *)
FetchFails(t) ==
    /\ LoopAt(t, "fetch")
    /\ rec' = [rec EXCEPT ![own[t]] = snap[t]]
    /\ LeaveTick(t)
    /\ UNCHANGED <<cred, mode, tasks, cxl, own, call, gen>>

(* Funding, equity and sizing: awaits whose writes re-read the record.     *)
TickContinues(t) ==
    /\ LoopAt(t, "fetch")
    /\ pc' = [pc EXCEPT ![t] = "work"]
    /\ UNCHANGED <<rec, cred, mode, tasks, cxl, own, snap, call, gen, lockVars>>

OrderSent(t) ==
    /\ LoopAt(t, "fetch") \/ LoopAt(t, "work")
    /\ snap[t].live
    /\ pc' = [pc EXCEPT ![t] = "order"]
    /\ UNCHANGED <<rec, cred, mode, tasks, cxl, own, snap, call, gen, lockVars>>

(* No event, a duplicate, or a signal appended to the freshly read record. *)
(* The fields this module keeps are those of the fresh read; a record      *)
(* deleted meanwhile is left alone.                                        *)
TickEnds(t) ==
    /\ InTick(t) /\ ~cxl[t]
    /\ LeaveTick(t)
    /\ UNCHANGED <<rec, cred, mode, tasks, cxl, own, call, gen>>

(* CancelledError raised at the await; `async with` releases the lock.     *)
CancelDelivered(t) ==
    /\ Alive(t) /\ cxl[t]
    /\ \/ InTick(t) /\ HandOver(own[t], lref[t])
       \/ Granted(t, own[t]) /\ HandOver(own[t], lref[t])
       \/ pc[t] = "wait" /\ LeaveQueue(t, own[t])
       \/ pc[t] = "ready" /\ UNCHANGED lockVars
    /\ pc' = [pc EXCEPT ![t] = "none"]
    /\ cxl' = [cxl EXCEPT ![t] = FALSE]
    /\ snap' = [snap EXCEPT ![t] = Blank]
    /\ UNCHANGED <<rec, cred, mode, tasks, own, call, gen>>

(* Wrong: CancelledError never comes through.                              *)
LoopStepUncancelled(t) ==
    \/ LoopExits(t) \/ LoopDies(t)
    \/ TickStarts(t) \/ TickQueues(t) \/ TickGranted(t)
    \/ FetchFails(t) \/ TickContinues(t) \/ OrderSent(t) \/ TickEnds(t)

LoopStep(t) ==
    \/ LoopExits(t) \/ LoopDies(t)
    \/ TickStarts(t) \/ TickQueues(t) \/ TickGranted(t)
    \/ FetchFails(t) \/ TickContinues(t) \/ OrderSent(t) \/ TickEnds(t)
    \/ CancelDelivered(t)

-----------------------------------------------------------------------------
(* BotRunner.enable behind POST /api/bots/{id}/enable.                     *)

(* Wrong: a second loop beside a running one.                              *)
SpawnUnchecked(b, c) ==
    \E t \in Loops :
        /\ Unused(t, b) /\ tasks[b] # t
        /\ tasks' = [tasks EXCEPT ![b] = t]
        /\ own' = [own EXCEPT ![t] = b]
        /\ cxl' = [cxl EXCEPT ![t] = FALSE]
        /\ pc' = [pc EXCEPT ![t] = "ready", ![c] = "idle"]

Spawn(b, c) ==
    \/ /\ mode = "up" /\ ~Running(b)
       /\ \E t \in Loops :
            /\ Unused(t, b)
            /\ tasks' = [tasks EXCEPT ![b] = t]
            /\ own' = [own EXCEPT ![t] = b]
            /\ cxl' = [cxl EXCEPT ![t] = FALSE]
            /\ pc' = [pc EXCEPT ![t] = "ready", ![c] = "idle"]
    \/ /\ mode # "up" \/ Running(b)
       /\ pc' = [pc EXCEPT ![c] = "idle"]
       /\ UNCHANGED <<tasks, own, cxl>>

(* The critical section and the spawn that follows it without an await.    *)
EnableBody(c, b) ==
    \/ /\ Stored(b)
       /\ rec' = [rec EXCEPT ![b].enabled = TRUE]
       /\ Spawn(b, c)
    \/ /\ ~Stored(b)
       /\ pc' = [pc EXCEPT ![c] = "idle"]
       /\ UNCHANGED <<rec, tasks, own, cxl>>

Serving == mode \in {"up", "closing"}
IdleCaller(c) == Serving /\ pc[c] = "idle"

(* The route's checks: the record exists, its broker is registered, a live *)
(* bot has trade permission.                                               *)
EnableAllowed(b) ==
    /\ Stored(b)
    /\ cred[CredOf[b]] # "gone"
    /\ rec[b].live => cred[CredOf[b]] = "trade"

EnableNow(c, b) ==
    /\ IdleCaller(c) /\ EnableAllowed(b)
    /\ Free(b)
    /\ EnableBody(c, b)
    /\ UNCHANGED <<cred, mode, snap, call, gen, lockVars>>

EnableQueues(c, b) ==
    /\ IdleCaller(c) /\ EnableAllowed(b)
    /\ ~Free(b)
    /\ Enqueue(c, b)
    /\ pc' = [pc EXCEPT ![c] = "wait"]
    /\ call' = [call EXCEPT ![c] = CallOn(b, "enable", NoOne, {})]
    /\ UNCHANGED <<rec, cred, mode, tasks, cxl, own, snap, gen>>

EnableGranted(c, b) ==
    /\ call[c].op = "enable" /\ call[c].bot = b
    /\ Granted(c, b)
    /\ HandOver(b, lref[c])
    /\ EnableBody(c, b)
    /\ call' = [call EXCEPT ![c] = NoCall]
    /\ UNCHANGED <<cred, mode, snap, gen>>

-----------------------------------------------------------------------------
(* BotRunner.disable, and the operations built on it: the disable route,   *)
(* DELETE of a bot, the cascade of a deleted credential, the hook's task.  *)

(* Wrong: the loop is stopped, the flag is not cleared.                    *)
StoppedOnly(b, op) ==
    [rec[b] EXCEPT !.stored = IF op = "delete" /\ Stored(b) THEN "deleted" ELSE @]

Disabled(b, op) ==
    [stored |-> IF op = "delete" /\ Stored(b) THEN "deleted" ELSE rec[b].stored,
     enabled |-> FALSE, live |-> rec[b].live, edit |-> rec[b].edit]

(* disable's critical section with what its caller does next without an    *)
(* await: DELETE pops the lock and removes the file; the cascade pops the  *)
(* lock unless disable raised UnknownBot, and goes on with its next bot.   *)
DisableBody(p, b, op, todo) ==
    /\ rec' = [rec EXCEPT ![b] = Disabled(b, op)]
    /\ IF op = "delete" \/ (op = "cascade" /\ Stored(b)) THEN DropLock(b) ELSE UNCHANGED gen
    /\ pc' = [pc EXCEPT ![p] = IF todo = {} THEN "idle" ELSE "next"]
    /\ call' = [call EXCEPT ![p] = IF todo = {} THEN NoCall ELSE CallOn(NoOne, op, NoOne, todo)]
    /\ UNCHANGED <<cred, mode, own, snap>>

DisableQueues(p, b, op, todo) ==
    /\ Enqueue(p, b)
    /\ pc' = [pc EXCEPT ![p] = "wait"]
    /\ call' = [call EXCEPT ![p] = CallOn(b, op, NoOne, todo)]
    /\ UNCHANGED <<rec, cred, mode, own, snap, gen>>

(* `async with self._get_lock(bot_id)`: entered at once, or queued for.    *)
DisableLocks(p, b, op, todo) ==
    \/ Free(b) /\ UNCHANGED lockVars /\ DisableBody(p, b, op, todo)
    \/ ~Free(b) /\ DisableQueues(p, b, op, todo)

(* The task is popped and cancelled before the lock is asked for.          *)
DisableStarts(p, b, op, todo) ==
    /\ tasks' = [tasks EXCEPT ![b] = NoOne]
    /\ \/ /\ Running(b)
          /\ cxl' = [cxl EXCEPT ![tasks[b]] = TRUE]
          /\ pc' = [pc EXCEPT ![p] = "join"]
          /\ call' = [call EXCEPT ![p] = CallOn(b, op, tasks[b], todo)]
          /\ UNCHANGED <<rec, cred, mode, own, snap, gen, lockVars>>
       \/ /\ ~Running(b)
          /\ UNCHANGED cxl
          /\ DisableLocks(p, b, op, todo)

(* `await task` returned.                                                  *)
DisableJoins(p) ==
    /\ pc[p] = "join" /\ ~Alive(call[p].loop)
    /\ DisableLocks(p, call[p].bot, call[p].op, call[p].todo)
    /\ UNCHANGED <<tasks, cxl>>

DisableGranted(p) ==
    /\ call[p].op \in {"disable", "delete", "cascade", "hook"}
    /\ Granted(p, call[p].bot)
    /\ HandOver(call[p].bot, lref[p])
    /\ DisableBody(p, call[p].bot, call[p].op, call[p].todo)
    /\ UNCHANGED <<tasks, cxl>>

DisableBot(c, b) == IdleCaller(c) /\ DisableStarts(c, b, "disable", {})
DeleteBot(c, b) == IdleCaller(c) /\ DisableStarts(c, b, "delete", {})
HookStarts(b) == pc[b] = "sched" /\ DisableStarts(b, b, "hook", {})
CascadeNext(c) ==
    /\ pc[c] = "next"
    /\ \E b \in call[c].todo : DisableStarts(c, b, "cascade", call[c].todo \ {b})

-----------------------------------------------------------------------------
(* Routes without an await, and the credential routes.                     *)

CreateBot(b) ==
    /\ Serving /\ rec[b].stored = "never"
    /\ rec' = [rec EXCEPT ![b].stored = "stored"]
    /\ UNCHANGED <<cred, mode, tasks, pc, cxl, own, snap, call, gen, lockVars>>

(* PUT reads, checks and saves in one go, without the per-bot lock.        *)
UpdateBot(b, live) ==
    /\ Serving /\ Stored(b)
    /\ cred[CredOf[b]] # "gone"
    /\ live /\ ~rec[b].live => cred[CredOf[b]] = "trade"
    /\ rec[b].edit < MaxEdits
    /\ rec' = [rec EXCEPT ![b].live = live, ![b].edit = @ + 1]
    /\ UNCHANGED <<cred, mode, tasks, pc, cxl, own, snap, call, gen, lockVars>>

Users(k) == {b \in Bots : Stored(b) /\ CredOf[b] = k}

(* Wrong: the flag of a running bot is written without its lock.           *)
HookWrites(k) ==
    /\ rec' = [b \in Bots |-> IF b \in Users(k) THEN [rec[b] EXCEPT !.enabled = FALSE] ELSE rec[b]]
    /\ UNCHANGED pc

(* _on_credential_deleted, run inside unregister_credential: a disable     *)
(* task for each running bot, the flag written directly for the others.    *)
HookFires(k) ==
    LET running == {b \in Users(k) : Running(b)}
    IN  /\ \A b \in running : pc[b] = "idle"
        /\ rec' = [b \in Bots |-> IF b \in Users(k) \ running
                                  THEN [rec[b] EXCEPT !.enabled = FALSE] ELSE rec[b]]
        /\ pc' = [p \in Procs |-> IF p \in running THEN "sched" ELSE pc[p]]

PatchCredential(k, perm) ==
    /\ Serving /\ cred[k] # "gone"
    /\ cred' = [cred EXCEPT ![k] = perm]
    /\ HookFires(k)
    /\ UNCHANGED <<mode, tasks, cxl, own, snap, call, gen, lockVars>>

(* DELETE with force: the vault entry and the registration go, the hook    *)
(* fires, then the cascade over the bots listed before the delete begins.  *)
DeleteCredential(c, k) ==
    LET running == {b \in Users(k) : Running(b)}
    IN  /\ IdleCaller(c) /\ cred[k] # "gone"
        /\ \A b \in running : pc[b] = "idle"
        /\ cred' = [cred EXCEPT ![k] = "gone"]
        /\ rec' = [b \in Bots |-> IF b \in Users(k) \ running
                                  THEN [rec[b] EXCEPT !.enabled = FALSE] ELSE rec[b]]
        /\ pc' = [p \in Procs |-> CASE p \in running -> "sched"
                                    [] p = c /\ Users(k) # {} -> "next"
                                    [] OTHER -> pc[p]]
        /\ call' = [call EXCEPT ![c] = IF Users(k) = {} THEN NoCall
                                       ELSE CallOn(NoOne, "cascade", NoOne, Users(k))]
        /\ UNCHANGED <<mode, tasks, cxl, own, snap, gen, lockVars>>

-----------------------------------------------------------------------------
(* The process: start_all at startup, aclose at shutdown, a crash.         *)

(* No request is served yet and no loop holds a lock, so start_all runs    *)
(* through without suspending.                                             *)
Startup ==
    LET revoked == {b \in Bots : On(b) /\ rec[b].live /\ cred[CredOf[b]] = "read"}
        start == {b \in Bots : On(b)} \ revoked
    IN  /\ mode = "down"
        /\ mode' = "up"
        /\ rec' = [b \in Bots |-> IF b \in revoked THEN [rec[b] EXCEPT !.enabled = FALSE] ELSE rec[b]]
        /\ \E f \in [start -> Loops] :
              /\ \A b1, b2 \in start : f[b1] = f[b2] => b1 = b2
              /\ tasks' = [b \in Bots |-> IF b \in start THEN f[b] ELSE NoOne]
              /\ own' = [t \in Loops |-> IF \E b \in start : f[b] = t
                                         THEN CHOOSE b \in start : f[b] = t ELSE own[t]]
              /\ pc' = [p \in Procs |-> IF \E b \in start : f[b] = p THEN "ready" ELSE pc[p]]
        /\ UNCHANGED <<cred, cxl, snap, call, gen, lockVars>>

(* aclose: no more spawns, every registered loop is cancelled.             *)
Close ==
    /\ mode = "up"
    /\ mode' = "closing"
    /\ cxl' = [t \in Loops |-> cxl[t] \/ (Alive(t) /\ \E b \in Bots : tasks[b] = t)]
    /\ UNCHANGED <<rec, cred, tasks, pc, own, snap, call, gen, lockVars>>

(* Every cancelled loop was awaited; _tasks is cleared.                    *)
Closed ==
    /\ mode = "closing"
    /\ \A b \in Bots : ~Running(b)
    /\ mode' = "closed"
    /\ tasks' = [b \in Bots |-> NoOne]
    /\ UNCHANGED <<rec, cred, pc, cxl, own, snap, call, gen, lockVars>>

(* The process ends, by a crash or after shutdown: only rec and cred are   *)
(* on disk.                                                                *)
Exit ==
    /\ mode # "down"
    /\ mode' = "down"
    /\ tasks' = [b \in Bots |-> NoOne]
    /\ pc' = [p \in Procs |-> IF p \in Loops THEN "none" ELSE "idle"]
    /\ cxl' = [t \in Loops |-> FALSE]
    /\ snap' = [t \in Loops |-> Blank]
    /\ call' = [p \in Disablers |-> NoCall]
    /\ holder' = [b \in Bots |-> [g \in Gens |-> NoOne]]
    /\ queue' = [b \in Bots |-> [g \in Gens |-> <<>>]]
    /\ gen' = [b \in Bots |-> 0]
    /\ lref' = [p \in Procs |-> 0]
    /\ UNCHANGED <<rec, cred, own>>

-----------------------------------------------------------------------------
CallerStep(p) ==
    \/ DisableJoins(p) \/ DisableGranted(p)
    \/ p \in Callers /\ CascadeNext(p)
    \/ p \in Callers /\ \E b \in Bots : EnableGranted(p, b)
    \/ p \in Bots /\ HookStarts(p)

Request(c, b) ==
    \/ EnableNow(c, b) \/ EnableQueues(c, b)
    \/ DisableBot(c, b) \/ DeleteBot(c, b)

Next ==
    \/ \E t \in Loops : LoopStep(t)
    \/ \E p \in Disablers : CallerStep(p)
    \/ \E c \in Callers, b \in Bots : Request(c, b)
    \/ \E b \in Bots : CreateBot(b) \/ \E live \in BOOLEAN : UpdateBot(b, live)
    \/ \E k \in Creds : \/ \E perm \in {"trade", "read"} : PatchCredential(k, perm)
                        \/ \E c \in Callers : DeleteCredential(c, k)
    \/ Startup \/ Close \/ Closed \/ Exit

Spec == Init /\ [][Next]_vars

(* The event loop runs every ready task; awaits on the exchange end,       *)
(* because every adapter call has a timeout; a sidecar that is down is     *)
(* started again.  No request ever has to come, no process has to exit.    *)
Fairness ==
    /\ \A t \in Loops : WF_vars(LoopStep(t))
    /\ \A p \in Disablers : WF_vars(CallerStep(p))
    /\ WF_vars(Startup) /\ WF_vars(Closed)

FairSpec == Spec /\ Fairness

-----------------------------------------------------------------------------
(* Properties.                                                             *)

(* Types of the variables.                                                 *)
TypeOK ==
    /\ rec \in [Bots -> Record]
    /\ cred \in [Creds -> {"trade", "read", "gone"}]
    /\ mode \in {"down", "up", "closing", "closed"}
    /\ tasks \in [Bots -> Loops \cup {NoOne}]
    /\ pc \in [Procs -> {"none", "ready", "wait", "fetch", "work", "order",
                         "idle", "sched", "join", "next"}]
    /\ cxl \in [Loops -> BOOLEAN]
    /\ own \in [Loops -> Bots]
    /\ snap \in [Loops -> Record]
    /\ call \in [Disablers -> Call]
    /\ holder \in [Bots -> [Gens -> Procs \cup {NoOne}]]
    /\ queue \in [Bots -> [Gens -> Seq(Procs)]]
    /\ gen \in [Bots -> Gens]
    /\ lref \in [Procs -> Gens]

Effective(t) == Alive(t) /\ ~cxl[t]

(* A bot never has two loops that will still act: however enable, disable, *)
(* the hook and restarts interleave, every loop not yet cancelled is the   *)
(* one _tasks knows, so that the next disable can reach it.                *)
OneLoopPerBot == \A t \in Loops : Effective(t) => tasks[own[t]] = t

(* Off means quiet: while a bot is disabled or deleted, no tick of it is   *)
(* between its read and its write, so none can place an order or save.     *)
QuietWhenOff == \A t \in Loops : InTick(t) /\ ~cxl[t] => On(own[t])

(* No enabled bot is stuck: if the process is up and the record says       *)
(* enabled, a loop runs, or a disable that popped it has yet to write.     *)
NeverStuck ==
    mode = "up" => \A b \in Bots :
        On(b) => \/ Running(b)
                 \/ \E p \in Disablers : call[p].bot = b /\ call[p].op # "enable"

(* What makes OneLoopPerBot and QuietWhenOff inductive.  A tick between    *)
(* its read and its write holds the lock it asked for; unless cancelled,   *)
(* that is still the bot's current lock, and the record still says on.     *)
CallsWellFormed ==
    \A p \in Disablers :
        /\ pc[p] \in {"join", "wait"} => call[p].bot \in Bots
        /\ pc[p] = "join" => call[p].op \in {"disable", "delete", "cascade", "hook"}
        /\ pc[p] = "next" \/ call[p].todo # {} => call[p].op = "cascade"
        /\ call[p].op = "cascade" =>
              \A b \in Bots : b \in call[p].todo \/ b = call[p].bot => cred[CredOf[b]] = "gone"

TicksHoldLocks == \A t \in Loops : InTick(t) => holder[own[t]][lref[t]] = t

TicksAreCurrent ==
    \A t \in Loops : InTick(t) /\ ~cxl[t] => lref[t] = gen[own[t]] /\ On(own[t])

SnapsAreOn == \A t \in Loops : InTick(t) => snap[t].stored = "stored" /\ snap[t].enabled

(* A lock dropped while in use belongs to a bot that no tick enters again: *)
(* it was deleted, or its credential was.                                  *)
AbandonedLocks ==
    \A b \in Bots, g \in Gens : g # gen[b] /\ holder[b][g] # NoOne =>
        /\ rec[b].stored = "deleted" \/ cred[CredOf[b]] = "gone"
        /\ \A t \in Loops : InTick(t) /\ own[t] = b => cxl[t]

HeldLocks == \A b \in Bots, g \in Gens : holder[b][g] # NoOne => rec[b].stored # "never"

DownMeansDead == mode = "down" => \A t \in Loops : ~Alive(t)

IndInv ==
    /\ TypeOK /\ OneLoopPerBot
    /\ CallsWellFormed /\ TicksHoldLocks /\ TicksAreCurrent
    /\ SnapsAreOn /\ AbandonedLocks /\ HeldLocks /\ DownMeansDead

(* A tick that was suspended while the bot was deleted must not write the  *)
(* file back.                                                              *)
DeletedStaysDeleted ==
    [][\A b \in Bots : rec[b].stored = "deleted" => rec'[b].stored = "deleted"]_vars

(* Only an enable request turns a bot on; no tick, edit, hook or restart   *)
(* brings back a flag that a disable cleared.                              *)
OnlyEnableEnables ==
    [][\A b \in Bots : ~rec[b].enabled /\ rec'[b].enabled =>
          \E c \in Callers : EnableNow(c, b) \/ EnableGranted(c, b)]_vars

(* A user's edit is never rolled back: the comment in BotRunner.__init__   *)
(* says the per-bot lock guards a tick's read-modify-write against PUT.    *)
EditsAreKept == [][\A b \in Bots : rec'[b].edit >= rec[b].edit]_vars

(* Every disable, delete and cascade comes back to its caller.             *)
CallsReturn == \A p \in Disablers : pc[p] # "idle" ~> pc[p] = "idle"

(* A loop of a bot that stays off ends.                                    *)
OffLoopsEnd == \A t \in Loops : Alive(t) /\ ~On(own[t]) ~> ~Alive(t) \/ On(own[t])

(* A disable that popped and cancelled the loop is not lost: the record    *)
(* says off in the end, unless the process dies first.                     *)
DisableTakesEffect ==
    \A p \in Disablers, b \in Bots :
        call[p].bot = b /\ call[p].op # "enable" ~> ~On(b) \/ mode = "down"

(* A bot that stays on, in a sidecar that stays up, is ticked again and    *)
(* again: no cancelled waiter, dropped lock or dying loop blocks it.       *)
KeepsTicking ==
    \A b \in Bots :
        []<>(~TickProceeds(b) \/ mode # "up" \/ \E t \in Loops : own[t] = b /\ InTick(t))

=============================================================================
