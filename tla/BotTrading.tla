----------------------------- MODULE BotTrading -----------------------------
(***************************************************************************)
(* The trading half of the bot runner: what the ticks of one rule-based    *)
(* bot on one symbol do to its record and to the account.  BotLifecycle    *)
(* shows that ticks of a bot never overlap, so one tick is in flight at    *)
(* most; it is cut where the code awaits.                                  *)
(*                                                                         *)
(* The bot keeps no position: each tick derives it from the signal log     *)
(* (InPos).  The account (pos, rest) is the exchange's.                    *)
(***************************************************************************)
EXTENDS Naturals, Sequences

CONSTANTS
    LogCap,      \* SIGNAL_LOG_CAP
    MaxBars,     \* bound: bars the market prints
    MaxFails,    \* bound: ticks that fail in a row
    MaxAccruals, \* bound: funding payments per position
    MaxEntries,  \* bound: entries recorded
    MaxExposure, \* bound: what the account's margin carries, in half lots
    Faults       \* which of AllFaults may happen

AllFaults == {"diagnostic", "abort", "lost", "edit", "partialExit", "partialLimit"}

ASSUME ConstantsAssumption ==
    /\ LogCap \in Nat \ {0} /\ MaxBars \in Nat \ {0}
    /\ MaxFails \in Nat /\ MaxAccruals \in Nat /\ MaxEntries \in Nat /\ MaxExposure \in Nat
    /\ Faults \subseteq AllFaults

VARIABLES
    bar,      \* bar_time of the last complete bar
    rules,    \* do the strategy's entry and exit conditions hold on it
    pos,      \* the account's position, in half lots
    rest,     \* quantity of a GTC order resting on the exchange
    rec,      \* the bot's record: mode, signal_log, cumulative_funding_pnl
    trades,   \* length of closed_trades_log
    entries,  \* history: entries recorded as not skipped
    accrued,  \* history: funding payments since the last such entry
    pc,       \* where the tick is suspended
    snap,     \* the tick's `rec`
    ev,       \* the event it evaluated
    act,      \* what became of the order
    fails     \* ticks in a row that ended in a failure

account == <<pos, rest>>
ledger == <<rec, trades, entries, accrued>>
market == <<bar, rules>>
vars == <<market, account, ledger, pc, snap, ev, act, fails>>

Lot == 2
Bars == 1 .. MaxBars
NoBar == 0
Signal == [kind: {"entry", "exit"}, act: {"shadow", "placed", "error", "skipped"},
           bar: Bars \cup {NoBar}]
Event == [kind: {"entry", "exit", "none"}, bar: Bars \cup {NoBar}]
NoEvent == [kind |-> "none", bar |-> NoBar]
Rules == [entry: BOOLEAN, exit: BOOLEAN]

-----------------------------------------------------------------------------
(* The record.                                                             *)

(* Every early return that leaves a trace in the log (no permission, no    *)
(* broker, no strategy, invalid strategy, timeframe drift, failed fetch).  *)
Diagnostic == [kind |-> "entry", act |-> "skipped", bar |-> NoBar]

Appended(r, s) == [r EXCEPT !.log = Append(@, s)]

AppendSignal(r, s) ==
    IF Len(r.log) < LogCap THEN Appended(r, s) ELSE Appended([r EXCEPT !.log = Tail(@)], s)

HasEvent(r) == r.log # <<>>
LastEvent(r) == r.log[Len(r.log)]
Skipped(s) == s.act = "skipped"

(* _last_non_skipped_entry finds something.                                *)
HasEntry(r) == \E i \in 1 .. Len(r.log) : r.log[i].kind = "entry" /\ ~Skipped(r.log[i])

JustEntered(r) ==
    HasEvent(r) /\ LastEvent(r).kind = "entry" /\ ~Skipped(LastEvent(r))
ExitFailed(r) ==
    HasEvent(r) /\ LastEvent(r).kind = "exit" /\ Skipped(LastEvent(r))

(* in_pos: the last event opened a position, or failed to close one.       *)
InPos(r) == JustEntered(r) \/ (ExitFailed(r) /\ HasEntry(r))

SameSignal(r, e) ==
    HasEvent(r) /\ LastEvent(r).bar = e.bar /\ LastEvent(r).kind = e.kind

(* A failed exit is no duplicate: it is sent again.                        *)
Duplicate(r, e) ==
    SameSignal(r, e) /\ (~Skipped(LastEvent(r)) \/ e.kind = "entry")

-----------------------------------------------------------------------------
Init ==
    /\ bar = 1 /\ rules \in Rules
    /\ pos = 0 /\ rest = 0
    /\ rec \in [live: BOOLEAN, log: {<<>>}, funding: {0}]
    /\ trades = 0 /\ entries = 0 /\ accrued = 0
    /\ pc = "idle" /\ snap = rec /\ ev = NoEvent /\ act = "shadow"
    /\ fails = 0

-----------------------------------------------------------------------------
(* The tick.                                                               *)

Fault(f) == f \in Faults

TickReturns == pc' = "idle" /\ snap' = rec' /\ ev' = NoEvent /\ act' = "shadow"

TickStarts ==
    /\ pc = "idle"
    /\ pc' = "fetch" /\ snap' = rec
    /\ UNCHANGED <<market, account, ledger, ev, act, fails>>

TickDiagnoses ==
    /\ Fault("diagnostic") /\ pc = "idle"
    /\ rec' = AppendSignal(rec, Diagnostic)
    /\ TickReturns
    /\ UNCHANGED <<market, account, trades, entries, accrued, fails>>

(* The failed fetch saves the record read before the await.                *)
FetchFails ==
    /\ Fault("diagnostic") /\ pc = "fetch"
    /\ rec' = AppendSignal(snap, Diagnostic)
    /\ TickReturns
    /\ UNCHANGED <<market, account, trades, entries, accrued, fails>>

(* An empty frame, or one the rules cannot be evaluated on.                *)
FetchEmpty ==
    /\ pc = "fetch" /\ ~InPos(snap) /\ fails < MaxFails
    /\ fails' = fails + 1
    /\ UNCHANGED <<market, account, ledger>>
    /\ TickReturns

(* After the event is known: deduplicate, then send an order or, in shadow *)
(* mode, only record.                                                      *)
Route(e) ==
    IF e = NoEvent \/ Duplicate(snap, e)
    THEN TickReturns
    ELSE /\ pc' = IF snap.live THEN "order" ELSE "record"
         /\ ev' = e /\ act' = "shadow" /\ UNCHANGED snap

EventAt(kind) ==
    IF rules[kind] /\ (kind = "entry" => entries < MaxEntries)
    THEN [kind |-> kind, bar |-> bar] ELSE NoEvent

FetchReturnsFlat ==
    /\ pc = "fetch" /\ ~InPos(snap)
    /\ UNCHANGED <<market, account, ledger, fails>>
    /\ Route(EventAt("entry"))

FetchReturnsOpen ==
    /\ pc = "fetch" /\ InPos(snap)
    /\ pc' = "funding" /\ ev' = EventAt("exit")
    /\ UNCHANGED <<market, account, ledger, snap, act, fails>>

(* The funding rate of one tick: zero, or accrued to a fresh read.         *)
FundingReturns ==
    /\ pc = "funding"
    /\ \E delta \in {0, 1} :
          /\ accrued + delta <= MaxAccruals
          /\ rec' = [rec EXCEPT !.funding = @ + delta]
          /\ accrued' = accrued + delta
    /\ UNCHANGED <<market, account, trades, entries, fails>>
    /\ Route(ev)

(* The order's outcome: what the exchange did, and what the bot will log.  *)
Answer(newPos, newRest, outcome) ==
    /\ pos' = newPos /\ rest' = newRest
    /\ act' = outcome
    /\ pc' = "record"
    /\ UNCHANGED <<market, ledger, snap, ev>>

MayFail == fails < MaxFails

EntryAnswered ==
    /\ pc = "order" /\ ev.kind = "entry"
    /\ \/ /\ pos + rest + Lot <= MaxExposure
          /\ \/ Answer(pos + Lot, rest, "placed")
             \/ Answer(pos + 1, rest, "placed")
             \* Limit order partly filled: the remainder stays on the book.
             \/ Fault("partialLimit") /\ Answer(pos + 1, rest + 1, "placed")
             \* Limit order unfilled, and its cancel failed.
             \/ Answer(pos, rest + Lot, "error")
             \* Executed, but the answer was lost.
             \/ Fault("lost") /\ MayFail /\ Answer(pos + Lot, rest, "skipped")
       \* Refused for want of equity, rejected, unfilled, or cancelled.
       \/ MayFail /\ Answer(pos, rest, "skipped")
    /\ UNCHANGED fails

(* close_position asks the exchange for the position and refuses when      *)
(* there is none.                                                          *)
ExitAnswered ==
    /\ pc = "order" /\ ev.kind = "exit"
    /\ \/ pos > 0 /\ Answer(0, rest, "placed")
       \/ pos > 1 /\ Fault("partialExit") /\ Answer(pos - 1, rest, "placed")
       \/ MayFail /\ Answer(pos, rest, "skipped")
       \/ pos > 0 /\ Fault("lost") /\ MayFail /\ Answer(0, rest, "skipped")
    /\ UNCHANGED fails

(* The signal is appended to a fresh read; an exit that is not skipped     *)
(* resets the funding and, if its entry is still in the log, is paired.    *)
TickRecords ==
    LET signal == [kind |-> ev.kind, act |-> act, bar |-> ev.bar]
        closes == ev.kind = "exit" /\ act # "skipped"
        opens == ev.kind = "entry" /\ act # "skipped"
    IN  /\ pc = "record"
        /\ rec' = [AppendSignal(rec, signal) EXCEPT !.funding = IF closes THEN 0 ELSE @]
        /\ trades' = IF closes /\ HasEntry(rec) THEN trades + 1 ELSE trades
        /\ entries' = IF opens THEN entries + 1 ELSE entries
        /\ accrued' = IF opens THEN 0 ELSE accrued
        /\ fails' = IF act = "skipped" THEN fails + 1 ELSE 0
        /\ TickReturns
        /\ UNCHANGED <<market, account>>

(* The loop task is cancelled at an await, or the process dies.            *)
TickAborts ==
    /\ Fault("abort") /\ pc # "idle"
    /\ UNCHANGED <<market, account, ledger, fails>>
    /\ TickReturns

-----------------------------------------------------------------------------
(* The world around the tick.                                              *)

NewBar ==
    /\ bar < MaxBars
    /\ bar' = bar + 1 /\ rules' \in Rules
    /\ UNCHANGED <<account, ledger, pc, snap, ev, act, fails>>

RestingFills ==
    /\ rest > 0
    /\ pos' = pos + rest /\ rest' = 0
    /\ UNCHANGED <<market, ledger, pc, snap, ev, act, fails>>

(* PUT /api/bots/{id}: the body's cumulative_funding_pnl, or the default.  *)
UpdateBot ==
    /\ Fault("edit")
    /\ \E live \in BOOLEAN, funding \in {0, rec.funding} :
          rec' = [rec EXCEPT !.live = live, !.funding = funding]
    /\ UNCHANGED <<market, account, trades, entries, accrued, pc, snap, ev, act, fails>>

-----------------------------------------------------------------------------
Tick ==
    \/ TickStarts \/ TickDiagnoses
    \/ FetchFails \/ FetchEmpty \/ FetchReturnsFlat \/ FetchReturnsOpen
    \/ FundingReturns \/ EntryAnswered \/ ExitAnswered \/ TickRecords

Next == Tick \/ TickAborts \/ NewBar \/ RestingFills \/ UpdateBot

Spec == Init /\ [][Next]_vars

(* The loop keeps ticking, and a bot that fails MaxFails times in a row is *)
(* answered the next time.                                                 *)
FairSpec == Spec /\ WF_vars(Tick)

-----------------------------------------------------------------------------
(* Properties.                                                             *)

(* Types of the variables.                                                 *)
RecordOK(r) ==
    /\ r \in [live: BOOLEAN, log: Seq(Signal), funding: Nat]
    /\ Len(r.log) <= LogCap
TypeOK ==
    /\ bar \in Bars /\ rules \in Rules
    /\ pos \in Nat /\ rest \in Nat
    /\ RecordOK(rec) /\ RecordOK(snap)
    /\ trades \in Nat /\ entries \in 0 .. MaxEntries /\ accrued \in 0 .. MaxAccruals
    /\ pc \in {"idle", "fetch", "funding", "order", "record"}
    /\ ev \in Event /\ act \in {"shadow", "placed", "error", "skipped"}
    /\ fails \in 0 .. MaxFails

(* No entry order is sent on top of a position, or of an order that may    *)
(* still fill: what the log says about the account is never too little.    *)
NoBlindEntry == pc = "order" /\ ev.kind = "entry" => pos = 0 /\ rest = 0

(* The funding a trade will be charged is what its own position paid: none *)
(* leaks in from an earlier one (F5) and none is forgotten.                *)
FundingIsExact == InPos(rec) => rec.funding = accrued

(* Whatever fails: an entry is closed once at most, and every closed trade *)
(* goes back to an entry of its own.                                       *)
OneTradePerEntry == trades <= entries /\ (InPos(rec) => trades < entries)

(* Seen from the log, positions open and close in turn, each close minting *)
(* exactly one trade.                                                      *)
Ledger == INSTANCE RoundTrips WITH open <- InPos(rec), trades <- trades
LedgerSpec == Ledger!Spec

(* A failed exit is retried until the position is closed, as long as the   *)
(* exit condition persists (F4).                                           *)
ExitsAreRetried == pos > 0 ~> pos = 0 \/ ~rules.exit

=============================================================================
