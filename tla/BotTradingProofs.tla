--------------------------- MODULE BotTradingProofs ---------------------------
(***************************************************************************)
(* What the ledger of a bot promises, for every log capacity, every bound  *)
(* and every set of faults: at most one trade per entry.  While no         *)
(* diagnostic is logged and fewer exits fail in a row than the log holds   *)
(* signals: exactly one trade per closed position, charged exactly its own *)
(* funding.                                                                *)
(***************************************************************************)
EXTENDS BotTrading, TLAPS

Rec == [live: BOOLEAN, log: Seq(Signal), funding: Nat]

-----------------------------------------------------------------------------
(* The signal log.                                                         *)

(* A record whose log is replaced stays a record.                          *)
LEMMA LogReplaced ==
  ASSUME NEW r \in Rec, NEW t \in Seq(Signal), NEW s \in Signal,
         NEW q, q = [r EXCEPT !.log = Append(t, s)]
  PROVE  /\ q \in Rec /\ q.live = r.live /\ q.funding = r.funding
         /\ q.log = Append(t, s)
<1>1. Append(t, s) \in Seq(Signal)
  OBVIOUS
<1> QED
  BY <1>1 DEF Rec

(* AppendSignal puts the signal last and keeps the cap and the other       *)
(* fields.                                                                 *)
LEMMA AppendSignalFacts ==
  ASSUME NEW r \in Rec, Len(r.log) <= LogCap, NEW s \in Signal,
         NEW q, q = AppendSignal(r, s)
  PROVE  /\ q \in Rec /\ q.live = r.live /\ q.funding = r.funding
         /\ Len(q.log) \in 1 .. LogCap
         /\ q.log[Len(q.log)] = s
<1>. LogCap \in Nat \ {0}
  BY ConstantsAssumption
<1>1. CASE Len(r.log) < LogCap
  <2>1. q = [r EXCEPT !.log = Append(r.log, s)]
    BY <1>1 DEF AppendSignal, Appended, Rec
  <2>2. q \in Rec /\ q.live = r.live /\ q.funding = r.funding /\ q.log = Append(r.log, s)
    BY <2>1, LogReplaced DEF Rec
  <2> QED
    BY <1>1, <2>2 DEF Rec
<1>2. CASE ~(Len(r.log) < LogCap)
  <2>1. q = [r EXCEPT !.log = Append(Tail(r.log), s)]
    BY <1>2 DEF AppendSignal, Appended, Rec
  <2>2. r.log # <<>> /\ Tail(r.log) \in Seq(Signal)
    BY <1>2 DEF Rec
  <2>3. q \in Rec /\ q.live = r.live /\ q.funding = r.funding /\ q.log = Append(Tail(r.log), s)
    BY <2>1, <2>2, LogReplaced, ZenonT(30)
  <2> QED
    BY <1>2, <2>2, <2>3 DEF Rec
<1> QED
  BY <1>1, <1>2

(* It forgets the oldest signal at most: every other one moves one step    *)
(* back from the end.                                                      *)
MovedBack(r, q) ==
  \A i \in 1 .. Len(r.log) : i > 1 \/ Len(r.log) < LogCap =>
    \E j \in 1 .. Len(q.log) :
      q.log[j] = r.log[i] /\ Len(q.log) - j = Len(r.log) - i + 1

LEMMA AppendSignalShifts ==
  ASSUME NEW r \in Rec, Len(r.log) <= LogCap, NEW s \in Signal,
         NEW q, q = AppendSignal(r, s)
  PROVE  MovedBack(r, q)
<1> SUFFICES ASSUME NEW i \in 1 .. Len(r.log), i > 1 \/ Len(r.log) < LogCap
             PROVE  \E j \in 1 .. Len(q.log) :
                      q.log[j] = r.log[i] /\ Len(q.log) - j = Len(r.log) - i + 1
  BY DEF MovedBack
<1>. LogCap \in Nat \ {0}
  BY ConstantsAssumption
<1>1. CASE Len(r.log) < LogCap
  <2>1. q = [r EXCEPT !.log = Append(r.log, s)]
    BY <1>1 DEF AppendSignal, Appended, Rec
  <2>2. q.log = Append(r.log, s)
    BY <2>1, LogReplaced DEF Rec
  <2>3. /\ i \in 1 .. Len(q.log) /\ q.log[i] = r.log[i]
        /\ Len(q.log) - i = Len(r.log) - i + 1
    BY <2>2 DEF Rec
  <2> QED
    BY <2>3
<1>2. CASE ~(Len(r.log) < LogCap)
  <2>1. q = [r EXCEPT !.log = Append(Tail(r.log), s)]
    BY <1>2 DEF AppendSignal, Appended, Rec
  <2>2. r.log # <<>> /\ Tail(r.log) \in Seq(Signal) /\ Len(Tail(r.log)) = Len(r.log) - 1
    BY <1>2 DEF Rec
  <2>3. q.log = Append(Tail(r.log), s)
    BY <2>1, <2>2, LogReplaced
  <2>4. i - 1 \in 1 .. Len(Tail(r.log)) /\ Tail(r.log)[i - 1] = r.log[i]
    BY <1>2, <2>2 DEF Rec
  <2>5. Len(q.log) = Len(r.log) /\ q.log[i - 1] = Tail(r.log)[i - 1]
    BY <2>2, <2>3, <2>4 DEF Rec
  <2>6. /\ i - 1 \in 1 .. Len(q.log) /\ q.log[i - 1] = r.log[i]
        /\ Len(q.log) - (i - 1) = Len(r.log) - i + 1
    BY <2>2, <2>4, <2>5 DEF Rec
  <2> QED
    BY <2>6
<1> QED
  BY <1>1, <1>2

(* What a signal appended last says about the position.                    *)
LEMMA InPosAfter ==
  ASSUME NEW q \in Rec, Len(q.log) > 0, NEW s \in Signal, q.log[Len(q.log)] = s
  PROVE  /\ s.kind = "entry" => (InPos(q) <=> ~Skipped(s))
         /\ s.kind = "exit" /\ ~Skipped(s) => ~InPos(q)
         /\ s.kind = "exit" /\ Skipped(s) => (InPos(q) <=> HasEntry(q))
<1>1. HasEvent(q) /\ LastEvent(q) = s
  BY DEF HasEvent, LastEvent, Rec
<1> QED
  BY <1>1 DEF InPos, JustEntered, ExitFailed

(* Funding and mode do not move a position.                                *)
LEMMA InPosOfLog ==
  ASSUME NEW r, NEW q, r.log = q.log
  PROVE  (InPos(r) <=> InPos(q)) /\ (HasEntry(r) <=> HasEntry(q))
BY DEF InPos, JustEntered, ExitFailed, HasEvent, LastEvent, HasEntry

-----------------------------------------------------------------------------
(* The invariant.  OneTradePerEntry is not inductive: that an exit is only *)
(* recorded for an open position (Pending) needs the log the tick read     *)
(* before its awaits to be the one it appends to (SnapIsFresh).            *)

SnapIsFresh == pc # "idle" => snap.log = rec.log

FundingIsOpen ==
  pc = "funding" => InPos(rec) /\ (ev = NoEvent \/ ev.kind = "exit")

Pending ==
  pc \in {"order", "record"} =>
    /\ ev.kind # "none"
    /\ ev.kind = "exit" => InPos(rec)
    /\ ev.kind = "entry" => ~InPos(rec) /\ entries < MaxEntries

MayStillFail == pc = "record" /\ act = "skipped" => fails < MaxFails

TInv ==
  /\ TypeOK
  /\ SnapIsFresh
  /\ FundingIsOpen
  /\ Pending
  /\ MayStillFail
  /\ OneTradePerEntry

LEMMA InitTInv == Init => TInv
<1> SUFFICES ASSUME Init PROVE TInv
  OBVIOUS
<1>. {<<>>} \subseteq Seq(Signal) /\ {0} \subseteq Nat
  OBVIOUS
<1>1. rec \in Rec /\ rec.log = <<>> /\ snap = rec
  <2>1. rec \in [live: BOOLEAN, log: {<<>>}, funding: {0}] /\ snap = rec
    BY DEF Init
  <2> QED
    BY <2>1 DEF Rec
<1>2. ~InPos(rec)
  BY <1>1 DEF InPos, JustEntered, ExitFailed, HasEvent
<1>3. TypeOK
  BY <1>1, ConstantsAssumption
  DEF Init, TypeOK, RecordOK, Rec, Bars, Event, NoEvent, NoBar
<1> QED
  BY <1>1, <1>2, <1>3
  DEF Init, TInv, SnapIsFresh, FundingIsOpen, Pending, MayStillFail, OneTradePerEntry

(* A tick that returns, having appended nothing or something.              *)
LEMMA ReturnKeeps ==
  ASSUME TInv, TickReturns,
         bar' \in Bars, rules' \in Rules, pos' \in Nat, rest' \in Nat,
         RecordOK(rec)', trades' \in Nat, entries' \in 0 .. MaxEntries,
         accrued' \in 0 .. MaxAccruals, fails' \in 0 .. MaxFails,
         OneTradePerEntry'
  PROVE  TInv'
<1>1. TypeOK'
  BY DEF TypeOK, TickReturns, RecordOK, Event, NoEvent, NoBar
<1> QED
  BY <1>1
  DEF TInv, TickReturns, SnapIsFresh, FundingIsOpen, Pending, MayStillFail

(* The tick that knows its event: duplicate, order, or record.             *)
LEMMA RouteKeeps ==
  ASSUME TInv, NEW e \in Event, Route(e), pc # "idle",
         UNCHANGED <<market, account, trades, entries, fails>>,
         RecordOK(rec)', rec'.log = rec.log, accrued' \in 0 .. MaxAccruals,
         e = NoEvent \/ e.kind # "none",
         e.kind = "exit" => InPos(rec),
         e.kind = "entry" => ~InPos(rec) /\ entries < MaxEntries
  PROVE  TInv'
<1>1. InPos(rec') <=> InPos(rec)
  BY InPosOfLog
<1>2. OneTradePerEntry'
  BY <1>1 DEF TInv, OneTradePerEntry
<1>3. CASE TickReturns
  BY <1>2, <1>3, ReturnKeeps DEF TInv, TypeOK, market, account
<1>4. CASE e # NoEvent /\ pc' \in {"order", "record"} /\ ev' = e /\ act' = "shadow"
           /\ UNCHANGED snap
  <2>1. TypeOK'
    BY <1>4 DEF TInv, TypeOK, RecordOK, market, account
  <2> QED
    BY <1>1, <1>2, <1>4, <2>1
    DEF TInv, SnapIsFresh, FundingIsOpen, Pending, MayStillFail
<1> QED
  BY <1>3, <1>4 DEF Route

(* A failed read logged over the log of before the await, or a diagnostic. *)
LEMMA DiagnosticKeeps ==
  ASSUME TInv, NEW r \in Rec, Len(r.log) <= LogCap,
         rec' = AppendSignal(r, Diagnostic), TickReturns,
         UNCHANGED <<market, account, trades, entries, accrued, fails>>
  PROVE  TInv' /\ ~InPos(rec')
<1>1. Diagnostic \in Signal /\ Diagnostic.kind = "entry" /\ Skipped(Diagnostic)
  BY DEF Diagnostic, Signal, Skipped, NoBar
<1>2. /\ rec' \in Rec /\ Len(rec'.log) \in 1 .. LogCap
      /\ rec'.log[Len(rec'.log)] = Diagnostic
  BY <1>1, AppendSignalFacts
<1>3. ~InPos(rec')
  BY <1>1, <1>2, InPosAfter
<1>4. RecordOK(rec)'
  BY <1>2 DEF RecordOK, Rec
<1>5. OneTradePerEntry'
  BY <1>3 DEF TInv, TypeOK, OneTradePerEntry
<1> QED
  BY <1>3, <1>4, <1>5, ReturnKeeps DEF TInv, TypeOK, market, account

-----------------------------------------------------------------------------
(* The steps.                                                              *)

(* What EventAt offers is an event of that kind, or none.                  *)
LEMMA EventAtFacts ==
  ASSUME TypeOK, NEW kind \in {"entry", "exit"}
  PROVE  /\ EventAt(kind) \in Event
         /\ \/ EventAt(kind) = NoEvent
            \/ EventAt(kind).kind = kind /\ (kind = "entry" => entries < MaxEntries)
BY DEF TypeOK, EventAt, Event, NoEvent, NoBar

(* The signal of an answered order, or of a shadow event, is recorded.     *)
LEMMA RecordsFacts ==
  ASSUME TInv, TickRecords
  PROVE  \E s \in Signal, q \in Rec :
           /\ s = [kind |-> ev.kind, act |-> act, bar |-> ev.bar]
           /\ q = AppendSignal(rec, s)
           /\ ev.kind \in {"entry", "exit"}
           /\ RecordOK(rec)' /\ rec'.log = q.log
           /\ rec'.funding = IF ev.kind = "exit" /\ act # "skipped" THEN 0 ELSE rec.funding
           /\ ev.kind = "entry" => (InPos(rec') <=> act # "skipped")
           /\ ev.kind = "exit" /\ act # "skipped" => ~InPos(rec')
           /\ ev.kind = "exit" /\ act = "skipped" => (InPos(rec') <=> HasEntry(q))
<1> DEFINE s == [kind |-> ev.kind, act |-> act, bar |-> ev.bar]
           q == AppendSignal(rec, s)
<1>1. ev.kind \in {"entry", "exit"} /\ s \in Signal
  BY DEF TInv, TypeOK, Event, Pending, TickRecords, Signal
<1>2. rec \in Rec /\ Len(rec.log) <= LogCap
  BY DEF TInv, TypeOK, RecordOK, Rec
<1> HIDE DEF s
<1>3. /\ q \in Rec /\ q.funding = rec.funding
      /\ Len(q.log) \in 1 .. LogCap /\ q.log[Len(q.log)] = s
  BY <1>1, <1>2, AppendSignalFacts
<1>4. rec' = [q EXCEPT !.funding = IF ev.kind = "exit" /\ act # "skipped" THEN 0 ELSE @]
  BY DEF TickRecords, s
<1> HIDE DEF q
<1>5. rec' \in Rec /\ rec'.log = q.log
      /\ rec'.funding = IF ev.kind = "exit" /\ act # "skipped" THEN 0 ELSE rec.funding
  BY <1>3, <1>4 DEF Rec
<1>6. RecordOK(rec)'
  BY <1>3, <1>5 DEF RecordOK, Rec
<1>7. s.kind = ev.kind /\ (Skipped(s) <=> act = "skipped")
  BY DEF s, Skipped
<1>8. (InPos(rec') <=> InPos(q)) /\ (HasEntry(rec') <=> HasEntry(q))
  BY <1>5, InPosOfLog
<1>9. s = [kind |-> ev.kind, act |-> act, bar |-> ev.bar] /\ q = AppendSignal(rec, s)
  BY DEF s, q
<1>10. Len(q.log) > 0
  BY <1>3
<1>11. /\ ev.kind = "entry" => (InPos(rec') <=> act # "skipped")
       /\ ev.kind = "exit" /\ act # "skipped" => ~InPos(rec')
       /\ ev.kind = "exit" /\ act = "skipped" => (InPos(rec') <=> HasEntry(q))
  BY <1>1, <1>3, <1>7, <1>8, <1>10, InPosAfter
<1> QED
  BY <1>1, <1>3, <1>5, <1>6, <1>9, <1>11

(* Recording an exit ends the position it was sent for; recording an entry *)
(* is counted.                                                             *)
LEMMA RecordsKeeps ==
  ASSUME TInv, TickRecords
  PROVE  TInv'
<1>1. PICK q \in Rec :
        /\ ev.kind \in {"entry", "exit"}
        /\ RecordOK(rec)'
        /\ ev.kind = "entry" => (InPos(rec') <=> act # "skipped")
        /\ ev.kind = "exit" /\ act # "skipped" => ~InPos(rec')
  BY RecordsFacts
<1>2. pc = "record" /\ TickReturns /\ UNCHANGED <<market, account>>
  BY DEF TickRecords
<1>3. /\ ev.kind = "exit" => InPos(rec)
      /\ ev.kind = "entry" => ~InPos(rec) /\ entries < MaxEntries
      /\ act = "skipped" => fails < MaxFails
  BY <1>2 DEF TInv, Pending, MayStillFail
<1>4. /\ trades \in Nat /\ entries \in 0 .. MaxEntries /\ accrued \in 0 .. MaxAccruals
      /\ fails \in 0 .. MaxFails
  BY DEF TInv, TypeOK
<1>5. MaxEntries \in Nat /\ MaxAccruals \in Nat /\ MaxFails \in Nat
  BY ConstantsAssumption
<1>6. /\ trades' \in Nat
      /\ trades' <= trades + (IF ev.kind = "exit" /\ act # "skipped" THEN 1 ELSE 0)
      /\ entries' = IF ev.kind = "entry" /\ act # "skipped" THEN entries + 1 ELSE entries
  BY <1>4 DEF TickRecords
<1>7. entries' \in 0 .. MaxEntries /\ accrued' \in 0 .. MaxAccruals /\ fails' \in 0 .. MaxFails
  <2>1. accrued' \in {0, accrued} /\ fails' = IF act = "skipped" THEN fails + 1 ELSE 0
    BY DEF TickRecords
  <2> QED
    BY <1>3, <1>4, <1>5, <1>6, <2>1
<1>8. trades' <= entries' /\ (InPos(rec') => trades' < entries')
  <2>1. trades <= entries /\ (InPos(rec) => trades < entries)
    BY DEF TInv, OneTradePerEntry
  <2>2. CASE ev.kind = "entry"
    <3>1. trades' <= trades /\ entries <= entries' /\ (InPos(rec') => entries < entries')
      BY <1>1, <1>4, <1>5, <1>6, <2>2
    <3> QED
      BY <1>4, <1>5, <1>6, <1>7, <2>1, <3>1
  <2>3. CASE ev.kind = "exit"
    <3>1. InPos(rec)
      BY <1>3, <2>3
    <3>2. trades' <= trades + 1 /\ entries' = entries /\ (InPos(rec') => trades' <= trades)
      BY <1>1, <1>4, <1>5, <1>6, <2>3
    <3> QED
      BY <1>4, <1>5, <1>6, <1>7, <2>1, <3>1, <3>2
  <2> QED
    BY <1>1, <2>2, <2>3
<1>9. OneTradePerEntry'
  BY <1>8 DEF OneTradePerEntry, InPos
<1> QED
  BY <1>1, <1>2, <1>6, <1>7, <1>9, ReturnKeeps DEF TInv, TypeOK, market, account

(* The order is answered: nothing of the ledger moves.                     *)
LEMMA AnswerKeeps ==
  ASSUME TInv, pc = "order",
         NEW p \in Nat, NEW r \in Nat, NEW o \in {"placed", "error", "skipped"},
         Answer(p, r, o), UNCHANGED fails, o = "skipped" => fails < MaxFails
  PROVE  TInv'
<1>1. /\ pos' = p /\ rest' = r /\ act' = o /\ pc' = "record"
      /\ UNCHANGED <<bar, rules, rec, trades, entries, accrued, snap, ev, fails>>
  BY DEF Answer, market, ledger
<1>2. TypeOK'
  BY <1>1 DEF TInv, TypeOK, RecordOK
<1> QED
  BY <1>1, <1>2
  DEF TInv, SnapIsFresh, FundingIsOpen, Pending, MayStillFail, OneTradePerEntry

LEMMA AnswersKeep ==
  ASSUME TInv, EntryAnswered \/ ExitAnswered
  PROVE  TInv'
<1>1. pos \in Nat /\ rest \in Nat /\ pos + Lot \in Nat /\ pos + 1 \in Nat
      /\ rest + Lot \in Nat /\ rest + 1 \in Nat /\ (pos > 1 => pos - 1 \in Nat)
  BY DEF TInv, TypeOK, Lot
<1>2. pc = "order" /\ UNCHANGED fails
  BY DEF EntryAnswered, ExitAnswered
<1>3. CASE EntryAnswered
  <2>1. CASE Answer(pos + Lot, rest, "placed")
    BY <1>1, <1>2, <2>1, AnswerKeeps
  <2>2. CASE Answer(pos + 1, rest, "placed")
    BY <1>1, <1>2, <2>2, AnswerKeeps
  <2>3. CASE Answer(pos + 1, rest + 1, "placed")
    BY <1>1, <1>2, <2>3, AnswerKeeps
  <2>4. CASE Answer(pos, rest + Lot, "error")
    BY <1>1, <1>2, <2>4, AnswerKeeps
  <2>5. CASE MayFail /\ Answer(pos + Lot, rest, "skipped")
    BY <1>1, <1>2, <2>5, AnswerKeeps DEF MayFail
  <2>6. CASE MayFail /\ Answer(pos, rest, "skipped")
    BY <1>1, <1>2, <2>6, AnswerKeeps DEF MayFail
  <2> QED
    BY <1>3, <2>1, <2>2, <2>3, <2>4, <2>5, <2>6 DEF EntryAnswered
<1>4. CASE ExitAnswered
  <2>1. CASE Answer(0, rest, "placed")
    BY <1>1, <1>2, <2>1, AnswerKeeps
  <2>2. CASE pos > 1 /\ Answer(pos - 1, rest, "placed")
    BY <1>1, <1>2, <2>2, AnswerKeeps
  <2>3. CASE MayFail /\ Answer(pos, rest, "skipped")
    BY <1>1, <1>2, <2>3, AnswerKeeps DEF MayFail
  <2>4. CASE MayFail /\ Answer(0, rest, "skipped")
    BY <1>1, <1>2, <2>4, AnswerKeeps DEF MayFail
  <2> QED
    BY <1>4, <2>1, <2>2, <2>3, <2>4 DEF ExitAnswered
<1> QED
  BY <1>3, <1>4

(* The two awaits in front of the event.                                   *)
LEMMA FetchKeeps ==
  ASSUME TInv, FetchReturnsFlat \/ FetchReturnsOpen
  PROVE  TInv'
<1>1. pc = "fetch" /\ (InPos(snap) <=> InPos(rec))
  BY InPosOfLog DEF TInv, SnapIsFresh, FetchReturnsFlat, FetchReturnsOpen
<1>2. CASE FetchReturnsFlat
  <2>1. /\ EventAt("entry") \in Event
        /\ \/ EventAt("entry") = NoEvent
           \/ EventAt("entry").kind = "entry" /\ entries < MaxEntries
    BY EventAtFacts DEF TInv
  <2>2. /\ Route(EventAt("entry")) /\ ~InPos(rec)
        /\ UNCHANGED <<market, account, rec, trades, entries, accrued, fails>>
    BY <1>1, <1>2 DEF FetchReturnsFlat, ledger
  <2>3. RecordOK(rec)' /\ rec'.log = rec.log /\ accrued' \in 0 .. MaxAccruals
    BY <2>2 DEF TInv, TypeOK, RecordOK
  <2>4. NoEvent.kind = "none"
    BY DEF NoEvent
  <2> QED
    BY <1>1, <2>1, <2>2, <2>3, <2>4, RouteKeeps
<1>3. CASE FetchReturnsOpen
  <2>1. /\ EventAt("exit") \in Event
        /\ EventAt("exit") = NoEvent \/ EventAt("exit").kind = "exit"
    BY EventAtFacts DEF TInv
  <2>2. /\ pc' = "funding" /\ ev' = EventAt("exit") /\ InPos(rec)
        /\ UNCHANGED <<bar, rules, pos, rest, rec, trades, entries, accrued, snap, act, fails>>
    BY <1>1, <1>3 DEF FetchReturnsOpen, market, account, ledger
  <2>3. TypeOK'
    BY <2>1, <2>2 DEF TInv, TypeOK, RecordOK
  <2> QED
    BY <1>1, <2>1, <2>2, <2>3
    DEF TInv, SnapIsFresh, FundingIsOpen, Pending, MayStillFail, OneTradePerEntry
<1> QED
  BY <1>2, <1>3

LEMMA FundingKeeps ==
  ASSUME TInv, FundingReturns
  PROVE  TInv'
<1>1. PICK delta \in {0, 1} :
        /\ accrued + delta <= MaxAccruals
        /\ rec' = [rec EXCEPT !.funding = @ + delta]
        /\ accrued' = accrued + delta
  BY DEF FundingReturns
<1>2. /\ rec \in Rec /\ Len(rec.log) <= LogCap
      /\ accrued \in 0 .. MaxAccruals /\ MaxAccruals \in Nat
  BY ConstantsAssumption DEF TInv, TypeOK, RecordOK, Rec
<1>3. rec.funding + delta \in Nat /\ rec' = [rec EXCEPT !.funding = rec.funding + delta]
  BY <1>1, <1>2 DEF Rec
<1>4. rec' \in Rec /\ rec'.log = rec.log /\ accrued' \in 0 .. MaxAccruals
  BY <1>1, <1>2, <1>3 DEF Rec
<1>5. RecordOK(rec)'
  BY <1>2, <1>4 DEF RecordOK, Rec
<1>6. /\ pc = "funding" /\ Route(ev)
      /\ UNCHANGED <<market, account, trades, entries, fails>>
  BY DEF FundingReturns
<1>7. ev \in Event /\ InPos(rec) /\ (ev = NoEvent \/ ev.kind = "exit") /\ NoEvent.kind = "none"
  BY <1>6 DEF TInv, TypeOK, FundingIsOpen, NoEvent
<1> QED
  BY <1>4, <1>5, <1>6, <1>7, RouteKeeps

(* The steps that leave the log alone and end nothing.                     *)
LEMMA AroundKeeps ==
  ASSUME TInv, TickStarts \/ NewBar \/ RestingFills \/ UpdateBot
  PROVE  TInv'
<1>1. CASE TickStarts
  <2>1. /\ pc' = "fetch" /\ snap' = rec
        /\ UNCHANGED <<bar, rules, pos, rest, rec, trades, entries, accrued, ev, act, fails>>
    BY <1>1 DEF TickStarts, market, account, ledger
  <2> QED
    BY <2>1 DEF TInv, TypeOK, RecordOK, SnapIsFresh, FundingIsOpen, Pending,
                MayStillFail, OneTradePerEntry
<1>2. CASE NewBar
  <2>1. /\ bar' \in Bars /\ rules' \in Rules
        /\ UNCHANGED <<pos, rest, rec, trades, entries, accrued, pc, snap, ev, act, fails>>
    BY <1>2, ConstantsAssumption DEF NewBar, account, ledger, TInv, TypeOK, Bars
  <2> QED
    BY <2>1 DEF TInv, TypeOK, RecordOK, SnapIsFresh, FundingIsOpen, Pending,
                MayStillFail, OneTradePerEntry
<1>3. CASE RestingFills
  <2>1. /\ pos' \in Nat /\ rest' \in Nat
        /\ UNCHANGED <<bar, rules, rec, trades, entries, accrued, pc, snap, ev, act, fails>>
    BY <1>3 DEF RestingFills, market, ledger, TInv, TypeOK
  <2> QED
    BY <2>1 DEF TInv, TypeOK, RecordOK, SnapIsFresh, FundingIsOpen, Pending,
                MayStillFail, OneTradePerEntry
<1>4. CASE UpdateBot
  <2>1. PICK live \in BOOLEAN, funding \in {0, rec.funding} :
          rec' = [rec EXCEPT !.live = live, !.funding = funding]
    BY <1>4 DEF UpdateBot
  <2>2. RecordOK(rec)' /\ rec'.log = rec.log
    <3>1. rec \in Rec /\ Len(rec.log) <= LogCap
      BY DEF TInv, TypeOK, RecordOK, Rec
    <3>2. funding \in Nat
      BY <3>1 DEF Rec
    <3>3. rec' \in Rec /\ rec'.log = rec.log
      BY <2>1, <3>1, <3>2 DEF Rec
    <3> QED
      BY <3>1, <3>3 DEF RecordOK, Rec
  <2>3. UNCHANGED <<bar, rules, pos, rest, trades, entries, accrued, pc, snap, ev, act, fails>>
    BY <1>4 DEF UpdateBot, market, account
  <2>4. InPos(rec') <=> InPos(rec)
    BY <2>2, InPosOfLog
  <2> QED
    BY <2>2, <2>3, <2>4
    DEF TInv, TypeOK, RecordOK, SnapIsFresh, FundingIsOpen, Pending,
        MayStillFail, OneTradePerEntry
<1> QED
  BY <1>1, <1>2, <1>3, <1>4

(* The steps that end a tick without an event.                             *)
LEMMA EndsKeep ==
  ASSUME TInv, TickDiagnoses \/ FetchFails \/ FetchEmpty \/ TickAborts
  PROVE  TInv'
<1>1. rec \in Rec /\ snap \in Rec /\ Len(rec.log) <= LogCap /\ Len(snap.log) <= LogCap
  BY DEF TInv, TypeOK, RecordOK, Rec
<1>2. CASE TickDiagnoses
  BY <1>1, <1>2, DiagnosticKeeps DEF TickDiagnoses
<1>3. CASE FetchFails
  BY <1>1, <1>3, DiagnosticKeeps DEF FetchFails
<1>4. CASE FetchEmpty \/ TickAborts
  <2>1. /\ TickReturns /\ fails' \in 0 .. MaxFails
        /\ UNCHANGED <<bar, rules, pos, rest, rec, trades, entries, accrued>>
    BY <1>4, ConstantsAssumption
    DEF FetchEmpty, TickAborts, market, account, ledger, TInv, TypeOK
  <2>2. RecordOK(rec)' /\ OneTradePerEntry'
    BY <2>1 DEF TInv, TypeOK, RecordOK, OneTradePerEntry
  <2> QED
    BY <2>1, <2>2, ReturnKeeps DEF TInv, TypeOK
<1> QED
  BY <1>2, <1>3, <1>4

LEMMA StepTInv == TInv /\ [Next]_vars => TInv'
<1> SUFFICES ASSUME TInv, [Next]_vars PROVE TInv'
  OBVIOUS
<1>1. CASE TickStarts \/ NewBar \/ RestingFills \/ UpdateBot
  BY <1>1, AroundKeeps
<1>2. CASE TickDiagnoses \/ FetchFails \/ FetchEmpty \/ TickAborts
  BY <1>2, EndsKeep
<1>3. CASE FetchReturnsFlat \/ FetchReturnsOpen
  BY <1>3, FetchKeeps
<1>4. CASE FundingReturns
  BY <1>4, FundingKeeps
<1>5. CASE EntryAnswered \/ ExitAnswered
  BY <1>5, AnswersKeep
<1>6. CASE TickRecords
  BY <1>6, RecordsKeeps
<1>7. CASE UNCHANGED vars
  BY <1>7 DEF vars, market, account, ledger, TInv, TypeOK, RecordOK, SnapIsFresh,
              FundingIsOpen, Pending, MayStillFail, OneTradePerEntry
<1> QED
  BY <1>1, <1>2, <1>3, <1>4, <1>5, <1>6, <1>7 DEF Next, Tick

(* Types hold: no step leaves the bounds, the log never outgrows its cap.  *)
THEOREM TypesHold == Spec => []TypeOK
<1>1. TInv => TypeOK
  BY DEF TInv
<1> QED
  BY <1>1, InitTInv, StepTInv, PTL DEF Spec

(* An entry is closed once at most, whatever fails and wherever the tick   *)
(* is cut: _append_closed_trade_for_exit never invents a round trip.       *)
THEOREM EntriesCloseOnce == Spec => []OneTradePerEntry
<1>1. TInv => OneTradePerEntry
  BY DEF TInv
<1> QED
  BY <1>1, InitTInv, StepTInv, PTL DEF Spec

-----------------------------------------------------------------------------
(* The ledger without diagnostics.  An open position's entry is still in   *)
(* the log: it lies no further back than the exits that failed since, and  *)
(* those are fewer than the log holds.                                     *)

EntryIsKept ==
  InPos(rec) =>
    \E i \in 1 .. Len(rec.log) :
      /\ rec.log[i].kind = "entry" /\ ~Skipped(rec.log[i])
      /\ Len(rec.log) - i <= fails

LEMMA EntryIsThere == ASSUME EntryIsKept, InPos(rec) PROVE HasEntry(rec)
BY DEF EntryIsKept, HasEntry

(* Of the steps without a diagnostic, only TickRecords touches the log.    *)
LEMMA OthersKeepTheLog ==
  ASSUME "diagnostic" \notin Faults, TInv, [Next]_vars, ~TickRecords
  PROVE  /\ rec'.log = rec.log /\ trades' = trades
         /\ fails' = fails \/ (fails' = fails + 1 /\ ~InPos(rec))
<1>1. ~TickDiagnoses /\ ~FetchFails
  BY DEF TickDiagnoses, FetchFails, Fault
<1>2. CASE FetchEmpty
  <2>1. pc = "fetch" /\ ~InPos(snap) /\ rec' = rec /\ trades' = trades /\ fails' = fails + 1
    BY <1>2 DEF FetchEmpty, ledger
  <2>2. InPos(snap) <=> InPos(rec)
    BY <2>1, InPosOfLog DEF TInv, SnapIsFresh
  <2> QED
    BY <2>1, <2>2
<1>3. CASE FundingReturns \/ UpdateBot
  <2>1. rec \in Rec /\ trades' = trades /\ fails' = fails
    BY <1>3 DEF TInv, TypeOK, RecordOK, Rec, FundingReturns, UpdateBot
  <2>2. rec'.log = rec.log
    <3>1. CASE FundingReturns
      BY <2>1, <3>1 DEF FundingReturns, Rec
    <3>2. CASE UpdateBot
      BY <2>1, <3>2 DEF UpdateBot, Rec
    <3> QED
      BY <1>3, <3>1, <3>2
  <2> QED
    BY <2>1, <2>2
<1>4. CASE \/ TickStarts \/ FetchReturnsFlat \/ FetchReturnsOpen
           \/ EntryAnswered \/ ExitAnswered \/ TickAborts \/ NewBar \/ RestingFills
           \/ UNCHANGED vars
  <2>1. rec' = rec /\ trades' = trades /\ fails' = fails
    BY <1>4 DEF TickStarts, FetchReturnsFlat, FetchReturnsOpen, EntryAnswered, ExitAnswered,
                Answer, TickAborts, NewBar, RestingFills, vars, ledger
  <2> QED
    BY <2>1
<1> QED
  BY <1>1, <1>2, <1>3, <1>4 DEF Next, Tick

(* A recorded exit that failed leaves the entry it is about in the log.    *)
LEMMA FailedExitKeepsEntry ==
  ASSUME MaxFails < LogCap, TInv, EntryIsKept, TickRecords, ev.kind = "exit", act = "skipped",
         NEW s \in Signal, NEW q \in Rec, q = AppendSignal(rec, s), rec'.log = q.log
  PROVE  EntryIsKept' /\ HasEntry(q)
<1>1. InPos(rec) /\ fails \in 0 .. MaxFails /\ fails < MaxFails /\ fails' = fails + 1
  BY DEF TInv, TypeOK, TickRecords, Pending, MayStillFail
<1>2. rec \in Rec /\ Len(rec.log) <= LogCap /\ LogCap \in Nat /\ MaxFails \in Nat
  BY ConstantsAssumption DEF TInv, TypeOK, RecordOK, Rec
<1>3. PICK i \in 1 .. Len(rec.log) :
        /\ rec.log[i].kind = "entry" /\ ~Skipped(rec.log[i])
        /\ Len(rec.log) - i <= fails
  BY <1>1 DEF EntryIsKept
<1>4. i > 1 \/ Len(rec.log) < LogCap
  <2>1. Len(rec.log) \in Nat
    BY <1>2 DEF Rec
  <2> QED
    BY <1>1, <1>2, <1>3, <2>1
<1>5. PICK j \in 1 .. Len(q.log) :
        q.log[j] = rec.log[i] /\ Len(q.log) - j = Len(rec.log) - i + 1
  <2>1. MovedBack(rec, q)
    BY <1>2, AppendSignalShifts
  <2> QED
    BY <1>3, <1>4, <2>1 DEF MovedBack
<1>6. Len(q.log) - j <= fails'
  <2>1. Len(rec.log) \in Nat
    BY <1>2 DEF Rec
  <2> QED
    BY <1>1, <1>3, <1>5, <2>1
<1>7. HasEntry(q)
  BY <1>3, <1>5 DEF HasEntry
<1>8. EntryIsKept'
  BY <1>3, <1>5, <1>6 DEF EntryIsKept
<1> QED
  BY <1>7, <1>8

(* What a recorded signal does to the ledger.                              *)
LEMMA RecordsLedger ==
  ASSUME MaxFails < LogCap, TInv, EntryIsKept, TickRecords
  PROVE  /\ EntryIsKept'
         /\ \/ /\ ev.kind = "entry" /\ act # "skipped"
               /\ ~InPos(rec) /\ InPos(rec') /\ trades' = trades
            \/ /\ ev.kind = "exit" /\ act # "skipped"
               /\ InPos(rec) /\ ~InPos(rec') /\ trades' = trades + 1
            \/ act = "skipped" /\ (InPos(rec') <=> InPos(rec)) /\ trades' = trades
<1>1. PICK s \in Signal, q \in Rec :
        /\ s = [kind |-> ev.kind, act |-> act, bar |-> ev.bar]
        /\ q = AppendSignal(rec, s)
        /\ ev.kind \in {"entry", "exit"} /\ rec'.log = q.log
        /\ ev.kind = "entry" => (InPos(rec') <=> act # "skipped")
        /\ ev.kind = "exit" /\ act # "skipped" => ~InPos(rec')
        /\ ev.kind = "exit" /\ act = "skipped" => (InPos(rec') <=> HasEntry(q))
  BY RecordsFacts
<1>2. /\ ev.kind = "exit" => InPos(rec)
      /\ ev.kind = "entry" => ~InPos(rec)
  BY DEF TInv, Pending, TickRecords
<1>3. CASE ev.kind = "entry" /\ act # "skipped"
  <2>1. fails' = 0 /\ trades' = trades
    BY <1>3 DEF TickRecords
  <2>2. rec \in Rec /\ Len(rec.log) <= LogCap
    BY DEF TInv, TypeOK, RecordOK, Rec
  <2>3. Len(q.log) \in 1 .. LogCap /\ q.log[Len(q.log)] = s
    <3> DEFINE p == AppendSignal(rec, s)
    <3>1. Len(p.log) \in 1 .. LogCap /\ p.log[Len(p.log)] = s
      BY <2>2, AppendSignalFacts
    <3> QED
      BY <1>1, <3>1
  <2>4. s.kind = "entry" /\ ~Skipped(s)
    BY <1>1, <1>3 DEF Skipped
  <2>5. Len(q.log) \in 1 .. Len(q.log) /\ Len(q.log) - Len(q.log) <= fails'
    BY <2>1, <2>3
  <2>6. EntryIsKept'
    BY <1>1, <2>3, <2>4, <2>5 DEF EntryIsKept
  <2> QED
    BY <1>1, <1>2, <1>3, <2>1, <2>6
<1>4. CASE ev.kind = "entry" /\ act = "skipped"
  <2>1. trades' = trades /\ ~InPos(rec')
    BY <1>1, <1>4 DEF TickRecords
  <2>2. EntryIsKept'
    BY <2>1 DEF EntryIsKept, InPos
  <2> QED
    BY <1>2, <1>4, <2>1, <2>2
<1>5. CASE ev.kind = "exit" /\ act # "skipped"
  <2>1. trades' = trades + 1 /\ ~InPos(rec') /\ InPos(rec)
    BY <1>1, <1>2, <1>5, EntryIsThere DEF TickRecords
  <2>2. EntryIsKept'
    BY <2>1 DEF EntryIsKept, InPos
  <2> QED
    BY <1>5, <2>1, <2>2
<1>6. CASE ev.kind = "exit" /\ act = "skipped"
  <2>1. trades' = trades
    BY <1>6 DEF TickRecords
  <2>2. EntryIsKept' /\ HasEntry(q)
    BY <1>1, <1>6, FailedExitKeepsEntry
  <2> QED
    BY <1>1, <1>2, <1>6, <2>1, <2>2
<1> QED
  BY <1>1, <1>3, <1>4, <1>5, <1>6

(* Every step of the tick is a step of RoundTrips or none of its concern.  *)
LEMMA StepLedger ==
  ASSUME "diagnostic" \notin Faults, MaxFails < LogCap, TInv, EntryIsKept, [Next]_vars
  PROVE  EntryIsKept' /\ [Ledger!Next]_(Ledger!vars)
<1>1. CASE TickRecords
  <2>1. EntryIsKept'
    BY <1>1, RecordsLedger
  <2>2. \/ ~InPos(rec) /\ InPos(rec)' /\ trades' = trades
        \/ InPos(rec) /\ ~InPos(rec)' /\ trades' = trades + 1
        \/ (InPos(rec)' <=> InPos(rec)) /\ trades' = trades
    BY <1>1, RecordsLedger DEF InPos
  <2>3. InPos(rec) \in BOOLEAN /\ InPos(rec)' \in BOOLEAN
    BY DEF InPos
  <2> QED
    BY <2>1, <2>2, <2>3
    DEF Ledger!Next, Ledger!Enter, Ledger!Leave, Ledger!vars
<1>2. CASE ~TickRecords
  <2>1. /\ rec'.log = rec.log /\ trades' = trades
        /\ fails' = fails \/ (fails' = fails + 1 /\ ~InPos(rec))
    BY <1>2, OthersKeepTheLog
  <2>2. InPos(rec') <=> InPos(rec)
    BY <2>1, InPosOfLog
  <2>3. InPos(rec)' <=> InPos(rec)
    BY <2>2 DEF InPos
  <2>4. InPos(rec) \in BOOLEAN /\ InPos(rec)' \in BOOLEAN
    BY DEF InPos
  <2>5. EntryIsKept'
    BY <2>1, <2>3 DEF EntryIsKept
  <2> QED
    BY <2>1, <2>3, <2>4, <2>5 DEF Ledger!vars
<1> QED
  BY <1>1, <1>2

LEMMA InitLedger == Init => EntryIsKept /\ ~InPos(rec) /\ rec.funding = 0 /\ Ledger!Init
<1> SUFFICES ASSUME Init
             PROVE  EntryIsKept /\ ~InPos(rec) /\ rec.funding = 0 /\ Ledger!Init
  OBVIOUS
<1>1. rec.log = <<>> /\ rec.funding = 0 /\ trades = 0
  BY DEF Init
<1>2. ~InPos(rec)
  BY <1>1 DEF InPos, JustEntered, ExitFailed, HasEvent
<1>3. InPos(rec) \in BOOLEAN
  BY DEF InPos
<1> QED
  BY <1>1, <1>2, <1>3 DEF EntryIsKept, Ledger!Init

(* While no diagnostic is logged and fewer exits fail in a row than the    *)
(* log holds signals, the ledger opens and closes in turn, and each close  *)
(* mints its trade.                                                        *)
THEOREM LedgerIsExact ==
  ASSUME "diagnostic" \notin Faults, MaxFails < LogCap
  PROVE  Spec => LedgerSpec
<1>1. Init => TInv /\ EntryIsKept /\ Ledger!Init
  BY InitTInv, InitLedger
<1>2. TInv /\ EntryIsKept /\ [Next]_vars =>
        TInv' /\ EntryIsKept' /\ [Ledger!Next]_(Ledger!vars)
  BY StepTInv, StepLedger
<1> QED
  BY <1>1, <1>2, PTL DEF Spec, LedgerSpec, Ledger!Spec

-----------------------------------------------------------------------------
(* Funding, when the record is not edited either: a flat bot has none.     *)

FundingInv == FundingIsExact /\ (~InPos(rec) => rec.funding = 0)

LEMMA StepFunding ==
  ASSUME "diagnostic" \notin Faults, "edit" \notin Faults, MaxFails < LogCap,
         TInv, EntryIsKept, FundingInv, [Next]_vars
  PROVE  FundingInv'
<1>1. CASE TickRecords
  <2>1. /\ rec'.funding = IF ev.kind = "exit" /\ act # "skipped" THEN 0 ELSE rec.funding
        /\ ev.kind \in {"entry", "exit"}
    BY <1>1, RecordsFacts
  <2>2. accrued' = IF ev.kind = "entry" /\ act # "skipped" THEN 0 ELSE accrued
    BY <1>1 DEF TickRecords
  <2>3. CASE ev.kind = "entry" /\ act # "skipped"
    <3>1. rec.funding = 0 /\ rec'.funding = rec.funding /\ accrued' = 0
      BY <1>1, <2>1, <2>2, <2>3, RecordsLedger DEF FundingInv
    <3> QED
      BY <3>1 DEF FundingInv, FundingIsExact
  <2>4. CASE ev.kind = "exit" /\ act # "skipped"
    <3>1. rec'.funding = 0 /\ ~InPos(rec)'
      BY <1>1, <2>1, <2>4, RecordsLedger DEF InPos
    <3> QED
      BY <3>1 DEF FundingInv, FundingIsExact
  <2>5. CASE act = "skipped"
    <3>1. (InPos(rec)' <=> InPos(rec)) /\ rec'.funding = rec.funding /\ accrued' = accrued
      BY <1>1, <2>1, <2>2, <2>5, RecordsLedger DEF InPos
    <3> QED
      BY <3>1 DEF FundingInv, FundingIsExact
  <2> QED
    BY <2>1, <2>3, <2>4, <2>5
<1>2. CASE FundingReturns
  <2>1. PICK delta \in {0, 1} :
          rec' = [rec EXCEPT !.funding = @ + delta] /\ accrued' = accrued + delta
    BY <1>2 DEF FundingReturns
  <2>2. rec \in Rec /\ InPos(rec)
    BY <1>2 DEF TInv, TypeOK, RecordOK, Rec, FundingIsOpen, FundingReturns
  <2>3. rec'.funding = rec.funding + delta /\ rec'.log = rec.log
    BY <2>1, <2>2 DEF Rec
  <2>4. InPos(rec')
    BY <2>2, <2>3, InPosOfLog
  <2>5. InPos(rec)'
    BY <2>4 DEF InPos
  <2>6. rec'.funding = accrued'
    BY <2>1, <2>2, <2>3 DEF FundingInv, FundingIsExact
  <2> QED
    BY <2>5, <2>6 DEF FundingInv, FundingIsExact
<1>3. CASE ~TickRecords /\ ~FundingReturns
  <2>1. ~TickDiagnoses /\ ~FetchFails /\ ~UpdateBot
    BY DEF TickDiagnoses, FetchFails, UpdateBot, Fault
  <2>2. rec' = rec /\ accrued' = accrued
    BY <1>3, <2>1
    DEF Next, Tick, TickStarts, FetchEmpty, FetchReturnsFlat, FetchReturnsOpen, EntryAnswered,
        ExitAnswered, Answer, TickAborts, NewBar, RestingFills, vars, ledger
  <2> QED
    BY <2>2 DEF FundingInv, FundingIsExact, InPos
<1> QED
  BY <1>1, <1>2, <1>3

(* A closed trade is charged the funding of its own position: nothing      *)
(* leaks from an earlier one, and no failed exit forgets any of it (F5).   *)
THEOREM FundingIsCharged ==
  ASSUME "diagnostic" \notin Faults, "edit" \notin Faults, MaxFails < LogCap
  PROVE  Spec => []FundingIsExact
<1>1. Init => TInv /\ EntryIsKept /\ FundingInv
  BY InitTInv, InitLedger DEF FundingInv, FundingIsExact
<1>2. TInv /\ EntryIsKept /\ FundingInv /\ [Next]_vars => TInv' /\ EntryIsKept' /\ FundingInv'
  BY StepTInv, StepLedger, StepFunding
<1>3. FundingInv => FundingIsExact
  BY DEF FundingInv
<1> QED
  BY <1>1, <1>2, <1>3, PTL DEF Spec

-----------------------------------------------------------------------------
(* The account.  NoBlindEntry relates the log to an account the bot never  *)
(* reads before an entry.  Its invariant follows an order from the answer  *)
(* to the record that tells of it (Owed), and the mode, since a bot in     *)
(* shadow mode has a log of trades but no account.                         *)

ModeIsKept == pc # "idle" => snap.live = rec.live

ModeOfTick ==
  /\ ~rec.live => pos = 0 /\ rest = 0
  /\ pc = "order" => rec.live
  /\ pc = "record" /\ act = "shadow" => ~rec.live

(* No entry rests on the book beside a position.                           *)
OneLot == pos = 0 \/ rest = 0

(* An answered exit left nothing, and no exit rests on the book.           *)
ExitLeftNothing ==
  pc = "record" /\ ev.kind = "exit" =>
    act # "error" /\ (act = "placed" => pos = 0 /\ rest = 0)

(* A position the log knows nothing of is that of the order just answered. *)
Owed == ~InPos(rec) /\ (pc = "record" => act = "skipped") => pos = 0 /\ rest = 0

AccountInv == ModeIsKept /\ ModeOfTick /\ OneLot /\ ExitLeftNothing /\ Owed

LEMMA InitAccount == Init => AccountInv
<1> SUFFICES ASSUME Init PROVE AccountInv
  OBVIOUS
<1>1. pos = 0 /\ rest = 0 /\ pc = "idle"
  BY DEF Init
<1> QED
  BY <1>1 DEF AccountInv, ModeIsKept, ModeOfTick, OneLot, ExitLeftNothing, Owed

(* The steps that touch neither the account, nor the log, nor the mode, and*)
(* leave the tick where nothing is answered yet.                           *)
LEMMA QuietKeepsAccount ==
  ASSUME AccountInv, UNCHANGED account, InPos(rec)' <=> InPos(rec),
         rec.live \in BOOLEAN, rec'.live = rec.live, pc # "record",
         \/ pc' = "idle"
         \/ pc' \in {"fetch", "funding"} /\ snap'.live = rec'.live
         \/ pc' = "order" /\ rec.live /\ snap'.live = rec'.live
         \/ pc' = "record" /\ ~rec.live /\ snap'.live = rec'.live /\ act' = "shadow"
  PROVE  AccountInv'
<1>1. pos' = pos /\ rest' = rest
  BY DEF account
<1>2. ModeIsKept' /\ OneLot'
  BY <1>1 DEF AccountInv, ModeIsKept, OneLot
<1>3. ModeOfTick'
  BY <1>1 DEF AccountInv, ModeOfTick
<1>4. ExitLeftNothing' /\ Owed'
  BY <1>1 DEF AccountInv, ExitLeftNothing, Owed
<1> QED
  BY <1>2, <1>3, <1>4 DEF AccountInv

(* The tick that knows its event orders when the bot is live, and only     *)
(* records otherwise.                                                      *)
LEMMA RouteKeepsAccount ==
  ASSUME AccountInv, NEW e, Route(e), UNCHANGED account, InPos(rec)' <=> InPos(rec),
         rec.live \in BOOLEAN, rec'.live = rec.live, pc \in {"fetch", "funding"}
  PROVE  AccountInv'
<1>1. snap.live = rec.live
  BY DEF AccountInv, ModeIsKept
<1>2. CASE TickReturns
  BY <1>2, QuietKeepsAccount DEF TickReturns
<1>3. CASE /\ pc' = IF snap.live THEN "order" ELSE "record"
           /\ act' = "shadow" /\ snap' = snap
  <2>1. CASE rec.live
    BY <1>1, <1>3, <2>1, QuietKeepsAccount
  <2>2. CASE ~rec.live
    BY <1>1, <1>3, <2>2, QuietKeepsAccount
  <2> QED
    BY <2>1, <2>2
<1> QED
  BY <1>2, <1>3 DEF Route

(* The steps before an order is sent, and the market's.                    *)
LEMMA BeforeKeepsAccount ==
  ASSUME TInv, AccountInv,
         \/ TickStarts \/ FetchEmpty \/ FetchReturnsFlat \/ FetchReturnsOpen
         \/ FundingReturns
  PROVE  AccountInv'
<1>1. rec \in Rec /\ rec.live \in BOOLEAN
  BY DEF TInv, TypeOK, RecordOK, Rec
<1>2. CASE TickStarts \/ FetchEmpty \/ FetchReturnsOpen
  <2>1. rec' = rec /\ UNCHANGED account /\ pc # "record" /\ (pc # "idle" => snap.live = rec.live)
    BY <1>2 DEF TickStarts, FetchEmpty, FetchReturnsOpen, ledger, AccountInv, ModeIsKept
  <2>2. InPos(rec)' <=> InPos(rec)
    BY <2>1 DEF InPos
  <2>3. pc' = "idle" \/ (pc' \in {"fetch", "funding"} /\ snap'.live = rec'.live)
    BY <1>2, <2>1 DEF TickStarts, FetchEmpty, FetchReturnsOpen, TickReturns
  <2> QED
    BY <1>1, <2>1, <2>2, <2>3, QuietKeepsAccount
<1>3. CASE FetchReturnsFlat
  <2>1. /\ rec' = rec /\ UNCHANGED account /\ pc = "fetch"
        /\ Route(EventAt("entry"))
    BY <1>3 DEF FetchReturnsFlat, ledger
  <2>2. InPos(rec)' <=> InPos(rec)
    BY <2>1 DEF InPos
  <2> QED
    BY <1>1, <2>1, <2>2, RouteKeepsAccount
<1>4. CASE FundingReturns
  <2>1. /\ UNCHANGED account /\ pc = "funding" /\ Route(ev)
        /\ \E delta \in {0, 1} : rec' = [rec EXCEPT !.funding = @ + delta]
    BY <1>4 DEF FundingReturns
  <2>2. rec'.live = rec.live /\ rec'.log = rec.log
    BY <1>1, <2>1 DEF Rec
  <2>3. InPos(rec') <=> InPos(rec)
    BY <2>2, InPosOfLog
  <2>4. InPos(rec)' <=> InPos(rec)
    BY <2>3 DEF InPos
  <2> QED
    BY <1>1, <2>1, <2>2, <2>4, RouteKeepsAccount
<1> QED
  BY <1>2, <1>3, <1>4

(* An answer: an entry meets an empty account, an exit leaves one or fails.*)
LEMMA AnswerKeepsAccount ==
  ASSUME Faults = {}, TInv, AccountInv, EntryAnswered \/ ExitAnswered
  PROVE  AccountInv'
<1>1. /\ pos \in Nat /\ rest \in Nat /\ rec.live \in BOOLEAN
      /\ ev.kind \in {"entry", "exit"}
      /\ ev.kind = "entry" => ~InPos(rec)
      /\ ev.kind = "exit" => InPos(rec)
      /\ pc = "order"
  BY DEF TInv, TypeOK, RecordOK, Event, Pending, EntryAnswered, ExitAnswered
<1>2. PICK p, r, o : Answer(p, r, o) /\
        \/ ev.kind = "entry" /\ o = "placed" /\ p \in {pos + Lot, pos + 1} /\ r = rest
        \/ ev.kind = "entry" /\ o = "error" /\ p = pos /\ r = rest + Lot
        \/ ev.kind = "exit" /\ o = "placed" /\ pos > 0 /\ p = 0 /\ r = rest
        \/ o = "skipped" /\ p = pos /\ r = rest
  BY DEF EntryAnswered, ExitAnswered, Fault
<1>3. /\ pos' = p /\ rest' = r /\ act' = o /\ pc' = "record"
      /\ rec' = rec /\ snap' = snap /\ ev' = ev
  BY <1>2 DEF Answer, ledger
<1>4. snap.live = rec.live /\ rec.live /\ OneLot
  BY <1>1 DEF AccountInv, ModeIsKept, ModeOfTick
<1>5. ev.kind = "entry" => pos = 0 /\ rest = 0
  BY <1>1 DEF AccountInv, Owed
<1>6. ModeIsKept' /\ ModeOfTick'
  BY <1>2, <1>3, <1>4 DEF ModeIsKept, ModeOfTick
<1>7. OneLot'
  BY <1>1, <1>2, <1>3, <1>4, <1>5 DEF OneLot, Lot
<1>8. ExitLeftNothing'
  BY <1>1, <1>2, <1>3, <1>4 DEF ExitLeftNothing, OneLot
<1>9. InPos(rec)' <=> InPos(rec)
  BY <1>3 DEF InPos
<1>10. Owed'
  <2> SUFFICES ASSUME ~InPos(rec)', act' = "skipped" PROVE pos' = 0 /\ rest' = 0
    BY <1>3 DEF Owed
  <2>1. ev.kind = "entry" /\ o = "skipped" /\ p = pos /\ r = rest
    BY <1>1, <1>2, <1>3, <1>9
  <2> QED
    BY <1>3, <1>5, <2>1
<1> QED
  BY <1>6, <1>7, <1>8, <1>10 DEF AccountInv

(* The record says what the account has: an entry that was placed or hangs *)
(* is a position, an exit that was placed ended it, a refusal changes      *)
(* neither.                                                                *)
LEMMA RecordKeepsAccount ==
  ASSUME MaxFails < LogCap, TInv, EntryIsKept, AccountInv, TickRecords
  PROVE  AccountInv'
<1>1. /\ pc = "record" /\ TickReturns /\ pos' = pos /\ rest' = rest
  BY DEF TickRecords, account
<1>2. rec'.live = rec.live
  <2> DEFINE s == [kind |-> ev.kind, act |-> act, bar |-> ev.bar]
             q == AppendSignal(rec, s)
  <2>1. s \in Signal
    BY DEF TInv, TypeOK, Event, Pending, TickRecords, Signal
  <2>2. rec \in Rec /\ Len(rec.log) <= LogCap
    BY DEF TInv, TypeOK, RecordOK, Rec
  <2>3. rec' = [q EXCEPT !.funding = IF ev.kind = "exit" /\ act # "skipped" THEN 0 ELSE @]
    BY DEF TickRecords
  <2> HIDE DEF s
  <2>4. q \in Rec /\ q.live = rec.live
    BY <2>1, <2>2, AppendSignalFacts
  <2> HIDE DEF q
  <2> QED
    BY <2>3, <2>4 DEF Rec
<1>3. /\ ev.kind \in {"entry", "exit"} /\ act \in {"shadow", "placed", "error", "skipped"}
      /\ ev.kind = "entry" => ~InPos(rec)
  BY <1>1 DEF TInv, TypeOK, Event, Pending
<1>4. \/ InPos(rec)'
      \/ ev.kind = "exit" /\ act # "skipped"
      \/ act = "skipped" /\ ~InPos(rec)
  <2>1. \/ InPos(rec')
        \/ ev.kind = "exit" /\ act # "skipped"
        \/ act = "skipped" /\ ~InPos(rec)
    BY RecordsLedger
  <2> QED
    BY <2>1 DEF InPos
<1>5. ModeIsKept' /\ ModeOfTick' /\ OneLot' /\ ExitLeftNothing'
  BY <1>1, <1>2 DEF AccountInv, ModeIsKept, ModeOfTick, OneLot, ExitLeftNothing, TickReturns
<1>6. Owed'
  <2> SUFFICES ASSUME ~InPos(rec)' PROVE pos = 0 /\ rest = 0
    BY <1>1 DEF Owed
  <2>1. CASE ev.kind = "exit" /\ act # "skipped"
    BY <1>1, <1>3, <2>1 DEF AccountInv, ExitLeftNothing, ModeOfTick
  <2>2. CASE act = "skipped" /\ ~InPos(rec)
    BY <2>2 DEF AccountInv, Owed
  <2> QED
    BY <1>4, <2>1, <2>2
<1> QED
  BY <1>5, <1>6 DEF AccountInv

LEMMA StepAccount ==
  ASSUME Faults = {}, MaxFails < LogCap, TInv, EntryIsKept, AccountInv, [Next]_vars
  PROVE  AccountInv'
<1>1. CASE TickStarts \/ FetchEmpty \/ FetchReturnsFlat \/ FetchReturnsOpen \/ FundingReturns
  BY <1>1, BeforeKeepsAccount
<1>2. CASE EntryAnswered \/ ExitAnswered
  BY <1>2, AnswerKeepsAccount
<1>3. CASE TickRecords
  BY <1>3, RecordKeepsAccount
<1>4. CASE NewBar \/ UNCHANGED vars
  <2>1. UNCHANGED <<pos, rest, rec, snap, pc, ev, act>>
    BY <1>4 DEF NewBar, vars, account, ledger
  <2> QED
    BY <2>1 DEF AccountInv, ModeIsKept, ModeOfTick, OneLot, ExitLeftNothing, Owed, InPos
<1>5. CASE RestingFills
  <2>1. /\ UNCHANGED <<rec, snap, pc, ev, act>>
        /\ rest > 0 /\ rest' = 0 /\ rest \in Nat
    BY <1>5 DEF RestingFills, ledger, TInv, TypeOK
  <2>2. rest # 0
    BY <2>1
  <2> QED
    BY <2>1, <2>2 DEF AccountInv, ModeIsKept, ModeOfTick, OneLot, ExitLeftNothing, Owed, InPos
<1>6. ~TickDiagnoses /\ ~FetchFails /\ ~TickAborts /\ ~UpdateBot
  BY DEF TickDiagnoses, FetchFails, TickAborts, UpdateBot, Fault
<1> QED
  BY <1>1, <1>2, <1>3, <1>4, <1>5, <1>6 DEF Next, Tick

(* No entry is sent on top of a position or of an order that may still     *)
(* fill, if nothing of AllFaults happens and fewer exits fail in a row     *)
(* than the log holds signals.  The account is not read before an entry:   *)
(* it is the log alone that keeps execute_signal from doubling a position. *)
(* (TLC: each of the six faults alone breaks it.)                          *)
THEOREM EntriesMeetAnEmptyAccount ==
  ASSUME Faults = {}, MaxFails < LogCap
  PROVE  Spec => []NoBlindEntry
<1>1. Init => TInv /\ EntryIsKept /\ AccountInv
  BY InitTInv, InitLedger, InitAccount
<1>2. TInv /\ EntryIsKept /\ AccountInv /\ [Next]_vars => TInv' /\ EntryIsKept' /\ AccountInv'
  BY StepTInv, StepLedger, StepAccount
<1>3. TInv /\ AccountInv => NoBlindEntry
  BY DEF TInv, Pending, AccountInv, Owed, NoBlindEntry
<1> QED
  BY <1>1, <1>2, <1>3, PTL DEF Spec

=============================================================================
