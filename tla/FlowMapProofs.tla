----------------------------- MODULE FlowMapProofs -----------------------------
(***************************************************************************)
(* FeedsAreHeld and FeedLimit of FlowHub, for any number of panes, streams *)
(* and connections, any limit and any network.                             *)
(*                                                                         *)
(* That a session without clients is always someone's boot needs to know   *)
(* who holds the create lock (Boots), that clients attach to sessions      *)
(* which have booted only (Handlers), and that the registry names a        *)
(* session under its own key (Indexed); the limit is the size of the       *)
(* registry, for a session that is not stopped is in it.                   *)
(***************************************************************************)
EXTENDS FlowMap, FiniteSetTheorems, TLAPS

Session == [key: Keys, state: {"booting", "live", "crashed", "stopped"},
            columns: Seq(Nat), epoch: Nat]
Handler == [pc: {"absent", "idle", "wait", "boot", "gone"}, session: Nat,
            key: Keys \cup {None}, found: {"working", "crashed"}]
Request == {m \in [kind: {"subscribe", "unsubscribe"}, key: Keys \cup {None}] :
              m.kind = "subscribe" => m.key \in Keys}

Shape ==
  /\ sessions \in Seq(Session)
  /\ registry \in [Keys -> Nat]
  /\ lock \in Conns \cup {None}
  /\ handler \in [Conns -> Handler]
  /\ up \in [Conns -> Seq(Request)]
  /\ wire \in [Conns -> {"unused", "opening", "open", "cut"}]

\* What a pane may ask for
Wishes ==
  /\ view = [p \in Panes |-> view[p]]
  /\ \A p \in Panes :
       /\ {"desired", "socket"} \subseteq DOMAIN view[p]
       /\ view[p].desired \in Keys \cup {None}
       /\ view[p].socket \in Conns \cup {None}

Handlers ==
  \A c \in Conns :
    /\ handler[c].session # None =>
         /\ handler[c].pc = "idle" /\ handler[c].session \in Started
         /\ sessions[handler[c].session].state # "booting"
    /\ handler[c].pc \in {"wait", "boot"} => handler[c].key \in Keys
    /\ wire[c] \in {"unused", "opening"} => handler[c].pc = "absent"

Boots ==
  /\ \A c \in Conns : handler[c].pc = "boot" => lock = c
  /\ lock # None =>
       /\ handler[lock].pc = "boot"
       /\ registry[handler[lock].key] \in Started
       /\ sessions[registry[handler[lock].key]].state = "booting"

Indexed ==
  \A k \in Keys : registry[k] # None =>
    registry[k] \in Started /\ sessions[registry[k]].key = k

FewFeeds == Cardinality(Registered) <= MaxSessions

HubInv == Shape /\ Handlers /\ Boots /\ Indexed /\ FeedsAreHeld /\ FewFeeds
Inv == HubInv /\ Wishes

LEMMA SessionIsOne ==
  ASSUME Shape, NEW s \in Started
  PROVE s \in 1 .. Len(sessions) /\ sessions[s] \in Session /\ s # None
<1>1. s \in 1 .. Len(sessions) /\ sessions[s] \in Session
  BY DEF Shape, Started
<1> QED BY <1>1 DEF None, Shape

LEMMA RegisteredFinite ==
  ASSUME Shape, Indexed PROVE IsFiniteSet(Registered)
<1>1. Registered \subseteq 1 .. Len(sessions)
  BY DEF Registered, Indexed, Started, Shape
<1>2. IsFiniteSet(1 .. Len(sessions))
  BY FS_Interval DEF Shape
<1> QED BY <1>1, <1>2, FS_Subset

LEMMA FewerFeeds ==
  ASSUME Shape, Indexed, FewFeeds, Registered' \subseteq Registered
  PROVE FewFeeds'
<1>1. Cardinality(Registered') <= Cardinality(Registered)
  BY RegisteredFinite, FS_Subset
<1>2. IsFiniteSet(Registered) /\ IsFiniteSet(Registered')
  BY RegisteredFinite, FS_Subset
<1>3. Cardinality(Registered) \in Nat /\ Cardinality(Registered') \in Nat
  BY <1>2, FS_CardinalityType
<1> QED BY <1>1, <1>3, FlowAssumption DEF FewFeeds

LEMMA LimitFromFew == Shape /\ Indexed /\ FeedsAreHeld /\ FewFeeds => FeedLimit
<1> SUFFICES ASSUME Shape, Indexed, FeedsAreHeld, FewFeeds PROVE FeedLimit
  OBVIOUS
<1> DEFINE running == {s \in Started : sessions[s].state # "stopped"}
<1>1. running \subseteq Registered
  <2> SUFFICES ASSUME NEW s \in Started, sessions[s].state # "stopped"
               PROVE s \in Registered
    OBVIOUS
  <2>1. registry[sessions[s].key] = s
    BY DEF FeedsAreHeld, Held
  <2>2. sessions[s].key \in Keys /\ s # None
    BY SessionIsOne DEF Session
  <2> QED BY <2>1, <2>2 DEF Registered
<1>2. IsFiniteSet(Registered)
  BY RegisteredFinite
<1>3. Cardinality(running) <= Cardinality(Registered) /\ IsFiniteSet(running)
  BY <1>1, <1>2, FS_Subset
<1>4. Cardinality(running) \in Nat /\ Cardinality(Registered) \in Nat
  BY <1>2, <1>3, FS_CardinalityType
<1> QED BY <1>3, <1>4, FlowAssumption DEF FewFeeds, FeedLimit

LEMMA InitInv == Init => Inv
<1> SUFFICES ASSUME Init PROVE Inv
  OBVIOUS
<1> USE FlowAssumption DEF Init, HubInit, Blank, None
<1>1. Shape
  BY DEF Shape, Session, Handler, Request, Conns
<1>2. Handlers /\ Boots /\ Indexed /\ FeedsAreHeld
  BY DEF Handlers, Boots, Indexed, FeedsAreHeld, Started
<1>3. FewFeeds
  <2>1. Registered = {}
    BY DEF Registered
  <2> QED BY <2>1, FS_EmptySet DEF FewFeeds
<1>4. Wishes
  BY DEF Wishes, NewConnection
<1> QED BY <1>1, <1>2, <1>3, <1>4 DEF Inv, HubInv

\* A step of the network or of the panes leaves the feeds alone
LEMMA HubUntouched ==
  ASSUME HubInv, UNCHANGED hub, Shape', Handlers',
         \A c \in Conns : /\ handler'[c].session = handler[c].session
                          /\ handler'[c].key = handler[c].key
                          /\ handler[c].pc = "boot" <=> handler'[c].pc = "boot"
  PROVE HubInv'
<1>1. Boots' /\ Indexed'
  BY DEF HubInv, Boots, Indexed, Started, hub, Shape
<1>2. FewFeeds'
  BY DEF HubInv, FewFeeds, Registered, hub
<1>3. \A s : Attached(s)' = Attached(s)
  BY DEF Attached
<1>4. ASSUME NEW s \in Started PROVE Held(s)'
  <2>1. Held(s) /\ Registered' = Registered
    BY DEF HubInv, FeedsAreHeld, Registered, hub
  <2>2. lock # None => /\ handler'[lock].pc = "boot" <=> handler[lock].pc = "boot"
                       /\ handler'[lock].key = handler[lock].key
    BY DEF HubInv, Shape
  <2> QED BY <1>3, <2>1, <2>2 DEF Held, hub
<1>5. FeedsAreHeld'
  BY <1>4 DEF FeedsAreHeld, Started, hub
<1> QED BY <1>1, <1>2, <1>5 DEF HubInv

\* A step of a feed changes no more of the hub than its own columns, and its
\* state from live to crashed
LEMMA SessionsKeep ==
  ASSUME HubInv, UNCHANGED <<registry, lock, handler, up, wire>>,
         sessions' \in Seq(Session), Started' = Started,
         \A t \in Started :
           /\ sessions'[t].key = sessions[t].key
           /\ \/ sessions'[t].state = sessions[t].state
              \/ sessions[t].state = "live" /\ sessions'[t].state = "crashed"
  PROVE HubInv'
<1>1. Shape' /\ Boots' /\ Indexed'
  <2>1. Shape'
    BY DEF HubInv, Shape
  <2>2. Boots'
    BY DEF HubInv, Shape, Boots
  <2>3. Indexed'
    BY DEF HubInv, Shape, Indexed
  <2> QED BY <2>1, <2>2, <2>3
<1>5. Handlers'
  BY DEF HubInv, Handlers
<1>2. FewFeeds'
  BY DEF HubInv, FewFeeds, Registered
<1>3. \A t : Attached(t)' = Attached(t)
  BY DEF Attached
<1>4. ASSUME NEW s \in Started PROVE Held(s)'
  <2>1. Held(s) /\ Registered' = Registered
    BY DEF HubInv, FeedsAreHeld, Registered
  <2> QED BY <1>3, <2>1 DEF Held
<1> QED BY <1>1, <1>2, <1>4, <1>5 DEF HubInv, FeedsAreHeld

LEMMA BookKeeps ==
  ASSUME HubInv, NEW s \in Started, Book(s) PROVE HubInv'
<1>1. /\ s \in 1 .. Len(sessions) /\ sessions[s] \in Session
      /\ sessions[s].state = "live"
  BY DEF Book, HubInv, Shape, Started
<1>2. PICK n \in 0 .. 1, anchor \in 0 .. 1 :
        sessions' = [sessions EXCEPT
          ![s].columns = IF n = 1 THEN Append(@, sessions[s].epoch) ELSE @,
          ![s].epoch = @ + anchor]
  BY DEF Book
<1>3. /\ sessions' \in Seq(Session) /\ Started' = Started
      /\ \A t \in Started : /\ sessions'[t].key = sessions[t].key
                            /\ sessions'[t].state = sessions[t].state
  <2> DEFINE new == [sessions[s] EXCEPT
               !.columns = IF n = 1 THEN Append(@, sessions[s].epoch) ELSE @,
               !.epoch = @ + anchor]
  <2>1. new \in Session /\ new.key = sessions[s].key /\ new.state = sessions[s].state
    <3>1. (IF n = 1 THEN Append(sessions[s].columns, sessions[s].epoch)
                    ELSE sessions[s].columns) \in Seq(Nat)
      BY <1>1 DEF Session
    <3>2. sessions[s].epoch + anchor \in Nat
      BY <1>1 DEF Session
    <3> QED BY <1>1, <3>1, <3>2 DEF Session
  <2>2. sessions' = [sessions EXCEPT ![s] = new]
    BY <1>1, <1>2 DEF Session, HubInv, Shape
  <2> HIDE DEF new
  <2> QED BY <1>1, <2>1, <2>2 DEF HubInv, Shape, Started
<1>4. UNCHANGED <<registry, lock, handler, up, wire>>
  BY DEF Book
<1> QED BY <1>3, <1>4, SessionsKeep

LEMMA CrashKeeps ==
  ASSUME HubInv, NEW s \in Started, RunCrashes(s) PROVE HubInv'
<1>1. /\ sessions' = [sessions EXCEPT ![s].state = "crashed"]
      /\ sessions[s].state = "live"
      /\ UNCHANGED <<registry, lock, handler, up, wire>>
  BY DEF RunCrashes, Crashes
<1>2. s \in 1 .. Len(sessions) /\ sessions[s] \in Session
  BY SessionIsOne DEF HubInv
<1>3. /\ sessions' \in Seq(Session) /\ Started' = Started
      /\ \A t \in Started :
           /\ sessions'[t].key = sessions[t].key
           /\ \/ sessions'[t].state = sessions[t].state
              \/ sessions[t].state = "live" /\ sessions'[t].state = "crashed"
  <2> DEFINE new == [sessions[s] EXCEPT !.state = "crashed"]
  <2>1. new \in Session /\ new.key = sessions[s].key /\ new.state = "crashed"
    BY <1>2 DEF Session
  <2>2. sessions' = [sessions EXCEPT ![s] = new]
    BY <1>1, <1>2 DEF Session, HubInv, Shape
  <2>3. sessions \in Seq(Session)
    BY DEF HubInv, Shape
  <2> HIDE DEF new
  <2> QED BY <1>1, <1>2, <2>1, <2>2, <2>3 DEF Started
<1> QED BY <1>1, <1>3, SessionsKeep

\* A connection that has left its session is attached to nothing
LEMMA DetachKeeps ==
  ASSUME HubInv, NEW c \in Conns, Detach(c), handler[c].pc = "idle",
         UNCHANGED <<lock, wire>>, up' \in [Conns -> Seq(Request)],
         NEW h \in Handler, handler' = [handler EXCEPT ![c] = h],
         h.session = None, h.pc \in {"idle", "wait", "gone"},
         h.pc = "wait" => h.key \in Keys
  PROVE HubInv'
<1> DEFINE s == handler[c].session
           last == s # None /\ Attached(s) = {c}
<1>1. handler \in [Conns -> Handler] /\ sessions \in Seq(Session)
  BY DEF HubInv, Shape
<1>2. s # None => s \in Started /\ sessions[s].state # "booting"
  BY DEF HubInv, Handlers
<1>3. last => s \in 1 .. Len(sessions) /\ sessions[s] \in Session
  BY <1>2, SessionIsOne DEF HubInv
<1>4. /\ sessions' \in Seq(Session) /\ Started' = Started
      /\ \A t \in Started :
           /\ sessions'[t].key = sessions[t].key
           /\ sessions'[t].state =
                IF last /\ t = s THEN "stopped" ELSE sessions[t].state
  <2>1. CASE ~last
    <3>1. sessions' = sessions
      BY <2>1 DEF Detach
    <3> QED BY <1>1, <2>1, <3>1 DEF Started
  <2>2. CASE last
    <3> DEFINE new == [sessions[s] EXCEPT !.state = "stopped"]
    <3>1. new \in Session /\ new.key = sessions[s].key /\ new.state = "stopped"
      BY <1>3, <2>2 DEF Session
    <3>2. sessions' = [sessions EXCEPT ![s] = new]
      BY <1>1, <1>3, <2>2 DEF Session, Detach
    <3> HIDE DEF new
    <3> QED BY <1>1, <1>3, <2>2, <3>1, <3>2 DEF Started
  <2> QED BY <2>1, <2>2
<1>5. /\ registry' \in [Keys -> Nat]
      /\ \A k \in Keys :
           registry'[k] = IF last /\ registry[k] = s THEN None ELSE registry[k]
  BY DEF Detach, HubInv, Shape, None
<1>6. \A d \in Conns : handler'[d] = IF d = c THEN h ELSE handler[d]
  BY <1>1
<1>7. Shape'
  BY <1>1, <1>4, <1>5 DEF HubInv, Shape
<1>8. Indexed'
  BY <1>4, <1>5 DEF HubInv, Indexed
<1>9. Registered' \subseteq Registered
  BY <1>5 DEF Registered
<1>10. FewFeeds'
  BY <1>9, FewerFeeds DEF HubInv
<1>11. Handlers'
  <2>1. ASSUME NEW d \in Conns, d # c, handler[d].session # None
        PROVE sessions'[handler[d].session].state # "booting"
    BY <1>4, <2>1 DEF HubInv, Handlers
  <2> QED BY <1>4, <1>6, <2>1 DEF HubInv, Handlers
<1>12. Boots'
  <2>1. lock # None => lock # c /\ lock \in Conns
    BY DEF HubInv, Boots, Shape
  <2>2. ASSUME lock # None
        PROVE LET k == handler[lock].key
              IN /\ registry[k] \in Started /\ registry[k] # s
                 /\ sessions[registry[k]].state = "booting" /\ k \in Keys
    <3>1. handler[lock].pc = "boot" /\ lock \in Conns
      BY <2>1, <2>2 DEF HubInv, Boots
    <3>2. handler[lock].key \in Keys
      BY <3>1 DEF HubInv, Handlers
    <3>3. /\ registry[handler[lock].key] \in Started
          /\ sessions[registry[handler[lock].key]].state = "booting"
      BY <2>2 DEF HubInv, Boots
    <3>4. registry[handler[lock].key] # None
      BY <3>3, SessionIsOne DEF HubInv
    <3> QED BY <1>2, <3>2, <3>3, <3>4
  <2>3. ASSUME NEW d \in Conns, handler'[d].pc = "boot" PROVE lock = d
    BY <1>6, <2>3 DEF HubInv, Boots
  <2>4. ASSUME lock # None
        PROVE /\ handler'[lock].pc = "boot"
              /\ registry'[handler'[lock].key] \in Started'
              /\ sessions'[registry'[handler'[lock].key]].state = "booting"
    <3>1. handler'[lock] = handler[lock]
      BY <1>6, <2>1, <2>4
    <3>2. registry'[handler[lock].key] = registry[handler[lock].key]
      BY <1>5, <2>2, <2>4
    <3>3. handler[lock].pc = "boot"
      BY <2>4 DEF HubInv, Boots
    <3> QED BY <1>4, <2>2, <2>4, <3>1, <3>2, <3>3
  <2> QED BY <2>3, <2>4 DEF Boots
<1>13. ASSUME NEW t \in Started PROVE Held(t)'
  <2>1. Attached(t)' = Attached(t) \ {c}
    BY <1>6, SessionIsOne DEF Attached, HubInv
  <2>2. t # s => Attached(t)' = Attached(t)
    BY <2>1 DEF Attached
  <2>3. Held(t) /\ sessions[t].key \in Keys /\ t # None
    BY SessionIsOne DEF HubInv, FeedsAreHeld, Session
  <2>4. CASE last /\ t = s
    <3>1. t \notin Registered'
      BY <1>5, <2>3, <2>4 DEF Registered
    <3> QED BY <1>4, <2>1, <2>4, <3>1 DEF Held
  <2>5. CASE ~(last /\ t = s) /\ sessions[t].state = "stopped"
    <3>1. sessions'[t].state = "stopped"
      BY <1>4, <2>5
    <3> QED BY <1>9, <2>1, <2>3, <2>5, <3>1 DEF Held
  <2>6. CASE ~(last /\ t = s) /\ sessions[t].state # "stopped"
    <3>1. /\ sessions'[t].state = sessions[t].state
          /\ sessions'[t].key = sessions[t].key
      BY <1>4, <2>6
    <3>2. registry'[sessions[t].key] = t
      BY <1>5, <2>3, <2>6 DEF Held
    <3>3. CASE sessions[t].state # "booting" /\ Attached(t) # {}
      <4>1. Attached(t)' # {}
        BY <2>1, <2>2, <2>3, <2>6, <3>3 DEF Attached
      <4> QED BY <2>6, <3>1, <3>2, <3>3, <4>1 DEF Held
    <3>4. CASE /\ lock # None /\ handler[lock].pc = "boot"
               /\ handler[lock].key = sessions[t].key
      <4>1. lock # c /\ lock \in Conns
        BY <3>4 DEF HubInv, Shape
      <4>2. handler'[lock] = handler[lock]
        BY <1>6, <4>1
      <4> QED BY <2>6, <3>1, <3>2, <3>4, <4>2 DEF Held
    <3> QED BY <2>3, <2>6, <3>3, <3>4 DEF Held
  <2> QED BY <2>4, <2>5, <2>6
<1>14. FeedsAreHeld'
  BY <1>4, <1>13 DEF FeedsAreHeld
<1> QED BY <1>7, <1>8, <1>10, <1>11, <1>12, <1>14 DEF HubInv

LEMMA BlankIsHandler ==
  /\ [Blank EXCEPT !.pc = "idle"] \in Handler
  /\ [Blank EXCEPT !.pc = "gone"] \in Handler
  /\ \A k \in Keys \cup {None} : [Blank EXCEPT !.pc = "wait", !.key = k] \in Handler
BY DEF Blank, Handler, None

LEMMA UnsubscribeKeeps ==
  ASSUME HubInv, NEW c \in Conns, ReceiveUnsubscribe(c) PROVE HubInv'
<1> DEFINE h == [Blank EXCEPT !.pc = "idle"]
<1>1. up' \in [Conns -> Seq(Request)]
  BY DEF ReceiveUnsubscribe, Receives, HubInv, Shape
<1>2. h \in Handler /\ h.session = None /\ h.pc = "idle"
  BY BlankIsHandler DEF Blank
<1>3. /\ Detach(c) /\ UNCHANGED <<lock, wire>> /\ handler[c].pc = "idle"
      /\ handler' = [handler EXCEPT ![c] = h]
  BY DEF ReceiveUnsubscribe, Receives
<1> HIDE DEF h
<1> QED BY <1>1, <1>2, <1>3, DetachKeeps

LEMMA SubscribeKeeps ==
  ASSUME HubInv, NEW c \in Conns, ReceiveSubscribe(c) PROVE HubInv'
<1> DEFINE h == [Blank EXCEPT !.pc = "wait", !.key = Head(up[c]).key]
<1>1. /\ up' \in [Conns -> Seq(Request)]
      /\ Head(up[c]) \in Request /\ Head(up[c]).kind = "subscribe"
  BY DEF ReceiveSubscribe, Receives, HubInv, Shape
<1>2. Head(up[c]).key \in Keys
  BY <1>1 DEF Request
<1>3. h \in Handler /\ h.session = None /\ h.pc = "wait" /\ h.key \in Keys
  BY <1>2, BlankIsHandler DEF Blank
<1>4. /\ Detach(c) /\ UNCHANGED <<lock, wire>> /\ handler[c].pc = "idle"
      /\ handler' = [handler EXCEPT ![c] = h]
  BY DEF ReceiveSubscribe, Receives
<1> HIDE DEF h
<1> QED BY <1>1, <1>3, <1>4, DetachKeeps

LEMMA DisconnectKeeps ==
  ASSUME HubInv, NEW c \in Conns, Disconnected(c) PROVE HubInv'
<1> DEFINE h == [Blank EXCEPT !.pc = "gone"]
<1>1. up' \in [Conns -> Seq(Request)]
  BY DEF Disconnected, HubInv, Shape
<1>2. h \in Handler /\ h.session = None /\ h.pc = "gone"
  BY BlankIsHandler DEF Blank
<1>3. /\ Detach(c) /\ UNCHANGED <<lock, wire>> /\ handler[c].pc = "idle"
      /\ handler' = [handler EXCEPT ![c] = h]
  BY DEF Disconnected, Gone
<1> HIDE DEF h
<1> QED BY <1>1, <1>2, <1>3, DetachKeeps

LEMMA RefusedKeeps ==
  ASSUME HubInv, NEW c \in Conns, SubscribeRefused(c) PROVE HubInv'
<1> DEFINE h == [Blank EXCEPT !.pc = "gone"]
<1>1. h \in Handler /\ h.session = None /\ h.pc = "gone"
  BY BlankIsHandler DEF Blank
<1>2. /\ handler[c].pc = "wait" /\ lock = None /\ UNCHANGED <<hub, up>>
      /\ handler' = [handler EXCEPT ![c] = h]
      /\ wire' = [wire EXCEPT ![c] = "cut"]
  BY DEF SubscribeRefused, Turn, Gone
<1> HIDE DEF h
<1>3. \A d \in Conns : handler'[d] = IF d = c THEN h ELSE handler[d]
  BY <1>2 DEF HubInv, Shape
<1>4. handler[c].session = None
  BY <1>2 DEF HubInv, Handlers
<1>5. Shape'
  BY <1>1, <1>2 DEF HubInv, Shape, hub
<1>6. Handlers'
  <2>1. \A d \in Conns : wire'[d] = IF d = c THEN "cut" ELSE wire[d]
    BY <1>2 DEF HubInv, Shape
  <2>2. sessions' = sessions /\ Started' = Started
    BY <1>2 DEF hub, Started
  <2> QED BY <1>1, <1>3, <2>1, <2>2 DEF HubInv, Handlers
<1>7. Boots' /\ Indexed'
  BY <1>1, <1>2, <1>3 DEF HubInv, Boots, Indexed, hub, Started
<1>8. FewFeeds'
  BY <1>2 DEF HubInv, FewFeeds, Registered, hub
<1>9. ASSUME NEW t \in Started PROVE Held(t)'
  <2>1. Attached(t)' = Attached(t)
    BY <1>1, <1>3, <1>4, SessionIsOne DEF Attached, HubInv
  <2>2. Held(t) /\ Registered' = Registered
    BY <1>2 DEF HubInv, FeedsAreHeld, Registered, hub
  <2> QED BY <1>2, <2>1, <2>2 DEF Held, hub
<1> QED BY <1>2, <1>5, <1>6, <1>7, <1>8, <1>9 DEF HubInv, FeedsAreHeld, Started, hub

LEMMA JoinsKeeps ==
  ASSUME HubInv, NEW c \in Conns, SubscribeJoins(c) PROVE HubInv'
<1> DEFINE s == registry[handler[c].key]
           h == [pc |-> "idle", session |-> s, key |-> None,
                 found |-> IF sessions[s].state = "crashed" THEN "crashed"
                                                           ELSE "working"]
<1>1. /\ handler[c].pc = "wait" /\ lock = None /\ s # None
      /\ handler' = [handler EXCEPT ![c] = h] /\ UNCHANGED <<hub, up, wire>>
  BY DEF SubscribeJoins, Turn, AttachTo
<1>2. handler[c].key \in Keys /\ handler[c].session = None
  BY <1>1 DEF HubInv, Handlers
<1>3. s \in Started /\ s \in Nat /\ s \in Registered
  BY <1>1, <1>2 DEF HubInv, Indexed, Registered, Shape
<1>4. Held(s) /\ sessions[s].state # "stopped"
  BY <1>3 DEF HubInv, FeedsAreHeld, Held
<1>5. sessions[s].state # "booting"
  BY <1>1, <1>4 DEF Held
<1>6. h \in Handler /\ h.session = s /\ h.pc = "idle"
  BY <1>3 DEF Handler
<1> HIDE DEF h
<1>7. \A d \in Conns : handler'[d] = IF d = c THEN h ELSE handler[d]
  BY <1>1 DEF HubInv, Shape
<1>8. Shape'
  BY <1>1, <1>6 DEF HubInv, Shape, hub
<1>9. sessions' = sessions /\ Started' = Started /\ registry' = registry
      /\ lock' = lock /\ wire' = wire /\ Registered' = Registered
  BY <1>1 DEF hub, Started, Registered
<1>10. wire[c] \notin {"unused", "opening"}
  BY <1>1 DEF HubInv, Handlers
<1>11. Handlers'
  BY <1>3, <1>5, <1>6, <1>7, <1>9, <1>10 DEF HubInv, Handlers
<1>12. Boots' /\ Indexed' /\ FewFeeds'
  BY <1>1, <1>6, <1>7, <1>9 DEF HubInv, Boots, Indexed, FewFeeds
<1>13. ASSUME NEW t \in Started PROVE Held(t)'
  <2>1. Held(t)
    BY DEF HubInv, FeedsAreHeld
  <2>2. Attached(t)' = IF t = s THEN Attached(t) \cup {c} ELSE Attached(t)
    BY <1>2, <1>6, <1>7, SessionIsOne DEF Attached, HubInv
  <2> QED BY <1>1, <1>4, <1>9, <2>1, <2>2 DEF Held
<1> QED BY <1>8, <1>9, <1>11, <1>12, <1>13 DEF HubInv, FeedsAreHeld

LEMMA BootsKeeps ==
  ASSUME HubInv, NEW c \in Conns, SubscribeBoots(c) PROVE HubInv'
<1> DEFINE k == handler[c].key
           n == Len(sessions) + 1
           new == [key |-> k, state |-> "booting", columns |-> <<>>, epoch |-> 0]
           h == [handler[c] EXCEPT !.pc = "boot"]
<1>1. /\ handler[c].pc = "wait" /\ lock = None /\ registry[k] = None
      /\ sessions' = Append(sessions, new) /\ lock' = c
      /\ registry' = [registry EXCEPT ![k] = n]
      /\ handler' = [handler EXCEPT ![c].pc = "boot"]
      /\ UNCHANGED <<up, wire>>
      /\ Cardinality(Registered) < MaxSessions
  BY DEF SubscribeBoots, Turn
<1>2. handler \in [Conns -> Handler] /\ sessions \in Seq(Session)
      /\ registry \in [Keys -> Nat]
  BY DEF HubInv, Shape
<1>3. k \in Keys /\ handler[c].session = None
      /\ wire[c] \notin {"unused", "opening"}
  BY <1>1 DEF HubInv, Handlers
<1>4. new \in Session /\ new.key = k /\ new.state = "booting"
  BY <1>3 DEF Session
<1>5. /\ h \in Handler /\ h.session = None /\ h.pc = "boot" /\ h.key = k
      /\ handler' = [handler EXCEPT ![c] = h]
  BY <1>1, <1>2, <1>3 DEF Handler
<1>6. n \in Nat /\ n # None /\ n \notin Started
  BY <1>2 DEF None, Started
<1> HIDE DEF new, h
<1>7. /\ sessions' \in Seq(Session) /\ Started' = Started \cup {n}
      /\ sessions'[n] = new /\ \A t \in Started : sessions'[t] = sessions[t]
  BY <1>1, <1>2, <1>4 DEF Started
<1>8. \A d \in Conns : handler'[d] = IF d = c THEN h ELSE handler[d]
  BY <1>2, <1>5
<1>9. \A j \in Keys : registry'[j] = IF j = k THEN n ELSE registry[j]
  BY <1>1, <1>2
<1>10. Shape'
  BY <1>1, <1>2, <1>5, <1>6, <1>7 DEF HubInv, Shape
<1>11. Handlers'
  <2>1. ASSUME NEW d \in Conns, d # c, handler[d].session # None
        PROVE /\ handler[d].pc = "idle" /\ handler[d].session \in Started'
              /\ sessions'[handler[d].session].state # "booting"
    BY <1>7, <2>1 DEF HubInv, Handlers
  <2>2. ASSUME NEW d \in Conns
        PROVE /\ handler'[d].pc \in {"wait", "boot"} => handler'[d].key \in Keys
              /\ wire'[d] \in {"unused", "opening"} => handler'[d].pc = "absent"
    BY <1>1, <1>3, <1>5, <1>8 DEF HubInv, Handlers
  <2> QED BY <1>5, <1>8, <2>1, <2>2 DEF Handlers
<1>12. Boots'
  <2>1. \A d \in Conns : handler[d].pc # "boot"
    BY <1>1 DEF HubInv, Boots, Conns, None
  <2> QED BY <1>1, <1>3, <1>4, <1>5, <1>7, <1>8, <1>9, <2>1 DEF Boots
<1>13. Indexed'
  BY <1>4, <1>7, <1>9 DEF HubInv, Indexed
<1>14. FewFeeds'
  <2>1. Registered' \subseteq Registered \cup {n}
    BY <1>9 DEF Registered
  <2>2. IsFiniteSet(Registered)
    BY RegisteredFinite DEF HubInv
  <2>3. /\ IsFiniteSet(Registered \cup {n})
        /\ Cardinality(Registered \cup {n}) =
             IF n \in Registered THEN Cardinality(Registered)
                                 ELSE Cardinality(Registered) + 1
    BY <2>2, FS_AddElement
  <2>4. /\ Cardinality(Registered') <= Cardinality(Registered \cup {n})
        /\ IsFiniteSet(Registered')
    BY <2>1, <2>3, FS_Subset
  <2>5. Cardinality(Registered) \in Nat /\ Cardinality(Registered') \in Nat
    BY <2>2, <2>4, FS_CardinalityType
  <2> QED BY <1>1, <2>3, <2>4, <2>5, FlowAssumption DEF FewFeeds
<1>15. ASSUME NEW t \in Started PROVE Held(t)'
  <2>1. Held(t) /\ sessions[t].key \in Keys /\ t # None
    BY SessionIsOne DEF HubInv, FeedsAreHeld, Session
  <2>2. Attached(t)' = Attached(t)
    BY <1>3, <1>5, <1>8, <2>1 DEF Attached
  <2>3. t \in Registered' => t \in Registered
    BY <1>6, <1>9 DEF Registered
  <2>4. registry[sessions[t].key] = t => sessions[t].key # k
    BY <1>1, <2>1
  <2> QED BY <1>1, <1>7, <1>9, <2>1, <2>2, <2>3, <2>4 DEF Held
<1>16. ASSUME NEW t \in {n} PROVE Held(t)'
  <2>1. registry'[sessions'[t].key] = t /\ sessions'[t].state = "booting"
    BY <1>3, <1>4, <1>7, <1>9
  <2>2. c # None
    BY FlowAssumption DEF Conns, None
  <2>3. /\ lock' # None /\ handler'[lock'].pc = "boot"
        /\ handler'[lock'].key = sessions'[t].key
    BY <1>1, <1>4, <1>5, <1>7, <1>8, <2>2
  <2> QED BY <2>1, <2>3 DEF Held
<1>17. FeedsAreHeld'
  BY <1>7, <1>15, <1>16 DEF FeedsAreHeld
<1> QED BY <1>10, <1>11, <1>12, <1>13, <1>14, <1>17 DEF HubInv

LEMMA BootedKeeps ==
  ASSUME HubInv, NEW c \in Conns, SubscribeBooted(c) PROVE HubInv'
<1> DEFINE s == registry[handler[c].key]
           h == [pc |-> "idle", session |-> s, key |-> None,
                 found |-> IF sessions[s].state = "crashed" THEN "crashed"
                                                           ELSE "working"]
<1>1. PICK n \in {0, Backfill} :
        sessions' = [sessions EXCEPT ![s].state = "live",
                                     ![s].columns = [i \in 1 .. n |-> 0]]
  BY DEF SubscribeBooted
<1>2. /\ handler[c].pc = "boot" /\ lock' = None
      /\ handler' = [handler EXCEPT ![c] = h]
      /\ UNCHANGED <<registry, up, wire>>
  BY DEF SubscribeBooted, AttachTo
<1>3. handler \in [Conns -> Handler] /\ sessions \in Seq(Session)
      /\ registry \in [Keys -> Nat]
  BY DEF HubInv, Shape
<1>4. /\ lock = c /\ c # None /\ handler[c].key \in Keys
      /\ handler[c].session = None /\ wire[c] \notin {"unused", "opening"}
  <2>1. lock = c /\ handler[c].key \in Keys /\ handler[c].session = None
    BY <1>2 DEF HubInv, Boots, Handlers
  <2>2. wire[c] \notin {"unused", "opening"}
    BY <1>2 DEF HubInv, Handlers
  <2>3. c # None
    BY FlowAssumption DEF Conns, None
  <2> QED BY <2>1, <2>2, <2>3
<1>5. s \in Started /\ sessions[s].state = "booting"
  BY <1>4 DEF HubInv, Boots
<1>6. s \in 1 .. Len(sessions) /\ sessions[s] \in Session /\ s # None
      /\ s \in Nat
  BY <1>3, <1>5, SessionIsOne DEF HubInv
<1>7. /\ sessions' \in Seq(Session) /\ Started' = Started
      /\ \A t \in Started :
           /\ sessions'[t].key = sessions[t].key
           /\ sessions'[t].state = IF t = s THEN "live" ELSE sessions[t].state
  <2> DEFINE new == [sessions[s] EXCEPT !.state = "live",
                                        !.columns = [i \in 1 .. n |-> 0]]
  <2>1. new \in Session /\ new.key = sessions[s].key /\ new.state = "live"
    <3>1. [i \in 1 .. n |-> 0] \in Seq(Nat)
      BY FlowAssumption
    <3> QED BY <1>6, <3>1 DEF Session
  <2>2. sessions' = [sessions EXCEPT ![s] = new]
    BY <1>1, <1>3, <1>6 DEF Session
  <2> HIDE DEF new
  <2> QED BY <1>3, <1>6, <2>1, <2>2 DEF Started
<1>8. h \in Handler /\ h.session = s /\ h.pc = "idle"
  BY <1>6 DEF Handler
<1> HIDE DEF h
<1>9. \A d \in Conns : handler'[d] = IF d = c THEN h ELSE handler[d]
  BY <1>2, <1>3
<1>10. Shape'
  BY <1>2, <1>3, <1>7, <1>8 DEF HubInv, Shape
<1>11. Handlers'
  <2>1. ASSUME NEW d \in Conns, d # c, handler[d].session # None
        PROVE /\ handler[d].pc = "idle" /\ handler[d].session \in Started'
              /\ sessions'[handler[d].session].state # "booting"
    BY <1>7, <2>1 DEF HubInv, Handlers
  <2>2. ASSUME NEW d \in Conns
        PROVE /\ handler'[d].pc \in {"wait", "boot"} => handler'[d].key \in Keys
              /\ wire'[d] \in {"unused", "opening"} => handler'[d].pc = "absent"
    BY <1>2, <1>4, <1>8, <1>9 DEF HubInv, Handlers
  <2>3. s \in Started' /\ sessions'[s].state # "booting"
    BY <1>5, <1>7
  <2> QED BY <1>8, <1>9, <2>1, <2>2, <2>3 DEF Handlers
<1>12. Boots'
  <2>1. \A d \in Conns : d # c => handler[d].pc # "boot"
    BY <1>4 DEF HubInv, Boots
  <2> QED BY <1>2, <1>8, <1>9, <2>1 DEF Boots
<1>13. Registered' = Registered
  BY <1>2 DEF Registered
<1>14. Indexed' /\ FewFeeds'
  BY <1>2, <1>7, <1>13 DEF HubInv, Indexed, FewFeeds
<1>15. ASSUME NEW t \in Started PROVE Held(t)'
  <2>1. Held(t) /\ t # None
    BY SessionIsOne DEF HubInv, FeedsAreHeld
  <2>2. Attached(t)' = IF t = s THEN Attached(t) \cup {c} ELSE Attached(t)
    BY <1>4, <1>8, <1>9, <2>1 DEF Attached
  <2>3. CASE t = s
    BY <1>2, <1>5, <1>7, <2>1, <2>2, <2>3 DEF Held
  <2>4. CASE t # s /\ sessions[t].state = "stopped"
    BY <1>7, <1>13, <2>1, <2>2, <2>4 DEF Held
  <2>5. CASE t # s /\ sessions[t].state # "stopped"
    <3>1. registry[sessions[t].key] = t
      BY <2>1, <2>5 DEF Held
    <3>2. handler[c].key # sessions[t].key
      BY <2>5, <3>1
    <3>3. sessions[t].state # "booting" /\ Attached(t) # {}
      BY <1>4, <2>1, <2>5, <3>2 DEF Held
    <3> QED BY <1>2, <1>7, <2>2, <2>5, <3>1, <3>3 DEF Held
  <2> QED BY <2>3, <2>4, <2>5
<1> QED BY <1>7, <1>10, <1>11, <1>12, <1>14, <1>15 DEF HubInv, FeedsAreHeld

LEMMA HubStepKeeps == HubInv /\ HubNext => HubInv'
<1> SUFFICES ASSUME HubInv, HubNext PROVE HubInv'
  OBVIOUS
<1>1. ASSUME NEW c \in Conns, Handle(c) PROVE HubInv'
  BY <1>1, UnsubscribeKeeps, SubscribeKeeps, DisconnectKeeps, BootedKeeps DEF Handle
<1>2. ASSUME NEW c \in Conns, Subscribing(c) PROVE HubInv'
  BY <1>2, JoinsKeeps, BootsKeeps, RefusedKeeps DEF Subscribing
<1>3. ASSUME NEW s \in Started, Feed(s) PROVE HubInv'
  BY <1>3, BookKeeps, CrashKeeps DEF Feed
<1> QED BY <1>1, <1>2, <1>3 DEF HubNext

----------------------------------------------------------------------------
\* Steps of the panes and of the network

\* As HubUntouched, when no handler changes
LEMMA HandlersUntouched ==
  ASSUME HubInv, UNCHANGED <<hub, handler>>,
         up' \in [Conns -> Seq(Request)],
         wire' \in [Conns -> {"unused", "opening", "open", "cut"}],
         \A c \in Conns : wire'[c] \in {"unused", "opening"} =>
                            wire[c] \in {"unused", "opening"}
  PROVE HubInv'
<1>1. Shape'
  BY DEF HubInv, Shape, hub
<1>2. Handlers'
  BY DEF HubInv, Handlers, Started, hub
<1> QED BY <1>1, <1>2, HubUntouched

\* A pane whose view changes is one that still wishes for a stream or nothing
LEMMA WishesKeep ==
  ASSUME Wishes, NEW p \in Panes, NEW v, view' = [view EXCEPT ![p] = v],
         {"desired", "socket"} \subseteq DOMAIN v,
         v.desired \in Keys \cup {None}, v.socket \in Conns \cup {None}
  PROVE Wishes'
<1>1. \A q \in Panes : view'[q] = IF q = p THEN v ELSE view[q]
  BY DEF Wishes
<1>2. view' = [q \in Panes |-> view'[q]]
  BY DEF Wishes
<1> QED BY <1>1, <1>2 DEF Wishes

LEMMA SentAreRequests ==
  ASSUME NEW v, v.desired \in Keys \cup {None} PROVE Sent(v) \in Seq(Request)
<1>1. Message("unsubscribe", None) \in Request
  BY DEF Message, Request
<1>2. v.desired # None => Message("subscribe", v.desired) \in Request
  BY DEF Message, Request
<1> DEFINE a == Message("unsubscribe", None)
           b == Message("subscribe", v.desired)
<1>3. CASE v.active = v.desired \/ v.desired = None
  BY <1>3 DEF Sent
<1>4. CASE v.active # v.desired /\ v.desired # None
  <2>1. a \in Request /\ b \in Request
    BY <1>1, <1>2, <1>4
  <2>2. Sent(v) = (IF v.active = None THEN <<>> ELSE <<a>>) \o <<b>>
    BY <1>4 DEF Sent
  <2> HIDE DEF a, b
  <2> QED BY <2>1, <2>2
<1> QED BY <1>3, <1>4

LEMMA OpensKeeps ==
  ASSUME Inv, NEW p \in Panes, NEW v, Opens(p, v), UNCHANGED <<hub, handler, up>>,
         {"desired", "socket"} \subseteq DOMAIN v, v.desired \in Keys \cup {None}
  PROVE Inv'
<1>1. PICK c \in Conns :
        /\ IsNext(c) /\ wire' = [wire EXCEPT ![c] = "opening"]
        /\ view' = [view EXCEPT ![p] =
             [v EXCEPT !.socket = c, !.open = FALSE, !.timer = FALSE]]
  BY DEF Opens
<1> DEFINE w == [v EXCEPT !.socket = c, !.open = FALSE, !.timer = FALSE]
<1>2. /\ {"desired", "socket"} \subseteq DOMAIN w
      /\ w.desired = v.desired /\ w.socket = c
  OBVIOUS
<1> HIDE DEF w
<1>3. Wishes'
  BY <1>1, <1>2, WishesKeep DEF Inv
<1>4. wire[c] = "unused"
  BY <1>1 DEF IsNext, Unused
<1>5. HubInv'
  BY <1>1, <1>4, HandlersUntouched DEF Inv, HubInv, Shape
<1> QED BY <1>3, <1>5 DEF Inv

LEMMA PaneSubscribeKeeps ==
  ASSUME Inv, NEW p \in Panes, NEW k \in Keys, Subscribe(p, k) PROVE Inv'
<1> DEFINE v == view[p]
           base == IF v.desired = k THEN v ELSE Rewound(v)
           next == [base EXCEPT !.desired = k]
           sent == [next EXCEPT !.active = k]
<1>1. {"desired", "socket"} \subseteq DOMAIN v /\ v.socket \in Conns \cup {None}
  BY DEF Inv, Wishes
<1>2. /\ {"desired", "socket"} \subseteq DOMAIN base /\ base.socket = v.socket
  BY <1>1 DEF Rewound
<1> HIDE DEF base
<1>3. /\ {"desired", "socket"} \subseteq DOMAIN next
      /\ next.desired = k /\ next.socket = v.socket
  BY <1>2
<1> HIDE DEF next
<1>4. /\ {"desired", "socket"} \subseteq DOMAIN sent
      /\ sent.desired = k /\ sent.socket = v.socket
  BY <1>3
<1> HIDE DEF sent, v
<1>5. UNCHANGED <<hub, handler>>
  BY DEF Subscribe
<1>6. CASE /\ v.socket # None /\ view' = [view EXCEPT ![p] = sent]
           /\ up' = [up EXCEPT ![v.socket] = @ \o Sent(next)] /\ UNCHANGED wire
  <2>1. Sent(next) \in Seq(Request)
    BY <1>3, SentAreRequests
  <2>2. up' \in [Conns -> Seq(Request)]
    BY <1>1, <1>6, <2>1 DEF Inv, HubInv, Shape
  <2>3. HubInv'
    BY <1>5, <1>6, <2>2, HandlersUntouched DEF Inv, HubInv, Shape
  <2>4. Wishes'
    BY <1>1, <1>4, <1>6, WishesKeep DEF Inv
  <2> QED BY <2>3, <2>4 DEF Inv
<1>7. CASE view' = [view EXCEPT ![p] = next] /\ UNCHANGED <<up, wire>>
  <2>1. HubInv'
    BY <1>5, <1>7, HandlersUntouched DEF Inv, HubInv, Shape
  <2>2. Wishes'
    BY <1>1, <1>3, <1>7, WishesKeep DEF Inv
  <2> QED BY <2>1, <2>2 DEF Inv
<1>8. CASE Opens(p, next) /\ UNCHANGED up
  BY <1>3, <1>5, <1>8, OpensKeeps
<1> QED BY <1>6, <1>7, <1>8 DEF Subscribe, v, next, base, sent

LEMMA CloseKeeps ==
  ASSUME Inv, NEW p \in Panes, Close(p) PROVE Inv'
<1>1. /\ view' = [view EXCEPT ![p] = NewConnection]
      /\ wire' = [d \in Conns |-> IF d = view[p].socket THEN "cut" ELSE wire[d]]
      /\ UNCHANGED <<hub, handler, up>>
  BY DEF Close
<1>2. Wishes'
  BY <1>1, WishesKeep DEF Inv, NewConnection
<1>3. HubInv'
  BY <1>1, HandlersUntouched DEF Inv, HubInv, Shape
<1> QED BY <1>2, <1>3 DEF Inv

LEMMA SocketOpensKeeps ==
  ASSUME Inv, NEW p \in Panes, SocketOpens(p) PROVE Inv'
<1> DEFINE c == view[p].socket
           v == [view[p] EXCEPT !.open = TRUE, !.active = None]
           w == [v EXCEPT !.active = v.desired]
<1>1. /\ c # None /\ wire[c] = "opening" /\ wire' = [wire EXCEPT ![c] = "open"]
      /\ handler' = [handler EXCEPT ![c].pc = "idle"]
      /\ up' = [up EXCEPT ![c] = Sent(v)]
      /\ view' = [view EXCEPT ![p] = w] /\ UNCHANGED hub
  BY DEF SocketOpens
<1>2. /\ {"desired", "socket"} \subseteq DOMAIN view[p] /\ c \in Conns
      /\ view[p].desired \in Keys \cup {None}
  BY <1>1 DEF Inv, Wishes
<1>3. /\ {"desired", "socket"} \subseteq DOMAIN v /\ v.socket = c
      /\ v.desired = view[p].desired
  BY <1>2
<1> HIDE DEF v
<1>4. /\ {"desired", "socket"} \subseteq DOMAIN w /\ w.socket = c
      /\ w.desired = view[p].desired
  BY <1>3
<1> HIDE DEF w, c
<1>5. Wishes'
  BY <1>1, <1>2, <1>4, WishesKeep DEF Inv
<1>6. handler[c].pc = "absent" /\ handler[c].session = None
  BY <1>1, <1>2 DEF Inv, HubInv, Handlers
<1>7. Sent(v) \in Seq(Request)
  BY <1>2, <1>3, SentAreRequests
<1>8. Shape'
  BY <1>1, <1>2, <1>7 DEF Inv, HubInv, Shape, Handler, hub
<1>9. \A d \in Conns : /\ d # c => handler'[d] = handler[d] /\ wire'[d] = wire[d]
                       /\ handler'[d].session = handler[d].session
                       /\ handler'[d].key = handler[d].key
                       /\ handler[d].pc = "boot" <=> handler'[d].pc = "boot"
  BY <1>1, <1>2, <1>6 DEF Inv, HubInv, Shape, Handler
<1>10. handler'[c].pc = "idle" /\ wire'[c] = "open"
  BY <1>1, <1>2 DEF Inv, HubInv, Shape, Handler
<1>11. Handlers'
  BY <1>1, <1>6, <1>9, <1>10 DEF Inv, HubInv, Handlers, Started, hub
<1>12. HubInv'
  BY <1>1, <1>8, <1>9, <1>11, HubUntouched DEF Inv
<1> QED BY <1>5, <1>12 DEF Inv

LEMMA SocketClosesKeeps ==
  ASSUME Inv, NEW p \in Panes, SocketCloses(p) PROVE Inv'
<1> DEFINE v == [view[p] EXCEPT !.socket = None, !.open = FALSE, !.active = None,
                                !.timer = TRUE]
<1>1. /\ view' = [view EXCEPT ![p] = v] /\ UNCHANGED <<hub, handler, up, wire>>
  BY DEF SocketCloses, hubVars, Inv, Wishes
<1>2. /\ {"desired", "socket"} \subseteq DOMAIN v /\ v.socket = None
      /\ v.desired \in Keys \cup {None}
  BY DEF Inv, Wishes
<1> HIDE DEF v
<1>3. Wishes'
  BY <1>1, <1>2, WishesKeep DEF Inv
<1>4. HubInv'
  BY <1>1, HandlersUntouched DEF Inv, HubInv, Shape
<1> QED BY <1>3, <1>4 DEF Inv

LEMMA DeliverKeeps ==
  ASSUME Inv, NEW p \in Panes, Deliver(p) PROVE Inv'
<1> DEFINE frame == Head(tx[view[p].socket].queue)
           u == Learn(view[p], frame)
           v == [u EXCEPT !.cursor = After(u.cursor, frame, Len(frame.columns))]
<1>1. view' = [view EXCEPT ![p] = v] /\ UNCHANGED <<hub, handler, up, wire>>
  BY DEF Deliver
<1>2. /\ {"desired", "socket"} \subseteq DOMAIN view[p]
      /\ view[p].desired \in Keys \cup {None} /\ view[p].socket \in Conns \cup {None}
  BY DEF Inv, Wishes
<1>3. /\ {"desired", "socket"} \subseteq DOMAIN u /\ u.socket = view[p].socket
      /\ u.desired = view[p].desired
  BY <1>2 DEF Learn
<1> HIDE DEF u, frame
<1>4. /\ {"desired", "socket"} \subseteq DOMAIN v /\ v.socket = view[p].socket
      /\ v.desired = view[p].desired
  BY <1>3
<1> HIDE DEF v
<1>5. Wishes'
  BY <1>1, <1>2, <1>4, WishesKeep DEF Inv
<1>6. HubInv'
  BY <1>1, HandlersUntouched DEF Inv, HubInv, Shape
<1> QED BY <1>5, <1>6 DEF Inv

LEMMA CutKeeps ==
  ASSUME Inv, NEW c \in Conns, Cut(c) PROVE Inv'
<1>1. PICK n \in 0 .. Len(up[c]) : up' = [up EXCEPT ![c] = SubSeq(@, 1, n)]
  BY DEF Cut
<1>2. wire' = [wire EXCEPT ![c] = "cut"] /\ UNCHANGED <<hub, handler, view>>
  BY DEF Cut
<1>3. SubSeq(up[c], 1, n) \in Seq(Request)
  BY <1>1 DEF Inv, HubInv, Shape
<1>4. up' \in [Conns -> Seq(Request)]
  BY <1>1, <1>3 DEF Inv, HubInv, Shape
<1>5. HubInv'
  BY <1>2, <1>4, HandlersUntouched DEF Inv, HubInv, Shape
<1>6. Wishes'
  BY <1>2 DEF Inv, Wishes
<1> QED BY <1>5, <1>6 DEF Inv

LEMMA NextKeeps == Inv /\ [Next]_vars => Inv'
<1> SUFFICES ASSUME Inv, [Next]_vars PROVE Inv'
  OBVIOUS
<1>1. CASE HubNext /\ UNCHANGED paneVars
  BY <1>1, HubStepKeeps DEF Inv, Wishes, paneVars
<1>2. ASSUME NEW p \in Panes, PaneStep(p) PROVE Inv'
  <2>1. CASE ReconnectTimer(p)
    <3>1. Opens(p, view[p]) /\ UNCHANGED <<hub, handler, up>>
      BY <2>1 DEF ReconnectTimer
    <3>2. {"desired", "socket"} \subseteq DOMAIN view[p]
          /\ view[p].desired \in Keys \cup {None}
      BY DEF Inv, Wishes
    <3> QED BY <3>1, <3>2, OpensKeeps
  <2> QED BY <1>2, <2>1, SocketOpensKeeps, SocketClosesKeeps, DeliverKeeps DEF PaneStep
<1>3. ASSUME NEW p \in Panes, Close(p) PROVE Inv'
  BY <1>3, CloseKeeps
<1>4. ASSUME NEW p \in Panes, NEW k \in Keys, Subscribe(p, k) PROVE Inv'
  BY <1>4, PaneSubscribeKeeps
<1>5. ASSUME NEW c \in Conns, Cut(c) PROVE Inv'
  BY <1>5, CutKeeps
<1>6. CASE UNCHANGED vars
  <2>1. UNCHANGED <<hub, handler, up, wire, view>>
    BY <1>6 DEF vars, hubVars, paneVars
  <2>2. HubInv'
    BY <2>1, HandlersUntouched DEF Inv, HubInv, Shape
  <2> QED BY <2>1, <2>2 DEF Inv, Wishes
<1> QED BY <1>1, <1>2, <1>3, <1>4, <1>5, <1>6 DEF Next

----------------------------------------------------------------------------
\* In every reachable state of hub, network and panes, who holds the create
\* lock, which sessions have booted and what the registry names are as Inv says
\* (FeedHub.subscribe, unsubscribe).
THEOREM Invariant == Spec => []Inv
BY InitInv, NextKeeps, PTL DEF Spec

\* A feed runs as long as someone watches or boots it and no longer
\* (FeedHub.subscribe and unsubscribe), whatever panes, cuts, refusals and
\* crashes interleave: no session leaks, and none is torn down under a client.
THEOREM FeedsHeld == Spec => []FeedsAreHeld
<1>1. Inv => FeedsAreHeld
  BY DEF Inv, HubInv
<1> QED BY <1>1, Invariant, PTL

\* max_sessions bounds the running feeds for every number of connections,
\* though the session is registered before the boot it awaits.
THEOREM FeedsLimited == Spec => []FeedLimit
<1>1. Inv => FeedLimit
  BY LimitFromFew DEF Inv, HubInv
<1> QED BY <1>1, Invariant, PTL
=============================================================================
