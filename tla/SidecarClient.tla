----------------------------- MODULE SidecarClient -----------------------------
(***************************************************************************)
(* The web view's client of the sidecar, ui/src/lib/sidecar.ts, composed   *)
(* with the shell that supervises it (Sidecar).                            *)
(*                                                                         *)
(* The client caches two things, the port and the auth token, in the same  *)
(* way: a listener for the shell's event, an `invoke' that reads the       *)
(* shell's copy while the cache is empty, and whatever arrives last wins.  *)
(* Events arrive in the order they were emitted; the answers of invokes    *)
(* travel on their own and arrive at any time.  Any number of panes ask at *)
(* once, so the answers under way are a set.                               *)
(***************************************************************************)
EXTENDS Sidecar, Sequences, FiniteSets

CONSTANT MaxAnswers      \* bound: answers of one kind under way at once
ASSUME MaxAnswersAssumption == MaxAnswers \in Nat

Kind == {"port", "token"}

VARIABLES
  cache,      \* _port and _authToken, by the boot they belong to
  listener,   \* per kind: none, asked (listen() is awaited), on
  answers,    \* per kind: the values of the invokes under way
  events,     \* emitted by the shell, not handled yet: <<kind, boot>>
  base,       \* the boot whose URL a sidecarFetch has chosen
  slipped     \* per kind: an announcement was missed, or overwritten

client == <<cache, listener, answers, events, base, slipped>>

ClientTypeOK ==
  /\ TypeOK
  /\ cache \in [Kind -> Attempt \cup {Nobody}]
  /\ listener \in [Kind -> {"none", "asked", "on"}]
  /\ answers \in [Kind -> SUBSET Attempt]
  /\ events \in Seq(Kind \X Attempt)
  /\ base \in Attempt \cup {Nobody}
  /\ slipped \in [Kind -> BOOLEAN]

ClientInit ==
  /\ Init
  /\ cache = [k \in Kind |-> Nobody]
  /\ listener = [k \in Kind |-> "none"]
  /\ answers = [k \in Kind |-> {}]
  /\ events = <<>>
  /\ base = Nobody
  /\ slipped = [k \in Kind |-> FALSE]

----------------------------------------------------------------------------
(* The shell's side *)

\* handle.emit: only a listener that is registered gets the event.  Missing
\* one matters when an older value is cached or about to be
Emit(k) ==
  IF listener[k] = "on"
  THEN events' = Append(events, <<k, chain.attempt>>) /\ UNCHANGED slipped
  ELSE /\ slipped' = [slipped EXCEPT ![k] =
                        @ \/ cache[k] # Nobody \/ answers[k] # {}]
       /\ UNCHANGED events

Announced(k) ==
  IF k = "port" THEN chain.pc = "publish" /\ chain'.pc = "watch"
  ELSE chain.pc = "recheck" /\ chain'.pc = "scan"

ShellStep ==
  /\ Next
  /\ IF \E k \in Kind : Announced(k)
     THEN \E k \in Kind : Announced(k) /\ Emit(k)
     ELSE UNCHANGED <<events, slipped>>
  /\ UNCHANGED <<cache, listener, answers, base>>

\* What the commands sidecar_port and sidecar_auth_token return
Copy(k) == IF k = "port" THEN port ELSE token

----------------------------------------------------------------------------
(* The client's side: it lives as long as the app does *)

\* ensureSidecar...Listener: the flag is set before listen() is awaited
Listen(k) ==
  /\ Up /\ listener[k] = "none"
  /\ listener' = [listener EXCEPT ![k] = "asked"]
  /\ UNCHANGED <<vars, cache, answers, events, base, slipped>>

Listening(k) ==
  /\ Up /\ listener[k] = "asked"
  /\ listener' = [listener EXCEPT ![k] = "on"]
  /\ UNCHANGED <<vars, cache, answers, events, base, slipped>>

ListenFails(k) ==
  /\ Up /\ listener[k] = "asked"
  /\ listener' = [listener EXCEPT ![k] = "none"]
  /\ UNCHANGED <<vars, cache, answers, events, base, slipped>>

\* The port is asked for by bootstrapSidecarPort, whose first round does not
\* look at the cache; the token only while there is none.  A second caller
\* finds the flag set and does not wait for the listener
MayAsk(k) ==
  /\ Up /\ listener[k] # "none" /\ Cardinality(answers[k]) < MaxAnswers
  /\ k = "token" => cache[k] = Nobody

\* invoke: the shell reads its copy now, the answer arrives later.  A null
\* answer changes nothing, and the caller asks again
Ask(k) ==
  /\ MayAsk(k) /\ Copy(k) # Nobody
  /\ answers' = [answers EXCEPT ![k] = @ \cup {Copy(k)}]
  /\ UNCHANGED <<vars, cache, listener, events, base, slipped>>

Answered(k) ==
  /\ Up
  /\ \E a \in answers[k] :
       /\ answers' = [answers EXCEPT ![k] = @ \ {a}]
       /\ cache' = [cache EXCEPT ![k] = a]
       /\ slipped' = [slipped EXCEPT ![k] = @ \/ a < cache[k]]
  /\ UNCHANGED <<vars, listener, events, base>>

\* Mutant of Handled: the first token is kept
HandledOnce(k, a) ==
  cache' = [cache EXCEPT ![k] = IF @ = Nobody THEN a ELSE @]

Handled(k, a) == cache' = [cache EXCEPT ![k] = a]

EventArrives ==
  /\ Up /\ events # <<>>
  /\ LET k == Head(events)[1] a == Head(events)[2]
     IN  Handled(k, a) /\ slipped' = [slipped EXCEPT ![k] = FALSE]
  /\ events' = Tail(events)
  /\ UNCHANGED <<vars, listener, answers, base>>

\* sidecarFetch: the base URL first, the token after an await
ChooseBase ==
  /\ Up /\ base = Nobody /\ cache["port"] # Nobody
  /\ base' = cache["port"]
  /\ UNCHANGED <<vars, cache, listener, answers, events, slipped>>

Send ==
  /\ Up /\ base # Nobody /\ cache["token"] # Nobody
  /\ base' = Nobody
  /\ UNCHANGED <<vars, cache, listener, answers, events, slipped>>

ClientStep ==
  \/ \E k \in Kind : Listening(k) \/ Ask(k) \/ Answered(k)
  \/ EventArrives

ClientNext ==
  \/ ShellStep \/ ClientStep
  \/ \E k \in Kind : Listen(k) \/ ListenFails(k)
  \/ ChooseBase \/ Send

SafeSpec == ClientInit /\ [][ClientNext]_<<vars, client>>

\* The shell as in Sidecar.  The page handles its events, invokes are
\* answered, the boot effect of App.tsx installs the listener, no listen()
\* fails for ever, and while there is no port some caller asks for it
ClientSpec ==
  /\ SafeSpec
  /\ WF_<<vars, client>>(ShellStep /\ ChainStep)
  /\ WF_<<vars, client>>(ShellStep /\ ShutdownStep)
  /\ WF_<<vars, client>>(EventArrives)
  /\ WF_<<vars, client>>(Listen("port"))
  /\ SF_<<vars, client>>(Listening("port"))
  /\ WF_<<vars, client>>(cache["port"] = Nobody /\ Ask("port"))
  /\ WF_<<vars, client>>(Answered("port"))

----------------------------------------------------------------------------
UnderWay(k) == \E i \in DOMAIN events : events[i][1] = k

\* A request that reaches the running sidecar carries its token, whatever
\* respawns between the choice of the URL and the token: unless the event
\* that brings the token is still under way, or the client was left with an
\* older one, by an answer that overtook an event (sidecar.ts:121) or an
\* event that came before its listener (sidecar.ts:86).
RequestsCarryTheToken ==
  [][Send /\ Alive(base) =>
       \/ cache["token"] = base
       \/ UnderWay("token")
       \/ slipped["token"]]_<<vars, client>>

\* The port the client holds keeps the promises of Backend: it is learnt
\* after every respawn, and lost again through the two gaps only.
Serving == Up /\ port # Nobody /\ Alive(port)
Port == INSTANCE Backend WITH
  up <- Serving, known <- Serving /\ cache["port"] = port,
  lost <- slipped["port"]
PortSpec == Port!BackendSpec
=============================================================================
