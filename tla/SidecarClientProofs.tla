-------------------------- MODULE SidecarClientProofs --------------------------
(***************************************************************************)
(* RequestsCarryTheToken of SidecarClient for every MaxRetries, any number *)
(* of answers under way and any order of events and answers.               *)
(*                                                                         *)
(* A token the client holds is the running sidecar's once its event is     *)
(* handled (TokenIsKnown), because events come in the order of the boots   *)
(* (LastIsCurrent), and a port in circulation was announced by a boot that *)
(* had announced its token before (PortsSoFar).                            *)
(***************************************************************************)
EXTENDS SidecarClient, SidecarProofs

allVars == <<vars, client>>

Told == {"scan", "probe", "publish", "watch"}       \* the token is announced
Past == {"watch", "backoff", "over"}                \* the port may be

TokensSoFar ==
  /\ token <= chain.attempt
  /\ \A a \in answers["token"] : a <= chain.attempt

Published(a) ==
  \/ a < chain.attempt
  \/ a = chain.attempt /\ chain.pc \in Past

Circulates(a) ==
  \/ a \in {cache["port"], base} \cup answers["port"]
  \/ \E i \in DOMAIN events : events[i] = <<"port", a>>

PortsSoFar == \A a \in Attempt : Circulates(a) => Published(a)

ListenedFirst == UnderWay("token") => listener["token"] = "on"

LastIsCurrent ==
  chain.pc \in Told =>
    \A i \in DOMAIN events :
      events[i][1] = "token" =>
        \/ events[i][2] = chain.attempt
        \/ \E j \in DOMAIN events : j > i /\ events[j][1] = "token"

TokenIsKnown ==
  chain.pc \in Told /\ ~UnderWay("token") /\ ~slipped["token"] =>
    /\ cache["token"] \in {Nobody, chain.attempt}
    /\ cache["token"] = Nobody => answers["token"] \subseteq {chain.attempt}

CInv ==
  /\ IInv /\ ClientTypeOK /\ TokensSoFar /\ PortsSoFar
  /\ ListenedFirst /\ LastIsCurrent /\ TokenIsKnown

LEMMA AttemptsAreNumbers ==
  /\ \A a \in Attempt : a \in Int /\ a # Nobody /\ a > Nobody
  /\ Nobody \in Int
BY MaxRetriesAssumption DEF Attempt, Nobody

LEMMA ClientInitInv == ClientInit => CInv
<1> SUFFICES ASSUME ClientInit PROVE CInv
  OBVIOUS
<1>1. IInv
  BY InitIInv DEF ClientInit
<1>2. ClientTypeOK
  BY <1>1 DEF ClientInit, ClientTypeOK, IInv
<1>3. TokensSoFar /\ PortsSoFar
  BY AttemptsAreNumbers DEF ClientInit, Init, TokensSoFar, PortsSoFar, Circulates, Kind,
     Nobody
<1>4. ListenedFirst /\ LastIsCurrent /\ TokenIsKnown
  BY DEF ClientInit, Init, ListenedFirst, LastIsCurrent, TokenIsKnown, UnderWay, Told
<1> QED BY <1>1, <1>2, <1>3, <1>4 DEF CInv

\* What a step of the shell does to what the client hears of
LEMMA ChainMoves ==
  ASSUME IInv, Next
  PROVE /\ \/ chain'.attempt = chain.attempt
           \/ chain'.attempt = chain.attempt + 1 /\ chain'.pc = "check"
        /\ chain'.pc \in Told =>
             /\ chain'.attempt = chain.attempt
             /\ \/ chain.pc \in Told
                \/ chain.pc = "recheck" /\ chain'.pc = "scan"
        /\ chain.pc \in Past /\ chain'.attempt = chain.attempt => chain'.pc \in Past
        /\ \/ token' = token
           \/ token' = chain.attempt /\ chain'.attempt = chain.attempt
<1> USE DEF At, GoTo, shell
<1>1. chain \in [pc: ChainPc, attempt: Attempt]
  BY DEF IInv, TypeOK
<1>2. CASE ChainStep
  BY <1>1, <1>2, AttemptsAreNumbers DEF ChainStep, CheckShutdown, SpawnFails, SpawnWorks,
     StoreChild, RecheckAlive, RecheckShutdown, ProbeAnswers, ProbeFails, Publish,
     SidecarExitExpected, SidecarExitCrash, StdoutCloses, Backoff, BootFailed, Told, Past
<1>3. CASE PortLine
  BY <1>1, <1>3 DEF PortLine, Told, Past
<1>4. CASE ExitRequested \/ ShutdownStep \/ Panic \/ \E a \in Attempt : ProcessDies(a)
  BY <1>4 DEF ExitRequested, ShutdownStep, TakeChild, Drained, AppExits, Panic,
     ProcessDies, Told, Past
<1> QED BY <1>2, <1>3, <1>4 DEF Next

\* What a step of the shell adds to the client's events
LEMMA ShellEmits ==
  ASSUME ClientTypeOK, ShellStep
  PROVE /\ Next /\ UNCHANGED <<cache, answers, listener, base>>
        /\ \/ UNCHANGED <<events, slipped>>
           \/ \E k \in Kind : Announced(k) /\ Emit(k)
        /\ chain.pc = "recheck" /\ chain'.pc = "scan" => Emit("token")
<1>1. Announced("token") => ~Announced("port")
  BY DEF Announced
<1>2. Announced("token") <=> chain.pc = "recheck" /\ chain'.pc = "scan"
  BY DEF Announced
<1>3. "token" \in Kind /\ \A k \in Kind : k = "token" \/ k = "port"
  BY DEF Kind
<1> QED BY <1>1, <1>2, <1>3 DEF ShellStep

LEMMA EventsAreTyped ==
  ASSUME ClientTypeOK
  PROVE \A i \in DOMAIN events : events[i][1] \in Kind /\ events[i][2] \in Attempt
BY DEF ClientTypeOK

LEMMA ShellKeeps ==
  ASSUME CInv, ShellStep PROVE CInv'
<1> DEFINE a == chain.attempt
<1>1. /\ IInv /\ ClientTypeOK /\ Next /\ UNCHANGED <<cache, answers, listener, base>>
      /\ chain.pc = "recheck" /\ chain'.pc = "scan" => Emit("token")
  BY ShellEmits DEF CInv
<1>2. IInv'
  BY <1>1, NextIInv
<1>3. /\ \/ chain'.attempt = a
         \/ chain'.attempt = a + 1 /\ chain'.pc = "check"
      /\ chain'.pc \in Told =>
           /\ chain'.attempt = a
           /\ \/ chain.pc \in Told
              \/ chain.pc = "recheck" /\ chain'.pc = "scan"
      /\ chain.pc \in Past /\ chain'.attempt = a => chain'.pc \in Past
      /\ \/ token' = token
         \/ token' = a /\ chain'.attempt = a
  BY <1>1, ChainMoves
<1>4. a \in Attempt /\ a \in Int /\ chain'.attempt \in Attempt /\ chain'.attempt \in Int
  BY <1>1, <1>2, AttemptsAreNumbers DEF IInv, TypeOK
<1>5. \/ UNCHANGED <<events, slipped>>
      \/ \E k \in Kind : Announced(k) /\ Emit(k)
  BY <1>1, ShellEmits
<1>6. \A k \in Kind : Emit(k) =>
        \/ /\ listener[k] = "on" /\ events' = Append(events, <<k, a>>)
           /\ UNCHANGED slipped
        \/ /\ listener[k] # "on" /\ UNCHANGED events
           /\ slipped' = [slipped EXCEPT ![k] =
                @ \/ cache[k] # Nobody \/ answers[k] # {}]
  BY DEF Emit
<1>7. /\ events \in Seq(Kind \X Attempt) /\ slipped \in [Kind -> BOOLEAN]
      /\ answers \in [Kind -> SUBSET Attempt]
      /\ cache \in [Kind -> Attempt \cup {Nobody}] /\ base \in Attempt \cup {Nobody}
  BY <1>1 DEF ClientTypeOK
<1> HIDE DEF a
<1>8. ClientTypeOK'
  <2>1. events' \in Seq(Kind \X Attempt) /\ slipped' \in [Kind -> BOOLEAN]
    <3>1. ASSUME NEW k \in Kind, Emit(k)
          PROVE events' \in Seq(Kind \X Attempt) /\ slipped' \in [Kind -> BOOLEAN]
      <4>1. <<k, a>> \in Kind \X Attempt
        BY <1>4
      <4>2. events' \in Seq(Kind \X Attempt)
        BY <1>6, <1>7, <3>1, <4>1
      <4>3. CASE UNCHANGED slipped
        BY <1>7, <4>2, <4>3
      <4>4. CASE slipped' = [slipped EXCEPT ![k] =
                   @ \/ cache[k] # Nobody \/ answers[k] # {}]
        BY <1>7, <4>2, <4>4, Zenon
      <4> QED BY <1>6, <3>1, <4>3, <4>4
    <3> QED BY <1>5, <1>7, <3>1
  <2>2. TypeOK'
    BY <1>2 DEF IInv
  <2> QED BY <1>1, <2>1, <2>2 DEF ClientTypeOK
<1>9. TokensSoFar'
  <2>1. TokensSoFar /\ token \in Int
    BY <1>1, AttemptsAreNumbers DEF CInv, IInv, TypeOK
  <2>2. \A b \in answers["token"] : b \in Int
    BY <1>7, AttemptsAreNumbers DEF Kind
  <2> QED BY <1>1, <1>3, <1>4, <2>1, <2>2 DEF TokensSoFar, a
<1>10. \A b \in Attempt : Published(b) => Published(b)'
  <2> SUFFICES ASSUME NEW b \in Attempt, Published(b) PROVE Published(b)'
    OBVIOUS
  <2>1. b \in Int
    BY AttemptsAreNumbers
  <2> QED BY <1>3, <1>4, <2>1 DEF Published, a
<1>11. PortsSoFar'
  <2> SUFFICES ASSUME NEW b \in Attempt, Circulates(b)' PROVE Published(b)'
    BY DEF PortsSoFar
  <2>1. CASE Circulates(b)
    BY <1>10, <2>1 DEF CInv, PortsSoFar
  <2>2. CASE ~Circulates(b)
    <3>1. PICK i \in DOMAIN events' : events'[i] = <<"port", b>>
      BY <1>1, <2>2 DEF Circulates
    <3>2. PICK k \in Kind : Announced(k) /\ events' = Append(events, <<k, a>>)
      BY <1>5, <1>6, <2>2, <3>1 DEF Circulates
    <3>3. i \notin DOMAIN events
      BY <1>7, <2>2, <3>1, <3>2 DEF Circulates
    <3>4. events'[i] = <<k, a>>
      BY <1>7, <3>1, <3>2, <3>3
    <3>5. k = "port" /\ b = a
      BY <3>1, <3>4
    <3>6. chain'.pc = "watch"
      BY <3>2, <3>5 DEF Announced
    <3>7. chain'.attempt = a
      BY <1>3, <3>6 DEF Told
    <3> QED BY <3>5, <3>6, <3>7 DEF Published, Past
  <2> QED BY <2>1, <2>2
<1>12. \/ events' = events
       \/ \E k \in Kind : listener[k] = "on" /\ events' = Append(events, <<k, a>>)
  BY <1>5, <1>6
<1>13. \A k \in Kind : \A i \in 1 .. Len(events) + 1 :
         events' = Append(events, <<k, a>>) =>
           /\ DOMAIN events' = 1 .. Len(events) + 1
           /\ events'[i] = IF i = Len(events) + 1 THEN <<k, a>> ELSE events[i]
  BY <1>7
<1>14. DOMAIN events = 1 .. Len(events) /\ Len(events) \in Nat
  BY <1>7
<1>15. ListenedFirst'
  <2>1. ListenedFirst
    BY DEF CInv
  <2> QED BY <1>1, <1>12, <1>13, <1>14, <2>1 DEF ListenedFirst, UnderWay
<1>16. UnderWay("token") => UnderWay("token")'
  BY <1>12, <1>13, <1>14 DEF UnderWay
<1>17. CASE chain'.pc \notin Told
  BY <1>2, <1>8, <1>9, <1>11, <1>15, <1>17 DEF CInv, LastIsCurrent, TokenIsKnown
<1>18. CASE chain'.pc \in Told /\ chain.pc \in Told
  <2>1. chain'.attempt = a
    BY <1>3, <1>18
  <2>2. LastIsCurrent'
    <3>1. LastIsCurrent
      BY DEF CInv
    <3> QED BY <1>12, <1>13, <1>14, <1>18, <2>1, <3>1 DEF LastIsCurrent, a
  <2>3. TokenIsKnown'
    <3>1. TokenIsKnown
      BY DEF CInv
    <3>2. ~Announced("token")
      BY <1>18 DEF Announced, Told
    <3>3. slipped'["token"] = slipped["token"]
      BY <1>5, <1>6, <1>7, <3>2 DEF Kind
    <3> QED BY <1>1, <1>16, <1>18, <2>1, <3>1, <3>3 DEF TokenIsKnown, a
  <2> QED BY <1>2, <1>8, <1>9, <1>11, <1>15, <2>2, <2>3 DEF CInv
<1>19. CASE chain'.pc = "scan" /\ chain.pc = "recheck"
  <2>1. Emit("token") /\ chain'.attempt = a
    BY <1>1, <1>3, <1>19 DEF Told
  <2>2. CASE listener["token"] = "on" /\ events' = Append(events, <<"token", a>>)
    <3>1. /\ Len(events) + 1 \in DOMAIN events' /\ events'[Len(events) + 1] = <<"token", a>>
          /\ DOMAIN events' = 1 .. Len(events) + 1
      BY <1>13, <1>14, <2>2 DEF Kind
    <3>2. UnderWay("token")'
      BY <3>1 DEF UnderWay
    <3>3. LastIsCurrent'
      BY <1>14, <2>1, <3>1 DEF LastIsCurrent, a
    <3> QED BY <1>2, <1>8, <1>9, <1>11, <1>15, <3>2, <3>3 DEF CInv, TokenIsKnown
  <2>3. CASE /\ listener["token"] # "on" /\ UNCHANGED events
             /\ slipped' = [slipped EXCEPT !["token"] =
                  @ \/ cache["token"] # Nobody \/ answers["token"] # {}]
    <3>1. ~UnderWay("token")'
      BY <2>3 DEF CInv, ListenedFirst, UnderWay
    <3>2. LastIsCurrent'
      BY <3>1 DEF LastIsCurrent, UnderWay
    <3>3. ~slipped'["token"] => cache["token"] = Nobody /\ answers["token"] = {}
      BY <1>7, <2>3 DEF Kind
    <3>4. TokenIsKnown'
      BY <1>1, <3>3 DEF TokenIsKnown
    <3> QED BY <1>2, <1>8, <1>9, <1>11, <1>15, <3>2, <3>4 DEF CInv
  <2> QED BY <1>6, <2>1, <2>2, <2>3 DEF Kind
<1> QED BY <1>3, <1>17, <1>18, <1>19

----------------------------------------------------------------------------
\* Steps of the client leave the shell alone

LEMMA ShellUntouched ==
  ASSUME CInv, UNCHANGED vars
  PROVE /\ IInv' /\ UNCHANGED <<chain, token, port>>
        /\ \A b : Published(b)' <=> Published(b)
<1>1. IInv'
  BY NextIInv DEF CInv
<1>2. UNCHANGED <<chain, token, port>>
  BY DEF vars, shell
<1> QED BY <1>1, <1>2 DEF Published

LEMMA ListenerKeeps ==
  ASSUME CInv, NEW k \in Kind, UNCHANGED <<vars, cache, answers, events, base, slipped>>,
         \E v \in {"none", "asked", "on"} : listener' = [listener EXCEPT ![k] = v],
         listener[k] # "on"
  PROVE CInv'
<1>1. IInv' /\ UNCHANGED <<chain, token>> /\ \A b : Published(b)' <=> Published(b)
  BY ShellUntouched
<1>2. ClientTypeOK'
  BY <1>1 DEF CInv, ClientTypeOK, IInv
<1>3. TokensSoFar' /\ PortsSoFar'
  BY <1>1 DEF CInv, TokensSoFar, PortsSoFar, Circulates
<1>4. ListenedFirst'
  BY DEF CInv, ClientTypeOK, ListenedFirst, UnderWay, Kind
<1>5. LastIsCurrent' /\ TokenIsKnown'
  BY <1>1 DEF CInv, LastIsCurrent, TokenIsKnown, UnderWay
<1> QED BY <1>1, <1>2, <1>3, <1>4, <1>5 DEF CInv

LEMMA AskKeeps ==
  ASSUME CInv, NEW k \in Kind, Ask(k) PROVE CInv'
<1>1. /\ IInv' /\ UNCHANGED <<chain, token, port>>
      /\ \A b : Published(b)' <=> Published(b)
  BY ShellUntouched DEF Ask
<1>2. /\ answers' = [answers EXCEPT ![k] = @ \cup {Copy(k)}]
      /\ Copy(k) # Nobody /\ UNCHANGED <<cache, listener, events, base, slipped>>
  BY DEF Ask
<1>3. Copy(k) \in Attempt /\ chain.attempt \in Attempt
  BY <1>2 DEF CInv, IInv, TypeOK, Copy
<1>4. answers \in [Kind -> SUBSET Attempt] /\ "token" \in Kind /\ "port" \in Kind
  BY DEF CInv, ClientTypeOK, Kind
<1>5. ClientTypeOK'
  BY <1>1, <1>2, <1>3, <1>4 DEF CInv, ClientTypeOK, IInv
<1>6. k = "token" => Copy(k) = token
  BY DEF Copy
<1>7. TokensSoFar'
  BY <1>1, <1>2, <1>4, <1>6 DEF CInv, TokensSoFar
<1>8. PortsSoFar'
  <2> SUFFICES ASSUME NEW b \in Attempt, Circulates(b)' PROVE Published(b)
    BY <1>1 DEF PortsSoFar
  <2>1. CASE Circulates(b)
    BY <2>1 DEF CInv, PortsSoFar
  <2>2. CASE ~Circulates(b)
    <3>1. b = port /\ port # Nobody
      BY <1>2, <1>3, <1>4, <2>2 DEF Circulates, Copy, Kind
    <3> QED BY <3>1 DEF CInv, IInv, PortOfBoot, Published, Past
  <2> QED BY <2>1, <2>2
<1>9. ListenedFirst' /\ LastIsCurrent'
  BY <1>1, <1>2 DEF CInv, ListenedFirst, LastIsCurrent, UnderWay
<1>10. TokenIsKnown'
  <2>1. chain.pc \in Told => token = chain.attempt
    BY DEF CInv, IInv, TokenOfBoot, Watching, Told
  <2> QED BY <1>1, <1>2, <1>4, <1>6, <2>1 DEF CInv, TokenIsKnown, UnderWay
<1> QED BY <1>1, <1>5, <1>7, <1>8, <1>9, <1>10 DEF CInv

LEMMA AnsweredKeeps ==
  ASSUME CInv, NEW k \in Kind, Answered(k) PROVE CInv'
<1>1. /\ IInv' /\ UNCHANGED <<chain, token, port>>
      /\ \A b : Published(b)' <=> Published(b)
  BY ShellUntouched DEF Answered
<1>2. PICK x \in answers[k] :
        /\ answers' = [answers EXCEPT ![k] = @ \ {x}]
        /\ cache' = [cache EXCEPT ![k] = x]
        /\ slipped' = [slipped EXCEPT ![k] = @ \/ x < cache[k]]
  BY DEF Answered
<1>3. UNCHANGED <<listener, events, base>>
  BY DEF Answered
<1>4. /\ answers \in [Kind -> SUBSET Attempt] /\ cache \in [Kind -> Attempt \cup {Nobody}]
      /\ slipped \in [Kind -> BOOLEAN] /\ "token" \in Kind /\ "port" \in Kind
  BY DEF CInv, ClientTypeOK, Kind
<1>5. x \in Attempt /\ x \in Int /\ chain.attempt \in Attempt /\ chain.attempt \in Int
  BY <1>2, <1>4, AttemptsAreNumbers DEF CInv, IInv, TypeOK
<1>6. ClientTypeOK'
  <2>1. slipped' \in [Kind -> BOOLEAN]
    BY <1>2, <1>4, Zenon
  <2>2. answers' \in [Kind -> SUBSET Attempt] /\ cache' \in [Kind -> Attempt \cup {Nobody}]
    BY <1>2, <1>4, <1>5
  <2> QED BY <1>1, <1>3, <2>1, <2>2 DEF CInv, ClientTypeOK, IInv
<1>7. TokensSoFar'
  BY <1>1, <1>2, <1>4 DEF CInv, TokensSoFar
<1>8. PortsSoFar'
  <2> SUFFICES ASSUME NEW b \in Attempt, Circulates(b)' PROVE Circulates(b)
    BY <1>1 DEF CInv, PortsSoFar
  <2> QED BY <1>2, <1>3, <1>4 DEF Circulates
<1>9. ListenedFirst' /\ LastIsCurrent'
  BY <1>1, <1>3 DEF CInv, ListenedFirst, LastIsCurrent, UnderWay
<1>10. TokenIsKnown'
  <2>1. CASE k # "token"
    BY <1>1, <1>2, <1>3, <1>4, <2>1 DEF CInv, TokenIsKnown, UnderWay
  <2>2. CASE k = "token"
    <3> SUFFICES ASSUME chain.pc \in Told, ~UnderWay("token"), ~slipped'["token"]
                 PROVE cache'["token"] = chain.attempt
      BY <1>1, <1>3, <1>5, AttemptsAreNumbers DEF TokenIsKnown, UnderWay
    <3>1. cache'["token"] = x
      BY <1>2, <1>4, <2>2
    <3>2. ~slipped["token"] /\ ~(x < cache["token"])
      BY <1>2, <1>4, <2>2
    <3>3. x <= chain.attempt
      BY <1>2, <2>2 DEF CInv, TokensSoFar
    <3>4. /\ cache["token"] \in {Nobody, chain.attempt}
          /\ cache["token"] = Nobody => answers["token"] \subseteq {chain.attempt}
      BY <3>2 DEF CInv, TokenIsKnown
    <3> QED BY <1>2, <1>5, <2>2, <3>1, <3>2, <3>3, <3>4
  <2> QED BY <2>1, <2>2
<1> QED BY <1>1, <1>6, <1>7, <1>8, <1>9, <1>10 DEF CInv

LEMMA EventKeeps ==
  ASSUME CInv, EventArrives PROVE CInv'
<1> DEFINE k == Head(events)[1]
           x == Head(events)[2]
<1>1. /\ IInv' /\ UNCHANGED <<chain, token, port>>
      /\ \A b : Published(b)' <=> Published(b)
  BY ShellUntouched DEF EventArrives
<1>2. /\ events # <<>> /\ events' = Tail(events)
      /\ cache' = [cache EXCEPT ![k] = x]
      /\ slipped' = [slipped EXCEPT ![k] = FALSE]
      /\ UNCHANGED <<listener, answers, base>>
  BY DEF EventArrives, Handled
<1>3. /\ events \in Seq(Kind \X Attempt) /\ cache \in [Kind -> Attempt \cup {Nobody}]
      /\ slipped \in [Kind -> BOOLEAN] /\ "token" \in Kind /\ "port" \in Kind
  BY DEF CInv, ClientTypeOK, Kind
<1>4. /\ events[1] = <<k, x>> /\ k \in Kind /\ x \in Attempt
      /\ DOMAIN events = 1 .. Len(events) /\ Len(events) \in Nat /\ 1 \in DOMAIN events
  BY <1>2, <1>3
<1>5. /\ DOMAIN events' = 1 .. Len(events) - 1
      /\ \A i \in DOMAIN events' : events'[i] = events[i + 1] /\ i + 1 \in DOMAIN events
  BY <1>2, <1>3, <1>4
<1> HIDE DEF k, x
<1>6. ClientTypeOK'
  <2>1. events' \in Seq(Kind \X Attempt)
    BY <1>2, <1>3
  <2>2. cache' \in [Kind -> Attempt \cup {Nobody}] /\ slipped' \in [Kind -> BOOLEAN]
    BY <1>2, <1>3, <1>4
  <2> QED BY <1>1, <1>2, <2>1, <2>2 DEF CInv, ClientTypeOK, IInv
<1>7. TokensSoFar'
  BY <1>1, <1>2 DEF CInv, TokensSoFar
<1>8. PortsSoFar'
  <2> SUFFICES ASSUME NEW b \in Attempt, Circulates(b)' PROVE Circulates(b)
    BY <1>1 DEF CInv, PortsSoFar
  <2>1. CASE \E i \in DOMAIN events' : events'[i] = <<"port", b>>
    BY <1>5, <2>1 DEF Circulates
  <2>2. CASE b \in {cache'["port"], base'} \cup answers'["port"]
    BY <1>2, <1>3, <1>4, <2>2 DEF Circulates
  <2> QED BY <2>1, <2>2 DEF Circulates
<1>9. ListenedFirst'
  BY <1>2, <1>5 DEF CInv, ListenedFirst, UnderWay
<1>10. LastIsCurrent'
  <2> SUFFICES ASSUME chain.pc \in Told, NEW i \in DOMAIN events',
                      events'[i][1] = "token", events'[i][2] # chain.attempt
               PROVE \E j \in DOMAIN events' : j > i /\ events'[j][1] = "token"
    BY <1>1 DEF LastIsCurrent
  <2>1. PICK j \in DOMAIN events : j > i + 1 /\ events[j][1] = "token"
    BY <1>5 DEF CInv, LastIsCurrent
  <2>2. j - 1 \in DOMAIN events' /\ j - 1 > i /\ events'[j - 1] = events[j]
    BY <1>4, <1>5, <2>1
  <2> QED BY <2>1, <2>2
<1>11. TokenIsKnown'
  <2> SUFFICES ASSUME chain.pc \in Told, ~UnderWay("token")', ~slipped'["token"]
               PROVE TokenIsKnown'
    BY <1>1 DEF TokenIsKnown
  <2>1. \A j \in DOMAIN events : j > 1 => events[j][1] # "token"
    <3> SUFFICES ASSUME NEW j \in DOMAIN events, j > 1 PROVE events[j][1] # "token"
      OBVIOUS
    <3>1. j - 1 \in DOMAIN events' /\ events'[j - 1] = events[j]
      BY <1>4, <1>5
    <3> QED BY <3>1 DEF UnderWay
  <2>2. CASE k = "token"
    <3>1. x = chain.attempt
      BY <1>4, <2>1, <2>2 DEF CInv, LastIsCurrent
    <3>2. cache'["token"] = x /\ x # Nobody
      BY <1>2, <1>3, <1>4, <2>2, AttemptsAreNumbers
    <3> QED BY <1>1, <3>1, <3>2 DEF TokenIsKnown
  <2>3. CASE k # "token"
    <3>1. ~UnderWay("token")
      BY <1>4, <2>1, <2>3 DEF UnderWay
    <3>2. cache'["token"] = cache["token"] /\ slipped'["token"] = slipped["token"]
      BY <1>2, <1>3, <1>4, <2>3
    <3> QED BY <1>1, <1>2, <3>1, <3>2 DEF CInv, TokenIsKnown
  <2> QED BY <2>2, <2>3
<1> QED BY <1>1, <1>6, <1>7, <1>8, <1>9, <1>10, <1>11 DEF CInv

LEMMA RequestKeeps ==
  ASSUME CInv, UNCHANGED <<vars, cache, listener, answers, events, slipped>>,
         base' \in {cache["port"], Nobody, base}
  PROVE CInv'
<1>1. IInv' /\ UNCHANGED <<chain, token>> /\ \A b : Published(b)' <=> Published(b)
  BY ShellUntouched
<1>2. ClientTypeOK'
  BY <1>1 DEF CInv, ClientTypeOK, IInv, Kind
<1>3. PortsSoFar'
  <2> SUFFICES ASSUME NEW b \in Attempt, Circulates(b)' PROVE Circulates(b)
    BY <1>1 DEF CInv, PortsSoFar
  <2> QED BY AttemptsAreNumbers DEF Circulates
<1>4. TokensSoFar' /\ ListenedFirst' /\ LastIsCurrent' /\ TokenIsKnown'
  BY <1>1 DEF CInv, TokensSoFar, ListenedFirst, LastIsCurrent, TokenIsKnown, UnderWay
<1> QED BY <1>1, <1>2, <1>3, <1>4 DEF CInv

LEMMA ClientNextInv == CInv /\ [ClientNext]_allVars => CInv'
<1> SUFFICES ASSUME CInv, [ClientNext]_allVars PROVE CInv'
  OBVIOUS
<1>1. CASE ShellStep
  BY <1>1, ShellKeeps
<1>2. CASE ClientStep
  <2>1. ASSUME NEW k \in Kind, Listening(k) PROVE CInv'
    BY <2>1, ListenerKeeps DEF Listening
  <2> QED BY <1>2, <2>1, AskKeeps, AnsweredKeeps, EventKeeps DEF ClientStep
<1>3. ASSUME NEW k \in Kind, Listen(k) \/ ListenFails(k) PROVE CInv'
  BY <1>3, ListenerKeeps DEF Listen, ListenFails
<1>4. CASE ChooseBase \/ Send \/ UNCHANGED allVars
  BY <1>4, RequestKeeps DEF ChooseBase, Send, allVars, client
<1> QED BY <1>1, <1>2, <1>3, <1>4 DEF ClientNext

----------------------------------------------------------------------------
\* What is under way to the web view fits the boots of the shell: the order of
\* events, the answers and the URLs chosen (sidecar.ts, lib.rs emit).
THEOREM ClientInvariant == SafeSpec => []CInv
BY ClientInitInv, ClientNextInv, PTL DEF SafeSpec, allVars

\* However respawns, events and answers cross, a request that reaches the
\* running sidecar carries its token, but for the gaps that `slipped' and
\* the event under way name (sidecar.ts, sidecarFetch and its two caches).
THEOREM TokensAreRight == SafeSpec => RequestsCarryTheToken
<1>1. CInv /\ [ClientNext]_allVars =>
        [Send /\ Alive(base) =>
           \/ cache["token"] = base
           \/ UnderWay("token")
           \/ slipped["token"]]_allVars
  <2> SUFFICES ASSUME CInv, Send, Alive(base), ~UnderWay("token"), ~slipped["token"]
               PROVE cache["token"] = base
    OBVIOUS
  <2>1. base # Nobody /\ cache["token"] # Nobody /\ base \in Attempt
    BY DEF Send, CInv, ClientTypeOK
  <2>2. base = chain.attempt /\ chain.pc \in Watching
    BY <2>1 DEF CInv, IInv, OnlyCurrent
  <2>3. Published(base)
    BY <2>1 DEF CInv, PortsSoFar, Circulates
  <2>4. chain.pc = "watch"
    BY <2>1, <2>2, <2>3, AttemptsAreNumbers DEF Published, Past, Watching
  <2> QED BY <2>1, <2>2, <2>4 DEF CInv, TokenIsKnown, Told
<1> QED BY <1>1, ClientInvariant, PTL DEF SafeSpec, RequestsCarryTheToken, allVars

\* Every variable of shell and client keeps its type.
THEOREM ClientTypeCorrect == SafeSpec => []ClientTypeOK
<1>1. CInv => ClientTypeOK
  BY DEF CInv
<1> QED BY <1>1, ClientInvariant, PTL

----------------------------------------------------------------------------
(* The port implements Backend, but for its liveness *)

\* A boot announces its port once, and nobody holds it before
LEMMA ShellServes ==
  ASSUME CInv, ShellStep
  PROVE \/ UNCHANGED <<Serving, slipped["port"]>> /\ port' = port
        \/ Serving /\ ~Serving' /\ UNCHANGED slipped["port"]
        \/ ~Serving /\ ~Serving' /\ UNCHANGED slipped["port"]
        \/ ~Serving /\ port' = chain.attempt /\ cache["port"] # port'
<1> USE DEF Up, Serving, At, GoTo, shell
<1>1. /\ Next /\ IInv
      /\ \/ UNCHANGED slipped
         \/ \E k \in Kind : Announced(k) /\ Emit(k)
  BY ShellEmits DEF CInv
<1>2. slipped \in [Kind -> BOOLEAN] /\ "port" \in Kind
  BY DEF CInv, ClientTypeOK, Kind
<1>3. ~Announced("port") => slipped'["port"] = slipped["port"]
  BY <1>1, <1>2 DEF Emit, Kind
<1>4. CASE Publish
  <2>1. chain.pc = "publish" /\ port' = chain.attempt
    BY <1>4 DEF Publish
  <2>2. port = Nobody
    BY <1>1, <2>1 DEF IInv, PortOfBoot
  <2>3. cache["port"] # chain.attempt
    <3>1. chain.attempt \in Attempt /\ chain.attempt \in Int
      BY <1>1, AttemptsAreNumbers DEF IInv, TypeOK
    <3>2. ~Published(chain.attempt)
      BY <2>1, <3>1 DEF Published, Past
    <3> QED BY <3>1, <3>2 DEF CInv, PortsSoFar, Circulates
  <2> QED BY <2>1, <2>2, <2>3
<1>5. CASE ~Publish
  <2>1. ~Announced("port")
    <3> SUFFICES ASSUME Announced("port") PROVE FALSE
      OBVIOUS
    <3>1. chain.pc = "publish" /\ chain'.pc = "watch"
      BY DEF Announced
    <3>2. chain \in [pc: ChainPc, attempt: Attempt]
      BY <1>1 DEF IInv, TypeOK
    <3> QED BY <1>1, <1>5, <3>1, <3>2 DEF Next, ChainStep, CheckShutdown, SpawnFails,
          SpawnWorks, StoreChild, RecheckAlive, RecheckShutdown, ProbeAnswers,
          ProbeFails, SidecarExitExpected, SidecarExitCrash, StdoutCloses, Backoff,
          BootFailed, PortLine, ExitRequested, ShutdownStep, TakeChild, Drained,
          AppExits, Panic, ProcessDies
  <2>2. port' = port \/ port' = Nobody
    BY <1>1, <1>5 DEF Next, ChainStep, CheckShutdown, SpawnFails, SpawnWorks, StoreChild,
       RecheckAlive, RecheckShutdown, ProbeAnswers, ProbeFails, SidecarExitExpected,
       SidecarExitCrash, Backoff, BootFailed, PortLine, ExitRequested, ShutdownStep,
       TakeChild, Drained, AppExits, Panic, ProcessDies
  <2>3. port # Nobody /\ Serving' => Serving
    <3> SUFFICES ASSUME port # Nobody, Serving' PROVE Serving
      OBVIOUS
    <3>1. port' = port /\ Alive(port)' /\ Up'
      BY <2>2
    <3>2. Up
      BY <1>1, <3>1 DEF Next, ChainStep, CheckShutdown, SpawnFails, SpawnWorks,
          StoreChild, RecheckAlive, RecheckShutdown, ProbeAnswers, ProbeFails, Publish,
          SidecarExitExpected, SidecarExitCrash, Backoff, BootFailed, PortLine,
          ExitRequested, ShutdownStep, TakeChild, Drained, AppExits, Panic, ProcessDies
    <3>3. Alive(port)
      <4>1. chain.pc # "boot"
        BY <1>1 DEF IInv, PortOfBoot
      <4>2. proc \in [Attempt -> {"none", "running", "ended"}] /\ port \in Attempt
        BY <1>1 DEF IInv, TypeOK
      <4>3. proc'[port] = "running" => proc[port] = "running"
        BY <1>1, <4>1, <4>2 DEF Next, ChainStep, CheckShutdown, SpawnFails, SpawnWorks,
            StoreChild, RecheckAlive, RecheckShutdown, ProbeAnswers, ProbeFails, Publish,
            SidecarExitExpected, SidecarExitCrash, Backoff, BootFailed, PortLine, KillChild,
            ExitRequested, ShutdownStep, TakeChild, Drained, AppExits, Panic, ProcessDies
      <4> QED BY <3>1, <4>3 DEF Alive
    <3> QED BY <3>2, <3>3
  <2>4. Serving' => port' # Nobody
    OBVIOUS
  <2> QED BY <1>3, <2>1, <2>2, <2>3, <2>4
<1> QED BY <1>4, <1>5

LEMMA PortStep ==
  ASSUME CInv, CInv', [ClientNext]_allVars
  PROVE [Port!BackendNext]_(Port!backend)
<1> DEFINE known == Serving /\ cache["port"] = port
           lost == slipped["port"]
<1>1. /\ lost \in BOOLEAN /\ lost' \in BOOLEAN
      /\ Serving \in BOOLEAN /\ Serving' \in BOOLEAN
  BY DEF CInv, ClientTypeOK, Kind, Serving
<1> DEFINE Done == [Port!BackendNext]_(Port!backend)
<1>2. (UNCHANGED <<Serving, known, lost>>) => Done
  BY DEF Port!backend
<1>3. ~Serving /\ Serving' /\ ~known' => Done
  BY <1>1 DEF Port!BackendNext, Port!Appears
<1>4. Serving /\ ~Serving' /\ lost' = lost => Done
  BY <1>1 DEF Port!BackendNext, Port!Vanishes
<1>5. Serving /\ Serving' /\ ~known /\ known' /\ lost' \in {lost, FALSE} => Done
  BY <1>1 DEF Port!BackendNext, Port!Learns
<1>6. Serving /\ Serving' /\ known /\ ~known' => Done
  BY <1>1 DEF Port!BackendNext, Port!Unlearns
<1>7. (UNCHANGED <<Serving, known>>) /\ lost' # lost => Done
  BY <1>1 DEF Port!BackendNext, Port!Muddles
<1>8. Serving => port = chain.attempt
  BY DEF CInv, IInv, PortOfBoot, Serving
<1>9. /\ port \in Attempt \cup {Nobody} /\ cache \in [Kind -> Attempt \cup {Nobody}]
      /\ slipped \in [Kind -> BOOLEAN] /\ events \in Seq(Kind \X Attempt)
      /\ answers \in [Kind -> SUBSET Attempt] /\ chain.attempt \in Attempt
      /\ "port" \in Kind /\ "token" \in Kind
  BY DEF CInv, ClientTypeOK, TypeOK, Kind
<1> DEFINE idle == ~Serving /\ ~Serving'
<1>10. idle => UNCHANGED <<Serving, known>>
  BY <1>1
<1> HIDE DEF known
<1>11. idle => Done
  BY <1>1, <1>2, <1>7, <1>10
<1> USE DEF known
<1>12. CASE ShellStep
  <2>1. cache' = cache
    BY <1>12 DEF ShellStep
  <2>2. CASE (UNCHANGED <<Serving, slipped["port"]>>) /\ port' = port
    BY <1>2, <2>1, <2>2
  <2>3. CASE Serving /\ ~Serving' /\ UNCHANGED slipped["port"]
    BY <1>4, <2>3
  <2>4. CASE ~Serving /\ ~Serving' /\ UNCHANGED slipped["port"]
    BY <1>11, <2>4
  <2>5. CASE ~Serving /\ port' = chain.attempt /\ cache["port"] # port'
    <3>1. CASE Serving'
      BY <1>3, <2>1, <2>5, <3>1
    <3>2. CASE ~Serving'
      BY <1>11, <2>5, <3>2
    <3> QED BY <3>1, <3>2
  <2> QED BY <1>12, <2>2, <2>3, <2>4, <2>5, ShellServes
<1>13. CASE UNCHANGED vars /\ UNCHANGED <<cache, slipped>>
  BY <1>2, <1>13 DEF vars, Serving, shell, Alive, Up
<1>14. UNCHANGED vars => UNCHANGED <<Serving, port>>
  BY DEF vars, Serving, shell, Alive, Up
<1>15. CASE \E k \in Kind : Answered(k)
  <2>1. PICK k \in Kind : Answered(k)
    BY <1>15
  <2>2. UNCHANGED <<Serving, port>>
    BY <1>14, <2>1 DEF Answered
  <2>3. PICK a \in answers[k] :
          /\ cache' = [cache EXCEPT ![k] = a]
          /\ slipped' = [slipped EXCEPT ![k] = @ \/ a < cache[k]]
    BY <2>1 DEF Answered
  <2>4. CASE k = "token"
    <3>1. cache'["port"] = cache["port"] /\ slipped'["port"] = slipped["port"]
      BY <1>9, <2>3, <2>4
    <3> QED BY <1>2, <2>2, <3>1
  <2>5. CASE k = "port"
    <3>1. cache'["port"] = a /\ lost' = (lost \/ a < cache["port"])
      BY <1>9, <2>3, <2>5
    <3>2. CASE ~Serving
      BY <1>2, <1>7, <2>2, <3>2
    <3>3. CASE Serving /\ ~known /\ a = port
      <4>1. Published(cache["port"]) \/ cache["port"] = Nobody
        BY <1>9 DEF CInv, PortsSoFar, Circulates
      <4>2. ~(a < cache["port"])
        BY <1>8, <1>9, <3>3, <4>1, AttemptsAreNumbers DEF Published
      <4>3. lost' = lost
        BY <1>1, <3>1, <4>2
      <4> QED BY <1>5, <2>2, <3>1, <3>3, <4>3
    <3>4. CASE Serving /\ ~known /\ a # port
      <4>1. UNCHANGED <<Serving, known>>
        BY <2>2, <3>1, <3>4
      <4> QED BY <1>2, <1>7, <4>1
    <3>5. CASE Serving /\ known /\ a # port
      BY <1>6, <2>2, <3>1, <3>5
    <3>6. CASE Serving /\ known /\ a = port
      <4>1. UNCHANGED <<Serving, known>>
        BY <2>2, <3>1, <3>6
      <4> QED BY <1>2, <1>7, <4>1
    <3> QED BY <3>2, <3>3, <3>4, <3>5, <3>6
  <2> QED BY <2>4, <2>5 DEF Kind
<1>16. CASE EventArrives
  <2> DEFINE k == Head(events)[1]
             a == Head(events)[2]
  <2>1. UNCHANGED <<Serving, port>>
    BY <1>14, <1>16 DEF EventArrives
  <2>2. k \in Kind
    BY <1>9, <1>16 DEF EventArrives
  <2>3. /\ cache' = [cache EXCEPT ![k] = a]
        /\ slipped' = [slipped EXCEPT ![k] = FALSE]
    BY <1>16 DEF EventArrives, Handled
  <2> HIDE DEF k, a
  <2>4. CASE k = "token"
    <3>1. cache'["port"] = cache["port"] /\ slipped'["port"] = slipped["port"]
      BY <1>9, <2>3, <2>4
    <3> QED BY <1>2, <2>1, <3>1
  <2>5. CASE k = "port"
    <3>1. cache'["port"] = a /\ lost' = FALSE
      BY <1>9, <2>3, <2>5
    <3>2. CASE ~Serving \/ (known /\ a = port) \/ (~known /\ a # port)
      <4>1. UNCHANGED <<Serving, known>>
        BY <2>1, <3>1, <3>2
      <4> QED BY <1>2, <1>7, <4>1
    <3>3. CASE Serving /\ ~known /\ a = port
      BY <1>5, <2>1, <3>1, <3>3
    <3>4. CASE Serving /\ known /\ a # port
      BY <1>6, <2>1, <3>1, <3>4
    <3> QED BY <3>2, <3>3, <3>4
  <2> QED BY <2>2, <2>4, <2>5 DEF Kind
<1>17. CASE \/ \E k \in Kind : Listen(k) \/ Listening(k) \/ ListenFails(k) \/ Ask(k)
           \/ ChooseBase \/ Send
           \/ UNCHANGED allVars
  BY <1>13, <1>17 DEF Listen, Listening, ListenFails, Ask, ChooseBase, Send, allVars, client
<1> QED BY <1>12, <1>15, <1>16, <1>17 DEF ClientNext, ClientStep

\* The cached port keeps the promises of Backend, but for its liveness: it is
\* learnt after the sidecar's port is announced, and forgotten again only
\* when an older answer or event arrives late (sidecar.ts, _port)
THEOREM PortRefines == SafeSpec => Port!BackendInit /\ [][Port!BackendNext]_(Port!backend)
<1>1. ClientInit => Port!BackendInit
  BY DEF ClientInit, Init, Port!BackendInit, Serving, Kind
<1> QED BY <1>1, PortStep, ClientInvariant, PTL DEF SafeSpec, allVars

=============================================================================
