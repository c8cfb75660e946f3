---------------------------- MODULE SidecarProofs ----------------------------
(***************************************************************************)
(* The safety properties of Sidecar, for every number of retries.          *)
(*                                                                         *)
(* None of them is inductive alone.  OneSidecar needs to know that the     *)
(* only process that can run is the one of the chain's current attempt,    *)
(* and only while the chain stands between its spawn and its end           *)
(* (OnlyCurrent); that a recheck which kills through CHILD leaves nothing   *)
(* running needs Supervised; and that an app which leaves takes what is in *)
(* CHILD with it needs to know that a Child stored behind a finished       *)
(* `shutdown' is still waiting for its recheck (NothingBehind).            *)
(***************************************************************************)
EXTENDS Sidecar, TLAPS

Watching == {"store", "recheck", "scan", "probe", "publish", "watch"}

OnlyCurrent ==
  \A a \in Attempt : Alive(a) => a = chain.attempt /\ chain.pc \in Watching

TokenOfBoot == chain.pc \in Watching => token = chain.attempt

PortOfBoot ==
  port # Nobody => port = chain.attempt /\ chain.pc \in {"watch", "over"}

HeldIsDraining ==
  main.held # Nobody => main.pc = "draining"

FlagComesFirst == main.pc \in {"locking", "draining", "leaving"} => shutdown

NothingBehind ==
  main.pc \in {"draining", "leaving"} => child = Nobody \/ chain.pc = "recheck"

GivenUp == chain.pc = "over" /\ ~shutdown => chain.attempt = MaxRetries /\ fatal

\* The attempt of a chain that backs off is never the last
Backing == chain.pc = "backoff" => chain.attempt < MaxRetries

IInv ==
  /\ TypeOK
  /\ OnlyCurrent
  /\ Supervised
  /\ TokenOfBoot
  /\ PortOfBoot
  /\ HeldIsDraining
  /\ FlagComesFirst
  /\ NothingBehind
  /\ GivenUp
  /\ Backing

LEMMA InitIInv == Init => IInv
<1> SUFFICES ASSUME Init PROVE IInv
  OBVIOUS
<1>1. TypeOK
  <2>1. 0 \in Attempt /\ 0 \in 0 .. MaxRetries + 1
    BY MaxRetriesAssumption DEF Attempt
  <2>2. shutdown \in BOOLEAN /\ fatal \in BOOLEAN
    BY Zenon DEF Init
  <2>3. chain \in [pc: ChainPc, attempt: Attempt]
    BY <2>1 DEF Init, ChainPc
  <2>4. main \in [pc: MainPc, held: Attempt \cup {Nobody}]
    BY DEF Init, MainPc
  <2>5. proc \in [Attempt -> {"none", "running", "ended"}]
    BY DEF Init
  <2> QED BY <2>1, <2>2, <2>3, <2>4, <2>5 DEF Init, TypeOK, Health
<1>2. OnlyCurrent /\ Supervised /\ TokenOfBoot /\ PortOfBoot
  BY DEF Init, OnlyCurrent, Supervised, TokenOfBoot, PortOfBoot, Alive,
         Running, Watching
<1>3. HeldIsDraining /\ FlagComesFirst /\ NothingBehind /\ GivenUp /\ Backing
  BY DEF Init, HeldIsDraining, FlagComesFirst, NothingBehind, GivenUp, Backing
<1> QED BY <1>1, <1>2, <1>3 DEF IInv

LEMMA CheckShutdownStep ==
  ASSUME IInv, CheckShutdown PROVE IInv'
<1> USE DEF Watching, Up, Running, Alive, At, GoTo
<1>1. TypeOK'
  <2>1. chain' \in [pc: ChainPc, attempt: Attempt]
    BY DEF IInv, TypeOK, ChainPc, CheckShutdown, shell
  <2> QED BY <2>1 DEF IInv, TypeOK, CheckShutdown, shell
<1>2. OnlyCurrent' /\ Supervised'
  BY DEF IInv, TypeOK, OnlyCurrent, Supervised, CheckShutdown, shell
<1>3. TokenOfBoot' /\ PortOfBoot'
  BY DEF IInv, TypeOK, TokenOfBoot, PortOfBoot, CheckShutdown, shell
<1>4. /\ HeldIsDraining' /\ FlagComesFirst' /\ NothingBehind'
      /\ GivenUp' /\ Backing'
  BY DEF IInv, TypeOK, HeldIsDraining, FlagComesFirst, NothingBehind,
         GivenUp, Backing, CheckShutdown, shell
<1> QED BY <1>1, <1>2, <1>3, <1>4 DEF IInv

LEMMA SpawnFailsStep ==
  ASSUME IInv, SpawnFails PROVE IInv'
<1> USE DEF Watching, Up, Running, Alive, At, GoTo
<1>1. TypeOK'
  <2>1. chain' \in [pc: ChainPc, attempt: Attempt]
    BY DEF IInv, TypeOK, ChainPc, SpawnFails, BootFailed
  <2>2. shutdown' \in BOOLEAN /\ fatal' \in BOOLEAN
    BY Zenon DEF IInv, TypeOK, SpawnFails, BootFailed
  <2>3. health' \in Health /\ restarts' \in 0 .. MaxRetries + 1
    BY MaxRetriesAssumption DEF IInv, TypeOK, Health, SpawnFails,
           BootFailed, Attempt
  <2> QED BY <2>1, <2>2, <2>3 DEF IInv, TypeOK, SpawnFails, BootFailed
<1>2. OnlyCurrent' /\ Supervised'
  BY DEF IInv, TypeOK, OnlyCurrent, Supervised, SpawnFails, BootFailed
<1>3. TokenOfBoot' /\ PortOfBoot'
  BY DEF IInv, TypeOK, TokenOfBoot, PortOfBoot, SpawnFails, BootFailed
<1>4. HeldIsDraining' /\ FlagComesFirst' /\ NothingBehind' /\ Backing'
  BY MaxRetriesAssumption DEF IInv, TypeOK, HeldIsDraining, FlagComesFirst,
         NothingBehind, Backing, Attempt, SpawnFails, BootFailed
<1>5. GivenUp'
  <2>1. CASE chain.attempt = MaxRetries
    <3>1. fatal'
      BY <2>1, Zenon DEF SpawnFails, BootFailed
    <3>2. chain'.attempt = MaxRetries
      BY <2>1, MaxRetriesAssumption DEF IInv, TypeOK, Attempt, SpawnFails,
             BootFailed
    <3> QED BY <3>1, <3>2 DEF GivenUp
  <2>2. CASE ~(chain.attempt = MaxRetries)
    <3>1. chain'.pc = "backoff"
      BY <2>2 DEF SpawnFails, BootFailed
    <3> QED BY <3>1 DEF GivenUp
  <2> QED BY <2>1, <2>2
<1> QED BY <1>1, <1>2, <1>3, <1>4, <1>5 DEF IInv

LEMMA SpawnWorksStep ==
  ASSUME IInv, SpawnWorks PROVE IInv'
<1> USE DEF Watching, Up, Running, Alive, At, GoTo
<1>1. TypeOK'
  <2>1. chain' \in [pc: ChainPc, attempt: Attempt]
    BY DEF IInv, TypeOK, ChainPc, SpawnWorks
  <2>2. proc' \in [Attempt -> {"none", "running", "ended"}]
    BY DEF IInv, TypeOK, SpawnWorks
  <2> QED BY <2>1, <2>2 DEF IInv, TypeOK, SpawnWorks
<1>2. OnlyCurrent' /\ Supervised'
  BY DEF IInv, TypeOK, OnlyCurrent, Supervised, SpawnWorks
<1>3. TokenOfBoot' /\ PortOfBoot'
  BY DEF IInv, TypeOK, TokenOfBoot, PortOfBoot, SpawnWorks
<1>4. /\ HeldIsDraining' /\ FlagComesFirst' /\ NothingBehind'
      /\ GivenUp' /\ Backing'
  BY DEF IInv, TypeOK, HeldIsDraining, FlagComesFirst, NothingBehind,
         GivenUp, Backing, SpawnWorks
<1> QED BY <1>1, <1>2, <1>3, <1>4 DEF IInv

LEMMA StoreChildStep ==
  ASSUME IInv, StoreChild PROVE IInv'
<1> USE DEF Watching, Up, Running, Alive, At, GoTo
<1>1. TypeOK'
  <2>1. chain' \in [pc: ChainPc, attempt: Attempt]
    BY DEF IInv, TypeOK, ChainPc, StoreChild, shell, LockIsFree
  <2> QED BY <2>1 DEF IInv, TypeOK, StoreChild, shell, LockIsFree
<1>2. OnlyCurrent' /\ Supervised'
  BY DEF IInv, TypeOK, OnlyCurrent, Supervised, StoreChild, shell,
         LockIsFree
<1>3. TokenOfBoot' /\ PortOfBoot'
  BY DEF IInv, TypeOK, TokenOfBoot, PortOfBoot, StoreChild, shell,
         LockIsFree
<1>4. /\ HeldIsDraining' /\ FlagComesFirst' /\ NothingBehind'
      /\ GivenUp' /\ Backing'
  BY DEF IInv, TypeOK, HeldIsDraining, FlagComesFirst, NothingBehind,
         GivenUp, Backing, StoreChild, shell, LockIsFree
<1> QED BY <1>1, <1>2, <1>3, <1>4 DEF IInv

LEMMA RecheckAliveStep ==
  ASSUME IInv, RecheckAlive PROVE IInv'
<1> USE DEF Watching, Up, Running, Alive, At, GoTo
<1>1. TypeOK'
  <2>1. chain' \in [pc: ChainPc, attempt: Attempt]
    BY DEF IInv, TypeOK, ChainPc, RecheckAlive, shell
  <2> QED BY <2>1 DEF IInv, TypeOK, RecheckAlive, shell
<1>2. OnlyCurrent' /\ Supervised'
  BY DEF IInv, TypeOK, OnlyCurrent, Supervised, RecheckAlive, shell
<1>3. TokenOfBoot' /\ PortOfBoot'
  BY DEF IInv, TypeOK, TokenOfBoot, PortOfBoot, RecheckAlive, shell
<1>4. /\ HeldIsDraining' /\ FlagComesFirst' /\ NothingBehind'
      /\ GivenUp' /\ Backing'
  BY DEF IInv, TypeOK, HeldIsDraining, FlagComesFirst, NothingBehind,
         GivenUp, Backing, RecheckAlive, shell
<1> QED BY <1>1, <1>2, <1>3, <1>4 DEF IInv

LEMMA RecheckShutdownStep ==
  ASSUME IInv, RecheckShutdown PROVE IInv'
<1> USE DEF Watching, Up, Running, Alive, At, GoTo
<1>1. TypeOK'
  <2>1. chain' \in [pc: ChainPc, attempt: Attempt]
    BY DEF IInv, TypeOK, ChainPc, RecheckShutdown, BootFailed, KillChild,
           LockIsFree
  <2>2. shutdown' \in BOOLEAN /\ fatal' \in BOOLEAN
    BY Zenon DEF IInv, TypeOK, RecheckShutdown, BootFailed, KillChild,
           LockIsFree
  <2>3. proc' \in [Attempt -> {"none", "running", "ended"}]
    BY DEF IInv, TypeOK, RecheckShutdown, BootFailed, KillChild, LockIsFree
  <2>4. health' \in Health /\ restarts' \in 0 .. MaxRetries + 1
    BY MaxRetriesAssumption DEF IInv, TypeOK, Health, RecheckShutdown,
           BootFailed, KillChild, LockIsFree, Attempt
  <2> QED BY <2>1, <2>2, <2>3, <2>4 DEF IInv, TypeOK, RecheckShutdown, BootFailed,
         KillChild, LockIsFree
<1>2. OnlyCurrent' /\ Supervised'
  BY DEF IInv, TypeOK, OnlyCurrent, Supervised, RecheckShutdown,
         BootFailed, KillChild, LockIsFree, HeldIsDraining, Nobody, Attempt
<1>3. TokenOfBoot' /\ PortOfBoot'
  BY DEF IInv, TypeOK, TokenOfBoot, PortOfBoot, RecheckShutdown,
         BootFailed, KillChild, LockIsFree
<1>4. HeldIsDraining' /\ FlagComesFirst' /\ NothingBehind' /\ Backing'
  BY MaxRetriesAssumption DEF IInv, TypeOK, HeldIsDraining, FlagComesFirst,
         NothingBehind, Backing, Attempt, RecheckShutdown, BootFailed,
         KillChild, LockIsFree
<1>5. GivenUp'
  <2>1. CASE chain.attempt = MaxRetries
    <3>1. fatal'
      BY <2>1, Zenon DEF RecheckShutdown, BootFailed, KillChild, LockIsFree
    <3>2. chain'.attempt = MaxRetries
      BY <2>1, MaxRetriesAssumption DEF IInv, TypeOK, Attempt,
             RecheckShutdown, BootFailed, KillChild, LockIsFree
    <3> QED BY <3>1, <3>2 DEF GivenUp
  <2>2. CASE ~(chain.attempt = MaxRetries)
    <3>1. chain'.pc = "backoff"
      BY <2>2 DEF RecheckShutdown, BootFailed, KillChild, LockIsFree
    <3> QED BY <3>1 DEF GivenUp
  <2> QED BY <2>1, <2>2
<1> QED BY <1>1, <1>2, <1>3, <1>4, <1>5 DEF IInv

LEMMA PortLineStep ==
  ASSUME IInv, PortLine PROVE IInv'
<1> USE DEF Watching, Up, Running, Alive, At, GoTo
<1>1. TypeOK'
  <2>1. chain' \in [pc: ChainPc, attempt: Attempt]
    BY DEF IInv, TypeOK, ChainPc, PortLine, shell
  <2> QED BY <2>1 DEF IInv, TypeOK, PortLine, shell
<1>2. OnlyCurrent' /\ Supervised'
  BY DEF IInv, TypeOK, OnlyCurrent, Supervised, PortLine, shell
<1>3. TokenOfBoot' /\ PortOfBoot'
  BY DEF IInv, TypeOK, TokenOfBoot, PortOfBoot, PortLine, shell
<1>4. /\ HeldIsDraining' /\ FlagComesFirst' /\ NothingBehind'
      /\ GivenUp' /\ Backing'
  BY DEF IInv, TypeOK, HeldIsDraining, FlagComesFirst, NothingBehind,
         GivenUp, Backing, PortLine, shell
<1> QED BY <1>1, <1>2, <1>3, <1>4 DEF IInv

LEMMA ProbeAnswersStep ==
  ASSUME IInv, ProbeAnswers PROVE IInv'
<1> USE DEF Watching, Up, Running, Alive, At, GoTo
<1>1. TypeOK'
  <2>1. chain' \in [pc: ChainPc, attempt: Attempt]
    BY DEF IInv, TypeOK, ChainPc, ProbeAnswers, shell
  <2> QED BY <2>1 DEF IInv, TypeOK, ProbeAnswers, shell
<1>2. OnlyCurrent' /\ Supervised'
  BY DEF IInv, TypeOK, OnlyCurrent, Supervised, ProbeAnswers, shell
<1>3. TokenOfBoot' /\ PortOfBoot'
  BY DEF IInv, TypeOK, TokenOfBoot, PortOfBoot, ProbeAnswers, shell
<1>4. /\ HeldIsDraining' /\ FlagComesFirst' /\ NothingBehind'
      /\ GivenUp' /\ Backing'
  BY DEF IInv, TypeOK, HeldIsDraining, FlagComesFirst, NothingBehind,
         GivenUp, Backing, ProbeAnswers, shell
<1> QED BY <1>1, <1>2, <1>3, <1>4 DEF IInv

LEMMA ProbeFailsStep ==
  ASSUME IInv, ProbeFails PROVE IInv'
<1> USE DEF Watching, Up, Running, Alive, At, GoTo
<1>1. TypeOK'
  <2>1. chain' \in [pc: ChainPc, attempt: Attempt]
    BY DEF IInv, TypeOK, ChainPc, ProbeFails
  <2>2. health' \in Health /\ restarts' \in 0 .. MaxRetries + 1
    BY DEF IInv, TypeOK, Health, ProbeFails
  <2> QED BY <2>1, <2>2 DEF IInv, TypeOK, ProbeFails
<1>2. OnlyCurrent' /\ Supervised'
  BY DEF IInv, TypeOK, OnlyCurrent, Supervised, ProbeFails
<1>3. TokenOfBoot' /\ PortOfBoot'
  BY DEF IInv, TypeOK, TokenOfBoot, PortOfBoot, ProbeFails
<1>4. /\ HeldIsDraining' /\ FlagComesFirst' /\ NothingBehind'
      /\ GivenUp' /\ Backing'
  BY DEF IInv, TypeOK, HeldIsDraining, FlagComesFirst, NothingBehind,
         GivenUp, Backing, ProbeFails
<1> QED BY <1>1, <1>2, <1>3, <1>4 DEF IInv

LEMMA PublishStep ==
  ASSUME IInv, Publish PROVE IInv'
<1> USE DEF Watching, Up, Running, Alive, At, GoTo
<1>1. TypeOK'
  <2>1. chain' \in [pc: ChainPc, attempt: Attempt]
    BY DEF IInv, TypeOK, ChainPc, Publish
  <2>2. health' \in Health /\ restarts' \in 0 .. MaxRetries + 1
    BY DEF IInv, TypeOK, Health, Publish
  <2> QED BY <2>1, <2>2 DEF IInv, TypeOK, Publish
<1>2. OnlyCurrent' /\ Supervised'
  BY DEF IInv, TypeOK, OnlyCurrent, Supervised, Publish
<1>3. TokenOfBoot' /\ PortOfBoot'
  BY DEF IInv, TypeOK, TokenOfBoot, PortOfBoot, Publish
<1>4. /\ HeldIsDraining' /\ FlagComesFirst' /\ NothingBehind'
      /\ GivenUp' /\ Backing'
  BY DEF IInv, TypeOK, HeldIsDraining, FlagComesFirst, NothingBehind,
         GivenUp, Backing, Publish
<1> QED BY <1>1, <1>2, <1>3, <1>4 DEF IInv

LEMMA SidecarExitExpectedStep ==
  ASSUME IInv, SidecarExitExpected PROVE IInv'
<1> USE DEF Watching, Up, Running, Alive, At, GoTo
<1>1. TypeOK'
  <2>1. chain' \in [pc: ChainPc, attempt: Attempt]
    BY DEF IInv, TypeOK, ChainPc, SidecarExitExpected, StdoutCloses
  <2>2. health' \in Health /\ restarts' \in 0 .. MaxRetries + 1
    BY DEF IInv, TypeOK, Health, SidecarExitExpected, StdoutCloses
  <2> QED BY <2>1, <2>2 DEF IInv, TypeOK, SidecarExitExpected, StdoutCloses
<1>2. OnlyCurrent' /\ Supervised'
  BY DEF IInv, TypeOK, OnlyCurrent, Supervised, SidecarExitExpected,
         StdoutCloses
<1>3. TokenOfBoot' /\ PortOfBoot'
  BY DEF IInv, TypeOK, TokenOfBoot, PortOfBoot, SidecarExitExpected,
         StdoutCloses
<1>4. /\ HeldIsDraining' /\ FlagComesFirst' /\ NothingBehind'
      /\ GivenUp' /\ Backing'
  BY DEF IInv, TypeOK, HeldIsDraining, FlagComesFirst, NothingBehind,
         GivenUp, Backing, SidecarExitExpected, StdoutCloses
<1> QED BY <1>1, <1>2, <1>3, <1>4 DEF IInv

LEMMA SidecarExitCrashStep ==
  ASSUME IInv, SidecarExitCrash PROVE IInv'
<1> USE DEF Watching, Up, Running, Alive, At, GoTo
<1>1. TypeOK'
  <2>1. chain' \in [pc: ChainPc, attempt: Attempt]
    BY DEF IInv, TypeOK, ChainPc, SidecarExitCrash, StdoutCloses
  <2>2. shutdown' \in BOOLEAN /\ fatal' \in BOOLEAN
    BY Zenon DEF IInv, TypeOK, SidecarExitCrash, StdoutCloses
  <2>3. health' \in Health /\ restarts' \in 0 .. MaxRetries + 1
    BY MaxRetriesAssumption DEF IInv, TypeOK, Health, SidecarExitCrash,
           StdoutCloses, Attempt
  <2> QED BY <2>1, <2>2, <2>3 DEF IInv, TypeOK, SidecarExitCrash, StdoutCloses
<1>2. OnlyCurrent' /\ Supervised'
  BY DEF IInv, TypeOK, OnlyCurrent, Supervised, SidecarExitCrash,
         StdoutCloses
<1>3. TokenOfBoot' /\ PortOfBoot'
  BY DEF IInv, TypeOK, TokenOfBoot, PortOfBoot, SidecarExitCrash,
         StdoutCloses
<1>4. HeldIsDraining' /\ FlagComesFirst' /\ NothingBehind' /\ Backing'
  BY MaxRetriesAssumption DEF IInv, TypeOK, HeldIsDraining, FlagComesFirst,
         NothingBehind, Backing, Attempt, SidecarExitCrash, StdoutCloses
<1>5. GivenUp'
  <2>1. CASE chain.attempt + 1 > MaxRetries
    <3>1. fatal'
      BY <2>1, Zenon DEF SidecarExitCrash, StdoutCloses
    <3>2. chain'.attempt = MaxRetries
      BY <2>1, MaxRetriesAssumption DEF IInv, TypeOK, Attempt,
             SidecarExitCrash, StdoutCloses
    <3> QED BY <3>1, <3>2 DEF GivenUp
  <2>2. CASE ~(chain.attempt + 1 > MaxRetries)
    <3>1. chain'.pc = "backoff"
      BY <2>2 DEF SidecarExitCrash, StdoutCloses
    <3> QED BY <3>1 DEF GivenUp
  <2> QED BY <2>1, <2>2
<1> QED BY <1>1, <1>2, <1>3, <1>4, <1>5 DEF IInv

LEMMA BackoffStep ==
  ASSUME IInv, Backoff PROVE IInv'
<1> USE DEF Watching, Up, Running, Alive, At, GoTo
<1>1. TypeOK'
  <2>1. chain' \in [pc: ChainPc, attempt: Attempt]
    BY MaxRetriesAssumption DEF IInv, TypeOK, ChainPc, Backoff, shell,
           Attempt, Backing
  <2> QED BY <2>1 DEF IInv, TypeOK, Backoff, shell
<1>2. OnlyCurrent' /\ Supervised'
  BY DEF IInv, TypeOK, OnlyCurrent, Supervised, Backoff, shell
<1>3. TokenOfBoot' /\ PortOfBoot'
  BY DEF IInv, TypeOK, TokenOfBoot, PortOfBoot, Backoff, shell
<1>4. /\ HeldIsDraining' /\ FlagComesFirst' /\ NothingBehind'
      /\ GivenUp' /\ Backing'
  BY DEF IInv, TypeOK, HeldIsDraining, FlagComesFirst, NothingBehind,
         GivenUp, Backing, Backoff, shell
<1> QED BY <1>1, <1>2, <1>3, <1>4 DEF IInv

LEMMA ExitRequestedStep ==
  ASSUME IInv, ExitRequested PROVE IInv'
<1> USE DEF Watching, Up, Running, Alive, At, GoTo
<1>1. TypeOK'
  <2>1. main' \in [pc: MainPc, held: Attempt \cup {Nobody}]
    BY DEF IInv, TypeOK, MainPc, ExitRequested, shell
  <2>2. shutdown' \in BOOLEAN /\ fatal' \in BOOLEAN
    BY Zenon DEF IInv, TypeOK, ExitRequested, shell
  <2> QED BY <2>1, <2>2 DEF IInv, TypeOK, ExitRequested, shell
<1>2. OnlyCurrent' /\ Supervised'
  BY DEF IInv, TypeOK, OnlyCurrent, Supervised, ExitRequested, shell,
         HeldIsDraining, Nobody, Attempt
<1>3. TokenOfBoot' /\ PortOfBoot'
  BY DEF IInv, TypeOK, TokenOfBoot, PortOfBoot, ExitRequested, shell
<1>4. /\ HeldIsDraining' /\ FlagComesFirst' /\ NothingBehind'
      /\ GivenUp' /\ Backing'
  BY DEF IInv, TypeOK, HeldIsDraining, FlagComesFirst, NothingBehind,
         GivenUp, Backing, ExitRequested, shell
<1> QED BY <1>1, <1>2, <1>3, <1>4 DEF IInv

LEMMA TakeChildStep ==
  ASSUME IInv, TakeChild PROVE IInv'
<1> USE DEF Watching, Up, Running, Alive, At, GoTo
<1>1. TypeOK'
  <2>1. main' \in [pc: MainPc, held: Attempt \cup {Nobody}]
    BY DEF IInv, TypeOK, MainPc, TakeChild, shell
  <2> QED BY <2>1 DEF IInv, TypeOK, TakeChild, shell
<1>2. OnlyCurrent' /\ Supervised'
  BY DEF IInv, TypeOK, OnlyCurrent, Supervised, TakeChild, shell,
         HeldIsDraining, Nobody, Attempt
<1>3. TokenOfBoot' /\ PortOfBoot'
  BY DEF IInv, TypeOK, TokenOfBoot, PortOfBoot, TakeChild, shell
<1>4. /\ HeldIsDraining' /\ FlagComesFirst' /\ NothingBehind'
      /\ GivenUp' /\ Backing'
  BY DEF IInv, TypeOK, HeldIsDraining, FlagComesFirst, NothingBehind,
         GivenUp, Backing, TakeChild, shell
<1> QED BY <1>1, <1>2, <1>3, <1>4 DEF IInv

LEMMA DrainedStep ==
  ASSUME IInv, Drained PROVE IInv'
<1> USE DEF Watching, Up, Running, Alive, At, GoTo
<1>1. TypeOK'
  <2>1. main' \in [pc: MainPc, held: Attempt \cup {Nobody}]
    BY DEF IInv, TypeOK, MainPc, Drained, shell
  <2>2. proc' \in [Attempt -> {"none", "running", "ended"}]
    BY DEF IInv, TypeOK, Drained, shell
  <2> QED BY <2>1, <2>2 DEF IInv, TypeOK, Drained, shell
<1>2. OnlyCurrent' /\ Supervised'
  BY DEF IInv, TypeOK, OnlyCurrent, Supervised, Drained, shell
<1>3. TokenOfBoot' /\ PortOfBoot'
  BY DEF IInv, TypeOK, TokenOfBoot, PortOfBoot, Drained, shell
<1>4. /\ HeldIsDraining' /\ FlagComesFirst' /\ NothingBehind'
      /\ GivenUp' /\ Backing'
  BY DEF IInv, TypeOK, HeldIsDraining, FlagComesFirst, NothingBehind,
         GivenUp, Backing, Drained, shell
<1> QED BY <1>1, <1>2, <1>3, <1>4 DEF IInv

LEMMA AppExitsStep ==
  ASSUME IInv, AppExits PROVE IInv'
<1> USE DEF Watching, Up, Running, Alive, At, GoTo
<1>1. TypeOK'
  <2>1. main' \in [pc: MainPc, held: Attempt \cup {Nobody}]
    BY DEF IInv, TypeOK, MainPc, AppExits, shell
  <2> QED BY <2>1 DEF IInv, TypeOK, AppExits, shell
<1>2. OnlyCurrent' /\ Supervised'
  BY DEF IInv, TypeOK, OnlyCurrent, Supervised, AppExits, shell
<1>3. TokenOfBoot' /\ PortOfBoot'
  BY DEF IInv, TypeOK, TokenOfBoot, PortOfBoot, AppExits, shell
<1>4. /\ HeldIsDraining' /\ FlagComesFirst' /\ NothingBehind'
      /\ GivenUp' /\ Backing'
  BY DEF IInv, TypeOK, HeldIsDraining, FlagComesFirst, NothingBehind,
         GivenUp, Backing, AppExits, shell
<1> QED BY <1>1, <1>2, <1>3, <1>4 DEF IInv

LEMMA PanicStep ==
  ASSUME IInv, Panic PROVE IInv'
<1> USE DEF Watching, Up, Running, Alive, At, GoTo
<1>1. TypeOK'
  <2>1. main' \in [pc: MainPc, held: Attempt \cup {Nobody}]
    BY DEF IInv, TypeOK, MainPc, Panic, KillChild, LockIsFree, shell
  <2>2. proc' \in [Attempt -> {"none", "running", "ended"}]
    BY DEF IInv, TypeOK, Panic, KillChild, LockIsFree, shell
  <2> QED BY <2>1, <2>2 DEF IInv, TypeOK, Panic, KillChild, LockIsFree, shell
<1>2. OnlyCurrent' /\ Supervised'
  BY DEF IInv, TypeOK, OnlyCurrent, Supervised, Panic, KillChild,
         LockIsFree, shell
<1>3. TokenOfBoot' /\ PortOfBoot'
  BY DEF IInv, TypeOK, TokenOfBoot, PortOfBoot, Panic, KillChild,
         LockIsFree, shell
<1>4. /\ HeldIsDraining' /\ FlagComesFirst' /\ NothingBehind'
      /\ GivenUp' /\ Backing'
  BY DEF IInv, TypeOK, HeldIsDraining, FlagComesFirst, NothingBehind,
         GivenUp, Backing, Panic, KillChild, LockIsFree, shell
<1> QED BY <1>1, <1>2, <1>3, <1>4 DEF IInv

LEMMA ProcessDiesStep ==
  ASSUME IInv, NEW a \in Attempt, ProcessDies(a) PROVE IInv'
<1> USE DEF Watching, Up, Running, Alive, At, GoTo
<1>1. TypeOK'
  <2>1. proc' \in [Attempt -> {"none", "running", "ended"}]
    BY DEF IInv, TypeOK, ProcessDies, shell
  <2> QED BY <2>1 DEF IInv, TypeOK, ProcessDies, shell
<1>2. OnlyCurrent' /\ Supervised'
  BY DEF IInv, TypeOK, OnlyCurrent, Supervised, ProcessDies, shell
<1>3. TokenOfBoot' /\ PortOfBoot'
  BY DEF IInv, TypeOK, TokenOfBoot, PortOfBoot, ProcessDies, shell
<1>4. /\ HeldIsDraining' /\ FlagComesFirst' /\ NothingBehind'
      /\ GivenUp' /\ Backing'
  BY DEF IInv, TypeOK, HeldIsDraining, FlagComesFirst, NothingBehind,
         GivenUp, Backing, ProcessDies, shell
<1> QED BY <1>1, <1>2, <1>3, <1>4 DEF IInv

----------------------------------------------------------------------------
LEMMA StutterStep ==
  ASSUME IInv, UNCHANGED vars PROVE IInv'
<1> USE DEF Watching, Up, Running, Alive, vars, shell
<1>1. TypeOK' /\ OnlyCurrent' /\ Supervised'
  BY DEF IInv, TypeOK, OnlyCurrent, Supervised
<1>2. TokenOfBoot' /\ PortOfBoot'
  BY DEF IInv, TokenOfBoot, PortOfBoot
<1>3. HeldIsDraining' /\ FlagComesFirst' /\ NothingBehind' /\ GivenUp' /\ Backing'
  BY DEF IInv, HeldIsDraining, FlagComesFirst, NothingBehind, GivenUp, Backing
<1> QED BY <1>1, <1>2, <1>3 DEF IInv

LEMMA NextIInv == IInv /\ [Next]_vars => IInv'
<1> SUFFICES ASSUME IInv, [Next]_vars PROVE IInv'
  OBVIOUS
<1>1. CASE ChainStep
  BY <1>1, CheckShutdownStep, SpawnFailsStep, SpawnWorksStep, StoreChildStep, RecheckAliveStep, RecheckShutdownStep, ProbeAnswersStep, ProbeFailsStep, PublishStep, SidecarExitExpectedStep, SidecarExitCrashStep, BackoffStep
     DEF ChainStep
<1>2. CASE ShutdownStep
  BY <1>2, TakeChildStep, DrainedStep, AppExitsStep DEF ShutdownStep
<1>3. CASE PortLine
  BY <1>3, PortLineStep
<1>4. CASE ExitRequested
  BY <1>4, ExitRequestedStep
<1>5. CASE Panic
  BY <1>5, PanicStep
<1>6. ASSUME NEW a \in Attempt, ProcessDies(a) PROVE IInv'
  BY <1>6, ProcessDiesStep
<1>7. CASE UNCHANGED vars
  BY <1>7, StutterStep
<1> QED BY <1>1, <1>2, <1>3, <1>4, <1>5, <1>6, <1>7 DEF Next

\* The invariant the other theorems are read from.
THEOREM InvariantHolds == Spec => []IInv
<1> QED BY InitIInv, NextIInv, PTL DEF Spec

\* Every variable keeps its type, through any number of crashes and boots.
THEOREM TypeCorrect == Spec => []TypeOK
<1>1. IInv => TypeOK
  BY DEF IInv
<1> QED BY <1>1, InvariantHolds, PTL

\* on_sidecar_exit and the recheck never leave two Python processes running.
THEOREM NeverTwoSidecars == Spec => []OneSidecar
<1>1. IInv => OneSidecar
  BY DEF IInv, OnlyCurrent, OneSidecar, Running
<1> QED BY <1>1, InvariantHolds, PTL

\* As long as the app lives, a quit or a panic can find the running process.
THEOREM AlwaysSupervised == Spec => []Supervised
<1>1. IInv => Supervised
  BY DEF IInv
<1> QED BY <1>1, InvariantHolds, PTL

\* AppState hands the web view the token and the port of the current boot.
THEOREM ShellStaysCurrent == Spec => []ShellIsCurrent
<1>1. IInv => ShellIsCurrent
  BY DEF IInv, OnlyCurrent, TokenOfBoot, PortOfBoot, ShellIsCurrent, Running
<1> QED BY <1>1, InvariantHolds, PTL

\* The chain never gives up with attempts left, nor without sidecar:fatal.
THEOREM NeverGivesUpEarly == Spec => []GivesUpLoudly
<1>1. IInv => GivesUpLoudly
  BY DEF IInv, GivenUp, GivesUpLoudly, At
<1> QED BY <1>1, InvariantHolds, PTL

\* The gap the source's comment overlooks is the only one a quit leaves, and
\* a panic adds only the one of its try_lock.
THEOREM GapsAreKnown == Spec => OnlyKnownGaps
<1> DEFINE Gap(a) ==
      \/ chain = [pc |-> "store", attempt |-> a]
      \/ chain = [pc |-> "recheck", attempt |-> a] /\ shutdown
      \/ main = [pc |-> "draining", held |-> a]
<1>1. ASSUME IInv, [Next]_vars, Up, ~Up',
             NEW a \in Attempt, proc'[a] = "running"
      PROVE  Gap(a)
  <2>1. AppExits \/ Panic
    BY <1>1 DEF Next, ChainStep, ShutdownStep, CheckShutdown, SpawnFails,
       SpawnWorks, StoreChild, RecheckAlive, RecheckShutdown, ProbeAnswers,
       ProbeFails, Publish, SidecarExitExpected, SidecarExitCrash, Backoff,
       PortLine, ExitRequested, TakeChild, Drained, ProcessDies, Up, vars
  <2>2. CASE AppExits
    <3>1. /\ Alive(a) /\ main.pc = "leaving" /\ shutdown
          /\ child = Nobody \/ chain.pc = "recheck"
      BY <1>1, <2>2 DEF AppExits, IInv, FlagComesFirst, NothingBehind, Alive
    <3>2. main.held # a
      BY <3>1, <1>1 DEF IInv, HeldIsDraining, Attempt, Nobody
    <3>3. child = a \/ chain = [pc |-> "store", attempt |-> a]
      BY <1>1, <3>1, <3>2 DEF IInv, Supervised, Running
    <3>4. a # Nobody
      BY DEF Attempt, Nobody
    <3>5. CASE child = a
      BY <1>1, <3>1, <3>4, <3>5 DEF IInv, TypeOK, OnlyCurrent
    <3> QED BY <3>3, <3>5
  <2>3. CASE Panic
    <3>1. Alive(a) /\ (LockIsFree => child # a)
      BY <1>1, <2>3, MaxRetriesAssumption
         DEF Panic, KillChild, Alive, IInv, TypeOK, Attempt, Nobody
    <3>2. \/ child = a \/ main.held = a
          \/ chain = [pc |-> "store", attempt |-> a]
      BY <1>1, <3>1 DEF IInv, Supervised, Running
    <3>3. ~LockIsFree => child # a \/ chain.pc = "recheck"
      BY <1>1 DEF IInv, NothingBehind, LockIsFree, Attempt, Nobody
    <3>4. CASE child = a
      BY <1>1, <3>1, <3>3, <3>4
         DEF IInv, TypeOK, OnlyCurrent, FlagComesFirst, LockIsFree
    <3>5. CASE main.held = a
      BY <1>1, <3>5 DEF IInv, TypeOK, HeldIsDraining, Attempt, Nobody
    <3> QED BY <3>2, <3>4, <3>5
  <2> QED BY <2>1, <2>2, <2>3
<1>2. IInv /\ [Next]_vars =>
        [Up /\ ~Up' => \A a \in Attempt : proc'[a] = "running" => Gap(a)]_vars
  BY <1>1
<1> QED BY <1>2, InvariantHolds, PTL DEF Spec, OnlyKnownGaps
=============================================================================
