------------------------------- MODULE Sidecar -------------------------------
(***************************************************************************)
(* The supervisor of the Python sidecar: tauri/src/sidecar.rs, called from *)
(* the setup, exit and panic paths of tauri/src/lib.rs.                    *)
(*                                                                         *)
(* Four kinds of actor take turns.  A chain of threads boots the sidecar,  *)
(* scans its stdout and boots the next one when it dies; only one thread   *)
(* of the chain is alive at a time, so it is modelled as one process with  *)
(* a program counter.  The main thread runs the app and, on ExitRequested, *)
(* `shutdown'.  The Python processes live and die on their own.  A panic   *)
(* in any thread runs the panic hook and aborts the app.                   *)
(*                                                                         *)
(* A boot is named by its attempt number, which only grows: the process,   *)
(* its token, its port and its Child handle all carry the number of the    *)
(* boot they come from.                                                    *)
(***************************************************************************)
EXTENDS Integers

CONSTANT MaxRetries      \* MAX_RETRIES
ASSUME MaxRetriesAssumption == MaxRetries \in Nat

Attempt == 0 .. MaxRetries
Nobody == -1             \* None: no token, no port, no Child

VARIABLES
  chain,      \* [pc, attempt]: the live thread of the chain and its boot
  proc,       \* proc[a]: the Python process of boot a
  child,      \* the CHILD slot: the boot whose Child it holds
  main,       \* [pc, held]: the main thread and the Child `shutdown' took
  shutdown,   \* AppState.sidecar_shutdown
  token,      \* AppState.sidecar_auth_token, by the boot that minted it
  port,       \* AppState.sidecar_port, by the boot that announced it
  health,     \* AppState.sidecar_health.status
  restarts,   \* AppState.sidecar_health.restarts
  fatal       \* sidecar:fatal was emitted

shell == <<token, port, health, restarts, fatal>>
vars == <<chain, proc, child, main, shutdown, shell>>

ChainPc == {"check", "boot", "store", "recheck", "scan", "probe", "publish",
            "watch", "backoff", "over"}
MainPc == {"running", "locking", "draining", "leaving", "quit", "aborted"}
Health == {"booting", "healthy", "crashed", "stopped"}

TypeOK ==
  /\ chain \in [pc: ChainPc, attempt: Attempt]
  /\ proc \in [Attempt -> {"none", "running", "ended"}]
  /\ child \in Attempt \cup {Nobody}
  /\ main \in [pc: MainPc, held: Attempt \cup {Nobody}]
  /\ shutdown \in BOOLEAN
  /\ token \in Attempt \cup {Nobody}
  /\ port \in Attempt \cup {Nobody}
  /\ health \in Health
  /\ restarts \in 0 .. MaxRetries + 1
  /\ fatal \in BOOLEAN

Init ==
  /\ chain = [pc |-> "check", attempt |-> 0]
  /\ proc = [a \in Attempt |-> "none"]
  /\ child = Nobody
  /\ main = [pc |-> "running", held |-> Nobody]
  /\ shutdown = FALSE
  /\ token = Nobody /\ port = Nobody
  /\ health = "booting" /\ restarts = 0 /\ fatal = FALSE

Up == main.pc \notin {"quit", "aborted"}     \* the app process exists
At(pc) == chain.pc = pc /\ Up
GoTo(pc) == chain' = [pc |-> pc, attempt |-> chain.attempt]
Alive(a) == proc[a] = "running"
LockIsFree == main.pc # "draining"      \* CHILD.lock()

----------------------------------------------------------------------------
(* The chain: spawn_with_restarts, boot_one, its reader and on_sidecar_exit *)

\* Mutant of BootFailed: no last attempt
BootFailedForever ==
  /\ health' = "crashed"
  /\ restarts' = chain.attempt
  /\ fatal' = fatal
  /\ GoTo("backoff")

\* A boot that failed: crashed is recorded, and the next attempt waits
BootFailed ==
  /\ health' = "crashed"
  /\ restarts' = chain.attempt
  /\ fatal' = (fatal \/ chain.attempt = MaxRetries)
  /\ GoTo(IF chain.attempt = MaxRetries THEN "over" ELSE "backoff")

CheckShutdown ==
  /\ At("check")
  /\ GoTo(IF shutdown THEN "over" ELSE "boot")
  /\ UNCHANGED <<proc, child, main, shutdown, shell>>

\* boot_one up to command.spawn(): the token is minted first, and stays
\* when no binary is found or the spawn fails
SpawnFails ==
  /\ At("boot")
  /\ token' = chain.attempt
  /\ BootFailed
  /\ UNCHANGED <<proc, child, main, shutdown, port>>

SpawnWorks ==
  /\ At("boot")
  /\ token' = chain.attempt
  /\ proc' = [proc EXCEPT ![chain.attempt] = "running"]
  /\ GoTo("store")
  /\ UNCHANGED <<child, main, shutdown, port, health, restarts, fatal>>

\* Mutant of StoreChild: the handle is dropped
StoreChildNowhere ==
  /\ At("store") /\ LockIsFree
  /\ GoTo("recheck")
  /\ UNCHANGED <<proc, child, main, shutdown, shell>>

\* *CHILD.lock() = Some(child): the previous Child is dropped, not killed
StoreChild ==
  /\ At("store") /\ LockIsFree
  /\ child' = chain.attempt
  /\ GoTo("recheck")
  /\ UNCHANGED <<proc, main, shutdown, shell>>

\* Mutant of RecheckAlive: no second look
RecheckNothing ==
  /\ At("recheck")
  /\ GoTo("scan")
  /\ UNCHANGED <<proc, child, main, shutdown, shell>>

\* The second look at the flag, which closes the shutdown / spawn race
RecheckAlive ==
  /\ At("recheck") /\ ~shutdown
  /\ GoTo("scan")
  /\ UNCHANGED <<proc, child, main, shutdown, shell>>

KillChild ==
  /\ proc' = IF child = Nobody THEN proc ELSE [proc EXCEPT ![child] = "ended"]
  /\ child' = Nobody

RecheckShutdown ==
  /\ At("recheck") /\ shutdown /\ LockIsFree
  /\ KillChild
  /\ BootFailed
  /\ UNCHANGED <<main, shutdown, token, port>>

\* The SIDECAR_PORT line is read, perhaps from the pipe of a dead process
PortLine ==
  /\ At("scan")
  /\ GoTo("probe")
  /\ UNCHANGED <<proc, child, main, shutdown, shell>>

\* wait_for_health: at most 80 probes
ProbeAnswers ==
  /\ At("probe") /\ Alive(chain.attempt)
  /\ GoTo("publish")
  /\ UNCHANGED <<proc, child, main, shutdown, shell>>

ProbeFails ==
  /\ At("probe")
  /\ health' = "crashed"
  /\ GoTo("watch")
  /\ UNCHANGED <<proc, child, main, shutdown, token, port, restarts, fatal>>

Publish ==
  /\ At("publish")
  /\ port' = chain.attempt
  /\ health' = "healthy"
  /\ GoTo("watch")
  /\ UNCHANGED <<proc, child, main, shutdown, token, restarts, fatal>>

\* Mutant of StdoutCloses: the reader may end before the process does
StdoutClosesEarly == At("scan") \/ At("watch")

\* The reader meets the end of stdout, which the process closes by ending
StdoutCloses == (At("scan") \/ At("watch")) /\ ~Alive(chain.attempt)

SidecarExitExpected ==
  /\ StdoutCloses /\ shutdown
  /\ health' = IF health = "crashed" THEN health ELSE "stopped"
  /\ GoTo("over")
  /\ UNCHANGED <<proc, child, main, shutdown, token, port, restarts, fatal>>

\* Mutants of SidecarExitCrash: the stale port stays; one attempt too few; a
\* process already marked crashed is not restarted
SidecarExitKeepsPort ==
  /\ StdoutCloses /\ ~shutdown
  /\ health' = "crashed"
  /\ restarts' = chain.attempt + 1
  /\ fatal' = (fatal \/ chain.attempt + 1 > MaxRetries)
  /\ GoTo(IF chain.attempt + 1 > MaxRetries THEN "over" ELSE "backoff")
  /\ UNCHANGED <<proc, child, main, shutdown, token, port>>

SidecarExitOnce ==
  /\ StdoutCloses /\ ~shutdown /\ health # "crashed"
  /\ port' = Nobody
  /\ health' = "crashed"
  /\ restarts' = chain.attempt + 1
  /\ fatal' = (fatal \/ chain.attempt + 1 > MaxRetries)
  /\ GoTo(IF chain.attempt + 1 > MaxRetries THEN "over" ELSE "backoff")
  /\ UNCHANGED <<proc, child, main, shutdown, token>>

SidecarExitCrash ==
  /\ StdoutCloses /\ ~shutdown
  /\ port' = Nobody
  /\ health' = "crashed"
  /\ restarts' = chain.attempt + 1
  /\ fatal' = (fatal \/ chain.attempt + 1 > MaxRetries)
  /\ GoTo(IF chain.attempt + 1 > MaxRetries THEN "over" ELSE "backoff")
  /\ UNCHANGED <<proc, child, main, shutdown, token>>

\* sleep_while_alive, then the next attempt's own look at the flag
Backoff ==
  /\ At("backoff")
  /\ chain' = [pc |-> "check", attempt |-> chain.attempt + 1]
  /\ UNCHANGED <<proc, child, main, shutdown, shell>>

----------------------------------------------------------------------------
(* The main thread: ExitRequested runs `shutdown', then the app exits *)

ExitRequested ==
  /\ main.pc = "running"
  /\ shutdown' = TRUE
  /\ main' = [pc |-> "locking", held |-> Nobody]
  /\ UNCHANGED <<chain, proc, child, shell>>

\* CHILD.lock() and take(): the lock is held for as long as the child drains
TakeChild ==
  /\ main.pc = "locking"
  /\ child' = Nobody
  /\ main' = [pc |-> IF child = Nobody THEN "leaving" ELSE "draining",
              held |-> child]
  /\ UNCHANGED <<chain, proc, shutdown, shell>>

\* Mutant of Drained: SIGTERM only
DrainedPolitely ==
  /\ main.pc = "draining" /\ ~Alive(main.held)
  /\ main' = [pc |-> "leaving", held |-> Nobody]
  /\ UNCHANGED <<chain, proc, child, shutdown, shell>>

\* try_wait finds it exited after SIGTERM, or five seconds pass and SIGKILL
\* and wait end it: either way it is over when shutdown returns
Drained ==
  /\ main.pc = "draining"
  /\ proc' = [proc EXCEPT ![main.held] = "ended"]
  /\ main' = [pc |-> "leaving", held |-> Nobody]
  /\ UNCHANGED <<chain, child, shutdown, shell>>

\* The process of the app ends, and every thread of the chain with it
AppExits ==
  /\ main.pc = "leaving"
  /\ main' = [pc |-> "quit", held |-> Nobody]
  /\ UNCHANGED <<chain, proc, child, shutdown, shell>>

\* The hook's kill_child_best_effort gives up when the lock is taken
Panic ==
  /\ Up
  /\ IF LockIsFree THEN KillChild ELSE UNCHANGED <<proc, child>>
  /\ main' = [pc |-> "aborted", held |-> Nobody]
  /\ UNCHANGED <<chain, shutdown, shell>>

----------------------------------------------------------------------------
\* A Python process crashes, or is killed from outside
ProcessDies(a) ==
  /\ Alive(a)
  /\ proc' = [proc EXCEPT ![a] = "ended"]
  /\ UNCHANGED <<chain, child, main, shutdown, shell>>

ChainStep ==
  \/ CheckShutdown \/ SpawnFails \/ SpawnWorks \/ StoreChild
  \/ RecheckAlive \/ RecheckShutdown
  \/ ProbeAnswers \/ ProbeFails \/ Publish
  \/ SidecarExitExpected \/ SidecarExitCrash \/ Backoff

ShutdownStep == TakeChild \/ Drained \/ AppExits

Next ==
  \/ ChainStep \/ PortLine
  \/ ExitRequested \/ ShutdownStep \/ Panic
  \/ \E a \in Attempt : ProcessDies(a)

Spec == Init /\ [][Next]_vars

\* Threads are scheduled, probes and backoffs are bounded, SIGKILL ends a
\* drain.  Nothing obliges a sidecar to print its port, to die, to be quit
FairSpec == Spec /\ WF_vars(ChainStep) /\ WF_vars(ShutdownStep)

----------------------------------------------------------------------------
Running == {a \in Attempt : Alive(a)}

\* At most one Python process runs: two would contend for the DuckDB lock.
\* on_sidecar_exit boots the next one only after the last has ended.
OneSidecar == \A a, b \in Running : a = b

\* While the app lives, every running process is where a quit finds it: in
\* CHILD, in the hands of `shutdown', or just spawned and about to be stored.
Supervised ==
  Up =>
    \A a \in Running :
      \/ child = a
      \/ main.held = a
      \/ chain = [pc |-> "store", attempt |-> a]

\* What the web view reads from AppState belongs to the process that runs:
\* its token always, and the port is never that of an earlier boot.
ShellIsCurrent ==
  /\ \A a \in Running : token = a
  /\ port # Nobody => port = chain.attempt

\* The chain stops for good on a shutdown, or after the last attempt and
\* with sidecar:fatal: it never gives up early and never in silence.
GivesUpLoudly ==
  At("over") /\ ~shutdown => chain.attempt = MaxRetries /\ fatal

\* A sidecar that outlives the app keeps the DuckDB file locked.  When the
\* app ends, a process it leaves running is one of three: spawned and not
\* stored yet, stored behind a finished shutdown and not rechecked (the recheck
\* of boot_one narrows this window, it does not close it), or being drained
\* when another thread panicked.
OnlyKnownGaps ==
  [][Up /\ ~Up' =>
       \A a \in Attempt : proc'[a] = "running" =>
         \/ chain = [pc |-> "store", attempt |-> a]
         \/ chain = [pc |-> "recheck", attempt |-> a] /\ shutdown
         \/ main = [pc |-> "draining", held |-> a]]_vars

\* A process that dies with attempts left is followed by another attempt,
\* unless the app is quit meanwhile.
CrashesAreRetried ==
  \A a \in Attempt :
    At("watch") /\ chain.attempt = a /\ ~Alive(a) /\ a < MaxRetries
      ~> chain.attempt > a \/ shutdown \/ ~Up

\* A quit ends: `shutdown' gets the lock and the drain is bounded.
QuitEnds == shutdown ~> ~Up
=============================================================================
