----------------------------- MODULE DiscoRelay -----------------------------
(***************************************************************************)
(* scripts/disco-relay: the command that drives the disco-ball actuator.   *)
(* `raise` and `lower` take a non-blocking flock and fork a background     *)
(* shell, the mover, that inherits the lock's descriptor and works through *)
(* a list of relay writes and sleeps.  `brake` reads the mover's pid from  *)
(* a file, signals it, waits a little, and cuts the motor itself.          *)
(*                                                                         *)
(* A process switch may happen between any two commands of a shell, so     *)
(* each command that touches a relay, a file or a process is one step.     *)
(***************************************************************************)
EXTENDS Naturals, Sequences

CONSTANTS
  Callers,  \* who runs the command: one live invocation each at a time
  Pids,     \* process ids the kernel gives to movers; a free one is reused
  NoPid,    \* an absent pid file, an unset pid variable
  Faults    \* what the environment may do, a subset of FaultKinds

FaultKinds == {"kill9", "stop", "gpio", "reboot", "full"}

\* A file cut to nothing by a write that failed.
Empty == ""

ASSUME NoPidIsNoPid == NoPid \notin Pids /\ Empty \notin Pids /\ NoPid # Empty
ASSUME FaultsAreFaults == Faults \subseteq FaultKinds

VARIABLES
  k1, k2, k3,  \* relays: motor terminal A, motor terminal B, spot lights
  pidFile,     \* /run/disco-relay.pid
  posFile,     \* /run/disco-relay.state
  pc,          \* per caller: next command of its invocation
  dir,         \* per caller: the movement its start_move asks for
  pid,         \* per caller: $! of start_move, or the local pid of run_stop
  prog,        \* per pid: the command list its mover is working through
  at,          \* per pid: the position in that list
  sig,         \* per pid: a TERM the mover has not answered yet
  nap,         \* per pid: the sleep child of the mover, also when orphaned
  \* Ghosts: the actuator itself, and whom a brake is meant to preempt.
  ball,        \* where the ball is, or which way it is travelling
  rested,      \* the motor has had no power for a settle time
  prior        \* per caller: movers that were alive when its brake began

relays  == <<k1, k2, k3, ball, rested>>
files   == <<pidFile, posFile>>
callers == <<pc, dir, pid>>
movers  == <<prog, at, sig, nap>>
vars    == <<relays, files, callers, movers, prior>>

\* An operator whose name says Without, Ignoring or Instead is a deliberately
\* wrong variant of the next one.  Nothing uses it: it stands in for that
\* operator when a property is tested for being able to fail.

-----------------------------------------------------------------------------
(* The command lists.  "Settle", "Travel" and "Arrive" are the three       *)
(* interruptible sleeps of a movement; "Exit" runs the EXIT trap.          *)

perform_raise_WithoutFirstStop ==
  <<"Trap", "Settle", "K1on", "K2off", "Travel", "K3on",
    "Arrive", "K1off", "K2off", "K3on", "WritePos", "Exit">>

perform_raise_WithoutLastStop ==
  <<"Trap", "K1off", "K2off", "Settle", "K1on", "K2off", "Travel", "K3on",
    "Arrive", "K3on", "WritePos", "Exit">>

perform_raise ==
  <<"Trap", "K1off", "K2off", "Settle", "K1on", "K2off", "Travel", "K3on",
    "Arrive", "K1off", "K2off", "K3on", "WritePos", "Exit">>

perform_lower_WithoutSettling ==
  <<"Trap", "K3on", "K1off", "K2off", "K1off", "K2on", "Travel",
    "K3off", "Arrive", "K1off", "K2off", "K3off", "WritePos", "Exit">>

perform_lower ==
  <<"Trap", "K3on", "K1off", "K2off", "Settle", "K1off", "K2on", "Travel",
    "K3off", "Arrive", "K1off", "K2off", "K3off", "WritePos", "Exit">>

preempt_movement ==
  <<"KillSleep", "K1off", "K2off", "RmPid", "Exit">>

RelayOps == {"K1on", "K1off", "K2on", "K2off", "K3on", "K3off"}
SleepOps == {"Settle", "Travel", "Arrive"}
Moves    == {"raise", "lower"}

Commands(g) == CASE g = "raise"   -> perform_raise
                 [] g = "lower"   -> perform_lower
                 [] g = "preempt" -> preempt_movement

Live(p) == prog[p] # "none"
Op(p)   == Commands(prog[p])[at[p]]

\* TERM kills a mover that has not set its traps yet, or has reset them.
Untrapped(p) == Live(p) /\ (prog[p] = "preempt" \/ at[p] = 1)

\* The flock belongs to the open file description: it is held as long as the
\* invocation that took it, its mover, or a sleep child of the mover has
\* descriptor 9 open.
Holding(c) == pc[c] \in {"fork", "writepid", "exit"}
LockFree_IgnoringMovers == \A c \in Callers : ~Holding(c)
LockFree_IgnoringSleeps == /\ \A c \in Callers : ~Holding(c)
                           /\ \A p \in Pids : ~Live(p)
LockFree   == /\ \A c \in Callers : ~Holding(c)
              /\ \A p \in Pids : ~Live(p) /\ nap[p] = "no"

-----------------------------------------------------------------------------
Init ==
  /\ k1 = FALSE /\ k2 = FALSE /\ k3 = FALSE
  /\ pidFile = NoPid /\ posFile = "unknown"
  /\ pc = [c \in Callers |-> "idle"] /\ dir = [c \in Callers |-> "none"]
  /\ pid = [c \in Callers |-> NoPid]
  /\ prog = [p \in Pids |-> "none"] /\ at = [p \in Pids |-> 1]
  /\ sig = [p \in Pids |-> "none"] /\ nap = [p \in Pids |-> "no"]
  /\ ball \in {"top", "bottom", "between"} /\ rested = FALSE
  /\ prior = [c \in Callers |-> {}]

\* One relay write.  Power on a terminal sets the ball travelling, unless it is
\* at that end already; taken away too soon it leaves the ball in between.
Drive(op) ==
  /\ k1' = (op = "K1on" \/ (k1 /\ op # "K1off"))
  /\ k2' = (op = "K2on" \/ (k2 /\ op # "K2off"))
  /\ k3' = (op = "K3on" \/ (k3 /\ op # "K3off"))
  /\ rested' = (rested /\ op \notin {"K1on", "K2on"})
  /\ ball' = CASE op = "K1on" /\ ball # "top"    -> IF k2 THEN "between" ELSE "rising"
               [] op = "K2on" /\ ball # "bottom" -> IF k1 THEN "between" ELSE "falling"
               [] op = "K1off" /\ ball = "rising"  -> "between"
               [] op = "K2off" /\ ball = "falling" -> "between"
               [] OTHER -> ball

\* The movers in dead are gone.  A sleep child outlives its mover.
Reap(dead) ==
  /\ prog' = [p \in Pids |-> IF p \in dead THEN "none" ELSE prog[p]]
  /\ at' = [p \in Pids |-> IF p \in dead THEN 1 ELSE at[p]]
  /\ prior' = [c \in Callers |-> prior[c] \ dead]

\* TERM reaches the movers in P.  A trapped mover answers it at its next
\* command boundary, so the command it is in may still complete.
Terminate(P) ==
  LET dead == {p \in P : Untrapped(p)} IN
  /\ Reap(dead)
  /\ sig' = [p \in Pids |-> IF p \in dead THEN "none"
                            ELSE IF p \in P /\ Live(p) /\ sig[p] = "none"
                            THEN "pending" ELSE sig[p]]

-----------------------------------------------------------------------------
\* The invocation ends, its shell variables with it.
Return(c) ==
  /\ pc' = [pc EXCEPT ![c] = "idle"]
  /\ dir' = [dir EXCEPT ![c] = "none"]
  /\ pid' = [pid EXCEPT ![c] = NoPid]

AllReturn ==
  /\ pc' = [c \in Callers |-> "idle"]
  /\ dir' = [c \in Callers |-> "none"]
  /\ pid' = [c \in Callers |-> NoPid]
  /\ prior' = [c \in Callers |-> {}]

-----------------------------------------------------------------------------
(* start_move                                                              *)

StartMove(c, d) ==
  /\ pc[c] = "idle"
  /\ pc' = [pc EXCEPT ![c] = "lock"]
  /\ dir' = [dir EXCEPT ![c] = d]
  /\ UNCHANGED <<relays, files, pid, movers, prior>>

TryLock(c) ==
  /\ pc[c] = "lock"
  /\ IF LockFree THEN pc' = [pc EXCEPT ![c] = "fork"] /\ UNCHANGED <<dir, pid>>
                 ELSE Return(c)
  /\ UNCHANGED <<relays, files, movers, prior>>

Fork(c) ==
  /\ pc[c] = "fork"
  /\ \E p \in Pids :
       /\ ~Live(p)
       /\ prog' = [prog EXCEPT ![p] = dir[c]]
       /\ pid' = [pid EXCEPT ![c] = p]
  /\ pc' = [pc EXCEPT ![c] = "writepid"]
  /\ UNCHANGED <<relays, files, dir, at, sig, nap, prior>>

WritePid_Without(c) ==
  /\ pc[c] = "writepid"
  /\ pc' = [pc EXCEPT ![c] = "exit"]
  /\ UNCHANGED <<relays, files, dir, pid, movers, prior>>

WritePid(c) ==
  /\ pc[c] = "writepid"
  /\ pidFile' = pid[c]
  /\ pc' = [pc EXCEPT ![c] = "exit"]
  /\ UNCHANGED <<relays, posFile, dir, pid, movers, prior>>

ExitStart(c) ==
  /\ pc[c] = "exit" /\ Return(c)
  /\ UNCHANGED <<relays, files, movers, prior>>

-----------------------------------------------------------------------------
(* The mover: perform_raise, perform_lower and preempt_movement            *)

\* A trapped mover with a TERM to answer goes on only to end the command it
\* was in when the signal came.
MayGoOn(p) == Live(p) /\ sig[p] # "due"

Advance(p) ==
  /\ at' = [at EXCEPT ![p] = @ + 1]
  /\ sig' = [sig EXCEPT ![p] = IF @ = "pending" THEN "due" ELSE @]
  /\ UNCHANGED prog

MoverDrives(p) ==
  /\ MayGoOn(p) /\ Op(p) \in RelayOps
  /\ Drive(Op(p)) /\ Advance(p)
  /\ UNCHANGED <<files, callers, nap, prior>>

MoverSetsTraps(p) ==
  /\ MayGoOn(p) /\ Op(p) = "Trap" /\ Advance(p)
  /\ UNCHANGED <<relays, files, callers, nap, prior>>

\* interruptible_sleep: the child is started, then its pid is recorded, then
\* the mover waits for it.
SleepForks(p) ==
  /\ MayGoOn(p) /\ Op(p) \in SleepOps /\ nap[p] = "no"
  /\ nap' = [nap EXCEPT ![p] = "unrecorded"]
  /\ sig' = [sig EXCEPT ![p] = IF @ = "pending" THEN "due" ELSE @]
  /\ UNCHANGED <<relays, files, callers, prog, at, prior>>

SleepRecorded(p) ==
  /\ MayGoOn(p) /\ Op(p) \in SleepOps /\ nap[p] = "unrecorded"
  /\ nap' = [nap EXCEPT ![p] = "recorded"]
  /\ sig' = [sig EXCEPT ![p] = IF @ = "pending" THEN "due" ELSE @]
  /\ UNCHANGED <<relays, files, callers, prog, at, prior>>

\* The sleep ends.  At the end of "Settle" the motor has rested if it still
\* has no power; at the end of "Arrive" the ball is at the end of its travel
\* if nobody stopped it on the way.
SleepReturns(p) ==
  /\ MayGoOn(p) /\ Op(p) \in SleepOps /\ nap[p] = "recorded"
  /\ nap' = [nap EXCEPT ![p] = "no"] /\ Advance(p)
  /\ rested' = IF Op(p) = "Settle" THEN ~k1 /\ ~k2 ELSE rested
  /\ ball' = CASE Op(p) = "Arrive" /\ ball = "rising"  -> "top"
               [] Op(p) = "Arrive" /\ ball = "falling" -> "bottom"
               [] OTHER -> ball
  /\ UNCHANGED <<k1, k2, k3, files, callers, prior>>

WritePosition_InsteadDirection(p) ==
  /\ MayGoOn(p) /\ Op(p) = "WritePos" /\ Advance(p)
  /\ posFile' = prog[p]
  /\ UNCHANGED <<relays, pidFile, callers, nap, prior>>

WritePosition(p) ==
  /\ MayGoOn(p) /\ Op(p) = "WritePos" /\ Advance(p)
  /\ posFile' = IF prog[p] = "raise" THEN "up" ELSE "down"
  /\ UNCHANGED <<relays, pidFile, callers, nap, prior>>

\* preempt_movement kills the sleep whose pid it knows and no other.
KillSleep(p) ==
  /\ MayGoOn(p) /\ Op(p) = "KillSleep" /\ Advance(p)
  /\ nap' = [nap EXCEPT ![p] = IF @ = "recorded" THEN "no" ELSE @]
  /\ UNCHANGED <<relays, files, callers, prior>>

RemoveOwnPid(p) ==
  /\ MayGoOn(p) /\ Op(p) = "RmPid" /\ Advance(p)
  /\ pidFile' = NoPid
  /\ UNCHANGED <<relays, posFile, callers, nap, prior>>

\* The EXIT trap, and the end of the shell.
MoverLeaves(p) ==
  /\ Reap({p}) /\ sig' = [sig EXCEPT ![p] = "none"]
  /\ pidFile' = NoPid
  /\ UNCHANGED <<relays, posFile, callers, nap>>

MoverExits(p) == MayGoOn(p) /\ Op(p) = "Exit" /\ MoverLeaves(p)

\* The trap: TERM is reset to its default and the movement is abandoned.
Preempt(p) ==
  /\ sig[p] # "none"
  /\ prog' = [prog EXCEPT ![p] = "preempt"]
  /\ at' = [at EXCEPT ![p] = 1]
  /\ sig' = [sig EXCEPT ![p] = "none"]
  /\ UNCHANGED <<relays, files, callers, nap, prior>>

\* A sleep that lost its mover ends by itself.
OrphanEnds(p) ==
  /\ ~Live(p) /\ nap[p] # "no"
  /\ nap' = [nap EXCEPT ![p] = "no"]
  /\ UNCHANGED <<relays, files, callers, prog, at, sig, prior>>

-----------------------------------------------------------------------------
(* run_stop                                                                *)

RunStop(c) ==
  /\ pc[c] = "idle"
  /\ pc' = [pc EXCEPT ![c] = "readpid"]
  /\ prior' = [prior EXCEPT ![c] = {p \in Pids : Live(p)}]
  /\ UNCHANGED <<relays, files, dir, pid, movers>>

ReadPid(c) ==
  /\ pc[c] = "readpid"
  /\ pid' = [pid EXCEPT ![c] = pidFile]
  /\ pc' = [pc EXCEPT ![c] = IF pidFile = NoPid THEN "cut1" ELSE "signal"]
  /\ UNCHANGED <<relays, files, dir, movers, prior>>

SignalMover(c) ==
  /\ pc[c] = "signal"
  /\ IF pid[c] \in Pids /\ Live(pid[c])
     THEN pc' = [pc EXCEPT ![c] = "await"] /\ Terminate({pid[c]})
     ELSE pc' = [pc EXCEPT ![c] = "rmpid"] /\ UNCHANGED <<prog, at, sig, prior>>
  /\ UNCHANGED <<relays, files, dir, pid, nap>>

\* The mover is gone, or five polls of 0.1 s have gone by.
AwaitMover(c) ==
  /\ pc[c] = "await"
  /\ pc' = [pc EXCEPT ![c] = "rmpid"]
  /\ UNCHANGED <<relays, files, dir, pid, movers, prior>>

RemovePid(c) ==
  /\ pc[c] = "rmpid"
  /\ pidFile' = NoPid
  /\ pc' = [pc EXCEPT ![c] = "cut1"]
  /\ UNCHANGED <<relays, posFile, dir, pid, movers, prior>>

CutMotor(c) ==
  /\ \/ pc[c] = "cut1" /\ Drive("K1off") /\ pc' = [pc EXCEPT ![c] = "cut2"]
     \/ pc[c] = "cut2" /\ Drive("K2off") /\ pc' = [pc EXCEPT ![c] = "rmstate"]
  /\ UNCHANGED <<files, dir, pid, movers, prior>>

ForgetPosition_Without(c) ==
  /\ pc[c] = "rmstate"
  /\ prior' = [prior EXCEPT ![c] = {}]
  /\ Return(c)
  /\ UNCHANGED <<relays, files, movers>>

ForgetPosition(c) ==
  /\ pc[c] = "rmstate"
  /\ posFile' = "unknown"
  /\ prior' = [prior EXCEPT ![c] = {}]
  /\ Return(c)
  /\ UNCHANGED <<relays, pidFile, movers>>

-----------------------------------------------------------------------------
(* The environment                                                         *)

\* SIGKILL of one mover: no trap runs.
KillMover(p) ==
  /\ "kill9" \in Faults /\ Live(p)
  /\ Reap({p}) /\ sig' = [sig EXCEPT ![p] = "none"]
  /\ UNCHANGED <<relays, files, callers, nap>>

\* systemd stops freeswitch.service: TERM to everything in its cgroup, the
\* invocations, the movers and their sleeps.
ServiceStop ==
  /\ "stop" \in Faults
  /\ LET dead == {p \in Pids : Untrapped(p)} IN
       /\ prog' = [p \in Pids |-> IF p \in dead THEN "none" ELSE prog[p]]
       /\ at' = [p \in Pids |-> IF p \in dead THEN 1 ELSE at[p]]
       /\ sig' = [p \in Pids |-> IF ~Live(p) \/ p \in dead THEN "none"
                                 ELSE IF nap[p] # "no" \/ sig[p] = "due"
                                 THEN "due" ELSE "pending"]
  /\ nap' = [p \in Pids |-> "no"]
  /\ AllReturn
  /\ UNCHANGED <<relays, files>>

\* The relay command fails, and set -e ends the shell that ran it: a mover by
\* way of its EXIT trap, a brake with the rest of its work undone.
GpioFailsMover(p) ==
  /\ "gpio" \in Faults /\ MayGoOn(p) /\ Op(p) \in RelayOps
  /\ MoverLeaves(p)

GpioFailsBrake(c) ==
  /\ "gpio" \in Faults /\ pc[c] \in {"cut1", "cut2"}
  /\ prior' = [prior EXCEPT ![c] = {}]
  /\ Return(c)
  /\ UNCHANGED <<relays, files, movers>>

\* The tmpfs of /run is full: a redirection cuts its file to nothing, or cannot
\* make it, and the failure is ignored.
WritePidFails(c) ==
  /\ "full" \in Faults /\ pc[c] = "writepid"
  /\ pidFile' \in IF pidFile = NoPid THEN {NoPid, Empty} ELSE {Empty}
  /\ pc' = [pc EXCEPT ![c] = "exit"]
  /\ UNCHANGED <<relays, posFile, dir, pid, movers, prior>>

\* An empty state file matches neither ^up$ nor ^down$, like none.
WritePositionFails(p) ==
  /\ "full" \in Faults
  /\ MayGoOn(p) /\ Op(p) = "WritePos" /\ Advance(p)
  /\ posFile' = "unknown"
  /\ UNCHANGED <<relays, pidFile, callers, nap, prior>>

\* Power is lost and comes back.  /run is a tmpfs, so its files are gone too.
Reboot ==
  /\ "reboot" \in Faults
  /\ k1' = FALSE /\ k2' = FALSE /\ k3' = FALSE /\ rested' = FALSE
  /\ ball' = IF ball \in {"rising", "falling"} THEN "between" ELSE ball
  /\ pidFile' = NoPid /\ posFile' = "unknown"
  /\ AllReturn
  /\ prog' = [p \in Pids |-> "none"] /\ at' = [p \in Pids |-> 1]
  /\ sig' = [p \in Pids |-> "none"] /\ nap' = [p \in Pids |-> "no"]

-----------------------------------------------------------------------------
start_move(c) == TryLock(c) \/ Fork(c) \/ WritePid(c) \/ ExitStart(c)

run_stop(c) ==
  \/ ReadPid(c) \/ SignalMover(c) \/ AwaitMover(c) \/ RemovePid(c)
  \/ CutMotor(c) \/ ForgetPosition(c)

CallerStep(c) == start_move(c) \/ run_stop(c)

MoverStep(p) ==
  \/ MoverSetsTraps(p) \/ MoverDrives(p)
  \/ SleepForks(p) \/ SleepRecorded(p) \/ SleepReturns(p)
  \/ WritePosition(p) \/ KillSleep(p) \/ RemoveOwnPid(p) \/ MoverExits(p)
  \/ Preempt(p)

Fault ==
  \/ \E p \in Pids : KillMover(p) \/ GpioFailsMover(p) \/ WritePositionFails(p)
  \/ \E c \in Callers : GpioFailsBrake(c) \/ WritePidFails(c)
  \/ ServiceStop
  \/ Reboot

\* What happens once commands have been given.
Progress ==
  \/ \E c \in Callers : CallerStep(c)
  \/ \E p \in Pids : MoverStep(p) \/ OrphanEnds(p)

Next ==
  \/ \E c \in Callers : RunStop(c) \/ \E d \in Moves : StartMove(c, d)
  \/ Progress
  \/ Fault

Spec == Init /\ [][Next]_vars

-----------------------------------------------------------------------------
(* Properties                                                              *)

\* Every variable keeps to the values the scripts' files, shells and relays
\* can have.
TypeOK ==
  /\ k1 \in BOOLEAN /\ k2 \in BOOLEAN /\ k3 \in BOOLEAN /\ rested \in BOOLEAN
  /\ ball \in {"top", "bottom", "between", "rising", "falling"}
  /\ pidFile \in Pids \cup {NoPid, Empty}
  /\ posFile \in {"unknown", "up", "down"}
  /\ pc \in [Callers -> {"idle", "lock", "fork", "writepid", "exit", "readpid",
                        "signal", "await", "rmpid", "cut1", "cut2", "rmstate"}]
  /\ dir \in [Callers -> Moves \cup {"none"}]
  /\ pid \in [Callers -> Pids \cup {NoPid, Empty}]
  /\ prog \in [Pids -> Moves \cup {"preempt", "none"}]
  /\ at \in [Pids -> 1..15]
  /\ sig \in [Pids -> {"none", "pending", "due"}]
  /\ nap \in [Pids -> {"no", "unrecorded", "recorded"}]
  /\ prior \in [Callers -> SUBSET Pids]

\* Two movements never run at once, whatever dies or is killed in between:
\* the flock outlives the command that took it.
OneMover == \A p, q \in Pids : Live(p) /\ Live(q) => p = q

\* Both terminals of the actuator are never under power together.
NeverBothOn == ~(k1 /\ k2)

\* "brake always preempts": when a brake is about to return, every movement
\* that was running when it began has ended or is on its way out.
BrakePreempts ==
  \A c \in Callers : pc[c] = "rmstate" =>
    \A p \in prior[c] : prog[p] = "preempt" \/ sig[p] # "none"

\* What the relays make the motor do, and the actuator's own specification:
\* one direction at a time, a stop in between, power only after settling.
MotorState == IF k1 /\ k2 THEN "both"
              ELSE IF k1 THEN "up"
              ELSE IF k2 THEN "down" ELSE "stop"

Motor     == INSTANCE Actuator WITH motor <- MotorState
MotorSpec == Motor!Spec

\* No brake or movement is under way.
Quiet == /\ \A c \in Callers : pc[c] = "idle"
         /\ \A p \in Pids : ~Live(p)

Truthful == /\ posFile = "up"   => ball = "top" /\ k3
            /\ posFile = "down" => ball = "bottom" /\ ~k3

\* With nothing under way, the recorded position is where the ball is, and
\* the spot lights are as that movement is documented to leave them.
PositionTruthful ==
  Quiet => Truthful

\* The strengthening that makes the safety properties inductive.  A pid is
\* taken while its mover or a sleep child of it has the lock's descriptor.
Taken(p) == Live(p) \/ nap[p] # "no"

LockInv ==
  /\ \A c, d \in Callers : Holding(c) /\ Holding(d) => c = d
  /\ \A c \in Callers, p \in Pids : Holding(c) /\ Taken(p) =>
       pc[c] # "fork" /\ pid[c] = p
  /\ \A p, q \in Pids : Taken(p) /\ Taken(q) => p = q

PlaceInv ==
  \A p \in Pids : /\ Live(p) => at[p] \in 1..Len(Commands(prog[p]))
                  /\ ~Live(p) => at[p] = 1 /\ sig[p] = "none"

\* An invocation that will fork a mover knows which movement it is for.
DirInv == \A c \in Callers : pc[c] \in {"lock", "fork"} => dir[c] \in Moves

\* Where a movement has got to in its list, and what it has done by then.
MotorInv ==
  /\ k1 \/ k2 => ~rested
  /\ NeverBothOn
  /\ \A p \in Pids : prog[p] = "raise" =>
       /\ at[p] \in 3..5 => ~k1
       /\ at[p] > 3 => ~k2
       /\ at[p] = 5 => rested
  /\ \A p \in Pids : prog[p] = "lower" =>
       /\ at[p] > 3 => ~k1
       /\ at[p] \in 5..7 => ~k2
       /\ at[p] \in 6..7 => rested

IInv == TypeOK /\ LockInv /\ DirInv /\ PlaceInv /\ MotorInv

\* Why a brake preempts and the position is truthful when one caller at a time
\* runs the command.  A movement nobody has told to end is found by its pid.
Moving(p) == prog[p] \in Moves /\ sig[p] = "none"

PidInv ==
  \A p \in Pids : Moving(p) =>
    pidFile = p \/ \E c \in Callers : pc[c] = "writepid" /\ pid[c] = p

\* From its signal on, a brake has told every movement to end.
Told    == {"await", "rmpid", "cut1", "cut2", "rmstate"}
Braking == {"readpid", "signal"} \cup Told

BrakeInv ==
  /\ \A c \in Callers : \A p \in prior[c] : Live(p)
  /\ \A c \in Callers, p \in Pids : Moving(p) =>
       /\ pc[c] = "signal" => pid[c] = p
       /\ pc[c] \notin Told

\* Where a movement has got to in its list, and how far it has brought the ball.
DoneInv ==
  /\ \A p \in Pids : prog[p] = "raise" =>
       /\ at[p] \in 6..9 /\ sig[p] = "none" => ball \in {"rising", "top"}
       /\ at[p] > 9 /\ sig[p] # "due" => ball = "top"
       /\ at[p] > 12 /\ sig[p] # "due" => k3
       /\ at[p] = 14 /\ sig[p] = "none" => posFile = "up"
  /\ \A p \in Pids : prog[p] = "lower" =>
       /\ at[p] \in 8..10 /\ sig[p] = "none" => ball \in {"falling", "bottom"}
       /\ at[p] > 10 /\ sig[p] # "due" => ball = "bottom"
       /\ at[p] > 13 /\ sig[p] # "due" => ~k3
       /\ at[p] = 15 /\ sig[p] = "none" => posFile = "down"

\* Unless a brake is about to forget it or a movement to replace it, the
\* position is true, and no mover is left that could belie it.
PosInv ==
  \/ \E c \in Callers : pc[c] \in Braking
  \/ \E p \in Pids : Moving(p)
  \/ /\ Truthful
     /\ \A p \in Pids : Live(p) =>
          posFile = "unknown" \/ prog[p] = "preempt" \/ sig[p] = "due"

\* A movement that is over has left no sleep behind to hold its lock, so the
\* next raise or lower can start.
NoSleepHoldsTheLock == \A p \in Pids : nap[p] # "no" => Live(p)

\* Power always has an owner: some process is still to cut the terminal that is
\* on, a mover by its list or by its trap, or the brake that has signalled it,
\* also where several brakes signal one mover and kill its preempt_movement.
Rest(g, i) == {Commands(g)[j] : j \in i..Len(Commands(g))}

Owned(op, waits) == \/ \E p \in Pids : Live(p) /\ op \in Rest(prog[p], at[p])
                    \/ \E c \in Callers : pc[c] \in waits

PowerIsOwned ==
  /\ k1 => Owned("K1off", {"await", "rmpid", "cut1"})
  /\ k2 => Owned("K2off", {"await", "rmpid", "cut1", "cut2"})

\* The motor does not stay under power: whatever is dialled, and whether a
\* movement ends or is preempted, some process cuts it.
MotorRests == []<>(~k1 /\ ~k2)
=============================================================================
