-------------------------- MODULE DiscoRelayProofs --------------------------
EXTENDS DiscoRelay, TLAPS

(* The command lists, by position.                                         *)

\* What the raise list has a mover do where.
LEMMA RaiseOps ==
  ASSUME NEW p \in Pids, prog[p] = "raise", at[p] \in 1..14
  PROVE  /\ Op(p) = "Trap" <=> at[p] = 1
         /\ Op(p) = "K1on" <=> at[p] = 5
         /\ Op(p) = "K1off" <=> at[p] \in {2, 10}
         /\ Op(p) # "K2on"
         /\ Op(p) = "K2off" <=> at[p] \in {3, 6, 11}
         /\ Op(p) = "Settle" <=> at[p] = 4
         /\ Op(p) \in SleepOps <=> at[p] \in {4, 7, 9}
         /\ Op(p) = "Exit" <=> at[p] = 14
         /\ Op(p) # "KillSleep" /\ Op(p) # "RmPid"
<1>1. Op(p) = perform_raise[at[p]]
  BY DEF Op, Commands
<1> QED
  BY <1>1 DEF perform_raise, SleepOps

\* What the lower list has a mover do where.
LEMMA LowerOps ==
  ASSUME NEW p \in Pids, prog[p] = "lower", at[p] \in 1..15
  PROVE  /\ Op(p) = "Trap" <=> at[p] = 1
         /\ Op(p) # "K1on"
         /\ Op(p) = "K1off" <=> at[p] \in {3, 6, 11}
         /\ Op(p) = "K2on" <=> at[p] = 7
         /\ Op(p) = "K2off" <=> at[p] \in {4, 12}
         /\ Op(p) = "Settle" <=> at[p] = 5
         /\ Op(p) \in SleepOps <=> at[p] \in {5, 8, 10}
         /\ Op(p) = "Exit" <=> at[p] = 15
         /\ Op(p) # "KillSleep" /\ Op(p) # "RmPid"
<1>1. Op(p) = perform_lower[at[p]]
  BY DEF Op, Commands
<1> QED
  BY <1>1 DEF perform_lower, SleepOps

\* A preempted mover only cuts power, and never sleeps.
LEMMA PreemptOps ==
  ASSUME NEW p \in Pids, prog[p] = "preempt", at[p] \in 1..5
  PROVE  /\ Op(p) \notin {"Trap", "K1on", "K2on", "Settle", "WritePos"}
         /\ Op(p) \notin SleepOps
         /\ Op(p) = "Exit" <=> at[p] = 5
<1>1. Op(p) = preempt_movement[at[p]]
  BY DEF Op, Commands
<1> QED
  BY <1>1 DEF preempt_movement, SleepOps

\* How long each list is.
LEMMA Lengths ==
  /\ Len(Commands("raise")) = 14
  /\ Len(Commands("lower")) = 15
  /\ Len(Commands("preempt")) = 5
BY DEF Commands, perform_raise, perform_lower, preempt_movement

-----------------------------------------------------------------------------
(* Facts that several steps use.                                           *)

\* A mover that may go on is at a place of its list, and unless the command
\* there is the last one the next place is in the list too.
LEMMA NextPlace ==
  ASSUME TypeOK, PlaceInv, NEW p \in Pids, MayGoOn(p), Op(p) # "Exit"
  PROVE  at[p] + 1 \in 1..Len(Commands(prog[p])) /\ at[p] + 1 \in 1..15
<1>1. Live(p) /\ at[p] \in 1..Len(Commands(prog[p]))
  BY DEF PlaceInv, MayGoOn
<1>2. CASE prog[p] = "raise"
  <2>0. Len(Commands(prog[p])) = 14 BY <1>2, Lengths
  <2>1. at[p] \in 1..14 BY <1>1, <2>0
  <2>2. at[p] # 14 BY <1>2, <2>1, RaiseOps
  <2> QED BY <2>0, <2>1, <2>2
<1>3. CASE prog[p] = "lower"
  <2>0. Len(Commands(prog[p])) = 15 BY <1>3, Lengths
  <2>1. at[p] \in 1..15 BY <1>1, <2>0
  <2>2. at[p] # 15 BY <1>3, <2>1, LowerOps
  <2> QED BY <2>0, <2>1, <2>2
<1>4. CASE prog[p] = "preempt"
  <2>0. Len(Commands(prog[p])) = 5 BY <1>4, Lengths
  <2>1. at[p] \in 1..5 BY <1>1, <2>0
  <2>2. at[p] # 5 BY <1>4, <2>1, PreemptOps
  <2> QED BY <2>0, <2>1, <2>2
<1> QED
  BY <1>1, <1>2, <1>3, <1>4 DEF TypeOK, Live, Moves

\* The next-state relation, one disjunct per action of the specification.
LEMMA NextCases ==
  ASSUME Next
  PROVE  \/ \E c \in Callers :
              \/ RunStop(c) \/ \E d \in Moves : StartMove(c, d)
              \/ TryLock(c) \/ Fork(c) \/ WritePid(c) \/ ExitStart(c)
              \/ ReadPid(c) \/ SignalMover(c) \/ AwaitMover(c) \/ RemovePid(c)
              \/ CutMotor(c) \/ ForgetPosition(c) \/ GpioFailsBrake(c) \/ WritePidFails(c)
         \/ \E p \in Pids :
              \/ MoverSetsTraps(p) \/ MoverDrives(p)
              \/ SleepForks(p) \/ SleepRecorded(p) \/ SleepReturns(p)
              \/ WritePosition(p) \/ KillSleep(p) \/ RemoveOwnPid(p)
              \/ MoverExits(p) \/ Preempt(p) \/ OrphanEnds(p)
              \/ KillMover(p) \/ GpioFailsMover(p) \/ WritePositionFails(p)
         \/ ServiceStop
         \/ Reboot
BY DEF Next, Progress, Fault, CallerStep, start_move, run_stop, MoverStep

-----------------------------------------------------------------------------
(* Type correctness.                                                       *)

\* The machine starts with well-typed files, shells and relays.
LEMMA TypeInit == Init => TypeOK
<1> SUFFICES ASSUME Init PROVE TypeOK
  OBVIOUS
<1>1. /\ k1 \in BOOLEAN /\ k2 \in BOOLEAN /\ k3 \in BOOLEAN /\ rested \in BOOLEAN
      /\ ball \in {"top", "bottom", "between", "rising", "falling"}
      /\ pidFile \in Pids \cup {NoPid} /\ posFile \in {"unknown", "up", "down"}
  BY DEF Init
<1>2. at \in [Pids -> 1..15] /\ prior \in [Callers -> SUBSET Pids]
  BY DEF Init
<1> QED
  BY <1>1, <1>2 DEF Init, TypeOK, Moves

\* Every command of every shell keeps the types.
LEMMA TypeNext ==
  ASSUME TypeOK, PlaceInv, [Next]_vars
  PROVE  TypeOK'
<1> USE DEF TypeOK, Moves, files, callers, movers
<1>1. CASE UNCHANGED vars
  BY <1>1 DEF vars, relays
<1>2. ASSUME NEW c \in Callers,
             \/ RunStop(c) \/ \E d \in Moves : StartMove(c, d)
             \/ TryLock(c) \/ Fork(c) \/ WritePid(c) \/ ExitStart(c)
             \/ ReadPid(c) \/ AwaitMover(c) \/ RemovePid(c)
             \/ ForgetPosition(c) \/ GpioFailsBrake(c) \/ WritePidFails(c)
      PROVE  TypeOK'
  BY <1>2 DEF RunStop, StartMove, TryLock, Fork, WritePid, ExitStart, ReadPid, AwaitMover,
              RemovePid, ForgetPosition, GpioFailsBrake, WritePidFails, Return, relays
<1>3. ASSUME NEW c \in Callers, CutMotor(c)
      PROVE  TypeOK'
  BY <1>3 DEF CutMotor, Drive
<1>4. ASSUME NEW c \in Callers, SignalMover(c)
      PROVE  TypeOK'
  BY <1>4 DEF SignalMover, Terminate, Reap, relays
<1>5. ASSUME NEW p \in Pids, MayGoOn(p), Op(p) # "Exit",
             \/ MoverSetsTraps(p) \/ MoverDrives(p) \/ SleepReturns(p)
             \/ WritePosition(p) \/ WritePositionFails(p) \/ KillSleep(p) \/ RemoveOwnPid(p)
      PROVE  TypeOK'
  <2>1. at[p] + 1 \in 1..15
    BY <1>5, NextPlace
  <2>2. CASE MoverDrives(p)
    BY <2>1, <2>2 DEF MoverDrives, Advance, Drive
  <2>3. CASE SleepReturns(p)
    BY <2>1, <2>3 DEF SleepReturns, Advance
  <2> QED
    BY <1>5, <2>1, <2>2, <2>3
       DEF MoverSetsTraps, WritePosition, WritePositionFails, KillSleep, RemoveOwnPid,
           Advance, relays
<1>6. ASSUME NEW p \in Pids,
             \/ SleepForks(p) \/ SleepRecorded(p) \/ MoverExits(p) \/ Preempt(p)
             \/ OrphanEnds(p) \/ KillMover(p) \/ GpioFailsMover(p)
      PROVE  TypeOK'
  BY <1>6 DEF SleepForks, SleepRecorded, MoverExits, MoverLeaves, Preempt, OrphanEnds,
              KillMover, GpioFailsMover, Reap, relays
<1>7. CASE ServiceStop
  BY <1>7 DEF ServiceStop, AllReturn, relays
<1>8. CASE Reboot
  <2>1. /\ k1' \in BOOLEAN /\ k2' \in BOOLEAN /\ k3' \in BOOLEAN /\ rested' \in BOOLEAN
        /\ ball' \in {"top", "bottom", "between", "rising", "falling"}
    BY <1>8 DEF Reboot
  <2>2. at' \in [Pids -> 1..15] /\ prior' \in [Callers -> SUBSET Pids]
    BY <1>8 DEF Reboot, AllReturn
  <2> QED
    BY <1>8, <2>1, <2>2 DEF Reboot, AllReturn
<1>9. ASSUME NEW p \in Pids,
             \/ MoverSetsTraps(p) \/ MoverDrives(p) \/ SleepReturns(p)
             \/ WritePosition(p) \/ WritePositionFails(p) \/ KillSleep(p) \/ RemoveOwnPid(p)
      PROVE  MayGoOn(p) /\ Op(p) # "Exit"
  BY <1>9 DEF MoverSetsTraps, MoverDrives, SleepReturns, WritePosition, WritePositionFails,
              KillSleep, RemoveOwnPid, RelayOps, SleepOps
<1> QED
  BY <1>1, <1>2, <1>3, <1>4, <1>5, <1>6, <1>7, <1>8, <1>9, NextCases

-----------------------------------------------------------------------------
(* A mover is always at a place of its list.                               *)

\* Every list has a first command.
LEMMA FirstPlace ==
  ASSUME NEW g \in {"raise", "lower", "preempt"}
  PROVE  1 \in 1..Len(Commands(g))
<1>1. CASE g = "raise"
  <2>1. Len(Commands(g)) = 14 BY <1>1, Lengths
  <2> QED BY <2>1
<1>2. CASE g = "lower"
  <2>1. Len(Commands(g)) = 15 BY <1>2, Lengths
  <2> QED BY <2>1
<1>3. CASE g = "preempt"
  <2>1. Len(Commands(g)) = 5 BY <1>3, Lengths
  <2> QED BY <2>1
<1> QED BY <1>1, <1>2, <1>3

\* What a step may do with the place of a mover.
PlaceStep(p) ==
  \/ /\ prog'[p] = prog[p] /\ at'[p] = at[p]
     /\ Live(p) \/ sig'[p] = sig[p]
  \/ /\ Live(p) /\ prog'[p] = prog[p]
     /\ at'[p] \in 1..Len(Commands(prog[p]))
  \/ prog'[p] \in {"raise", "lower", "preempt"} /\ at'[p] = 1
  \/ prog'[p] = "none" /\ at'[p] = 1 /\ sig'[p] = "none"

\* A step that keeps the place of all movers, or ends them, keeps PlaceInv.
LEMMA PlaceKept ==
  ASSUME PlaceInv, \A p \in Pids : PlaceStep(p)
  PROVE  PlaceInv'
<1> SUFFICES ASSUME NEW p \in Pids
             PROVE  /\ Live(p)' => at'[p] \in 1..Len(Commands(prog'[p]))
                    /\ ~Live(p)' => at'[p] = 1 /\ sig'[p] = "none"
  BY DEF PlaceInv, Commands
<1>1. /\ Live(p) => at[p] \in 1..Len(Commands(prog[p]))
      /\ ~Live(p) => at[p] = 1 /\ sig[p] = "none"
  BY DEF PlaceInv
<1>2. PlaceStep(p)
  OBVIOUS
<1> QED
  BY <1>1, <1>2, FirstPlace DEF PlaceStep, Live

\* No mover and no invocation is anywhere at the start.
LEMMA PlaceInit == Init => PlaceInv /\ DirInv
<1> SUFFICES ASSUME Init PROVE PlaceInv /\ DirInv
  OBVIOUS
<1>1. \A p \in Pids : ~Live(p) /\ at[p] = 1 /\ sig[p] = "none"
  BY DEF Init, Live
<1>2. \A c \in Callers : pc[c] = "idle"
  BY DEF Init
<1> QED
  BY <1>1, <1>2 DEF PlaceInv, DirInv

\* An invocation keeps the direction it was given until it has forked.
LEMMA DirNext ==
  ASSUME TypeOK, DirInv, [Next]_vars
  PROVE  DirInv'
<1> USE DEF DirInv, TypeOK, callers
<1>1. CASE UNCHANGED vars
  BY <1>1 DEF vars
<1>2. ASSUME NEW c \in Callers,
             \/ RunStop(c) \/ \E d \in Moves : StartMove(c, d)
             \/ TryLock(c) \/ Fork(c) \/ WritePid(c) \/ ExitStart(c)
             \/ ReadPid(c) \/ SignalMover(c) \/ AwaitMover(c) \/ RemovePid(c)
             \/ CutMotor(c) \/ ForgetPosition(c) \/ GpioFailsBrake(c) \/ WritePidFails(c)
      PROVE  DirInv'
  BY <1>2 DEF RunStop, StartMove, TryLock, Fork, WritePid, ExitStart, ReadPid, SignalMover,
              AwaitMover, RemovePid, CutMotor, ForgetPosition, GpioFailsBrake, WritePidFails,
              Return
<1>3. ASSUME NEW p \in Pids,
             \/ MoverSetsTraps(p) \/ MoverDrives(p)
             \/ SleepForks(p) \/ SleepRecorded(p) \/ SleepReturns(p)
             \/ WritePosition(p) \/ KillSleep(p) \/ RemoveOwnPid(p)
             \/ MoverExits(p) \/ Preempt(p) \/ OrphanEnds(p)
             \/ KillMover(p) \/ GpioFailsMover(p) \/ WritePositionFails(p)
      PROVE  DirInv'
  BY <1>3 DEF MoverSetsTraps, MoverDrives, SleepForks, SleepRecorded, SleepReturns,
              WritePosition, KillSleep, RemoveOwnPid, MoverExits, MoverLeaves, Preempt,
              OrphanEnds, KillMover, GpioFailsMover, WritePositionFails
<1>4. CASE ServiceStop \/ Reboot
  BY <1>4 DEF ServiceStop, Reboot, AllReturn
<1> QED
  BY <1>1, <1>2, <1>3, <1>4, NextCases

\* A mover never runs past the end of its command list.
LEMMA PlaceNext ==
  ASSUME TypeOK, PlaceInv, DirInv, [Next]_vars
  PROVE  PlaceInv'
<1> SUFFICES ASSUME NEW q \in Pids PROVE PlaceStep(q)
  BY PlaceKept
<1> USE DEF TypeOK, PlaceStep, movers
<1>1. ASSUME UNCHANGED <<prog, at, sig>> PROVE PlaceStep(q)
  BY <1>1
<1>2. ASSUME NEW c \in Callers, Fork(c)
      PROVE  PlaceStep(q)
  <2>1. PICK p \in Pids : ~Live(p) /\ prog' = [prog EXCEPT ![p] = dir[c]]
    BY <1>2 DEF Fork
  <2>2. at' = at /\ sig' = sig /\ at[p] = 1 /\ dir[c] \in Moves
    BY <1>2, <2>1 DEF Fork, PlaceInv, DirInv
  <2> QED
    BY <2>1, <2>2 DEF Moves
<1>3. ASSUME NEW c \in Callers, SignalMover(c)
      PROVE  PlaceStep(q)
  BY <1>3 DEF SignalMover, Terminate, Reap, Live
<1>4. ASSUME NEW p \in Pids, MayGoOn(p), Op(p) # "Exit", Advance(p)
      PROVE  PlaceStep(q)
  <2>1. Live(p) /\ at[p] + 1 \in 1..Len(Commands(prog[p]))
    BY <1>4, NextPlace DEF MayGoOn
  <2> QED
    BY <1>4, <2>1 DEF Advance
<1>5. ASSUME NEW p \in Pids, SleepForks(p) \/ SleepRecorded(p)
      PROVE  PlaceStep(q)
  BY <1>5 DEF SleepForks, SleepRecorded, MayGoOn
<1>6. ASSUME NEW p \in Pids, MoverLeaves(p) \/ KillMover(p)
      PROVE  PlaceStep(q)
  BY <1>6 DEF MoverLeaves, KillMover, Reap
<1>7. ASSUME NEW p \in Pids, Preempt(p)
      PROVE  PlaceStep(q)
  BY <1>7 DEF Preempt
<1>8. CASE ServiceStop \/ Reboot
  <2>1. ~Live(q) => at[q] = 1 /\ sig[q] = "none"
    BY DEF PlaceInv
  <2>2. CASE ServiceStop
    <3>1. \/ prog'[q] = "none" /\ at'[q] = 1 /\ Live(q) /\ sig'[q] = "none"
          \/ prog'[q] = prog[q] /\ at'[q] = at[q]
      BY <2>2 DEF ServiceStop, Untrapped
    <3>2. ~Live(q) => sig'[q] = "none"
      BY <2>2 DEF ServiceStop
    <3> QED
      BY <2>1, <3>1, <3>2
  <2>3. CASE Reboot
    BY <2>3 DEF Reboot
  <2> QED
    BY <1>8, <2>2, <2>3
<1>9. ASSUME NEW p \in Pids,
             \/ MoverSetsTraps(p) \/ MoverDrives(p) \/ SleepReturns(p)
             \/ WritePosition(p) \/ WritePositionFails(p) \/ KillSleep(p) \/ RemoveOwnPid(p)
      PROVE  MayGoOn(p) /\ Op(p) # "Exit" /\ Advance(p)
  BY <1>9 DEF MoverSetsTraps, MoverDrives, SleepReturns, WritePosition, WritePositionFails,
              KillSleep, RemoveOwnPid, RelayOps, SleepOps
<1>10. ASSUME NEW c \in Callers,
              \/ RunStop(c) \/ \E d \in Moves : StartMove(c, d)
              \/ TryLock(c) \/ WritePid(c) \/ ExitStart(c)
              \/ ReadPid(c) \/ AwaitMover(c) \/ RemovePid(c)
              \/ CutMotor(c) \/ ForgetPosition(c) \/ GpioFailsBrake(c) \/ WritePidFails(c)
       PROVE  UNCHANGED <<prog, at, sig>>
  BY <1>10 DEF RunStop, StartMove, TryLock, WritePid, ExitStart, ReadPid, AwaitMover,
               RemovePid, CutMotor, ForgetPosition, GpioFailsBrake, WritePidFails
<1>11. ASSUME NEW p \in Pids, OrphanEnds(p)
       PROVE  UNCHANGED <<prog, at, sig>>
  BY <1>11 DEF OrphanEnds
<1>12. ASSUME UNCHANGED vars PROVE UNCHANGED <<prog, at, sig>>
  BY <1>12 DEF vars
<1> QED
  BY <1>1, <1>2, <1>3, <1>4, <1>5, <1>6, <1>7, <1>8, <1>9, <1>10, <1>11, <1>12, NextCases
     DEF MoverExits, GpioFailsMover

-----------------------------------------------------------------------------
(* The lock: one invocation at a time between flock and exit, one mover,   *)
(* and no sleep child but that mover's.                                    *)

\* Nobody holds the lock at the start.
LEMMA LockInit == Init => LockInv
<1> SUFFICES ASSUME Init PROVE LockInv
  OBVIOUS
<1>1. \A c \in Callers : ~Holding(c)
  BY DEF Init, Holding
<1>2. \A p \in Pids : ~Taken(p)
  BY DEF Init, Taken, Live
<1> QED
  BY <1>1, <1>2 DEF LockInv

\* A step that takes no new pid, and lets nobody hold the lock that did not,
\* or forget the mover it has forked, keeps the lock's invariant.
LEMMA LockKept ==
  ASSUME LockInv,
         \A p \in Pids : Taken(p)' => Taken(p),
         \A c \in Callers : Holding(c)' =>
           /\ Holding(c)
           /\ pid'[c] = pid[c]
           /\ pc'[c] = "fork" => pc[c] = "fork"
  PROVE  LockInv'
BY DEF LockInv

\* Every step keeps the lock exclusive, from the invocation through the mover
\* to its sleep child.
LEMMA LockNext ==
  ASSUME TypeOK, PlaceInv, DirInv, LockInv, [Next]_vars
  PROVE  LockInv'
<1> USE DEF callers, movers
<1>1. ASSUME UNCHANGED <<pc, pid, prog, nap>> PROVE LockInv'
  BY <1>1, LockKept DEF Holding, Taken, Live
<1>2. ASSUME NEW c \in Callers,
             \/ RunStop(c) \/ \E d \in Moves : StartMove(c, d)
             \/ WritePid(c) \/ ExitStart(c)
             \/ ReadPid(c) \/ AwaitMover(c) \/ RemovePid(c)
             \/ CutMotor(c) \/ ForgetPosition(c) \/ GpioFailsBrake(c) \/ WritePidFails(c)
      PROVE  LockInv'
  <2>1. \A p \in Pids : Taken(p)' => Taken(p)
    BY <1>2 DEF RunStop, StartMove, WritePid, ExitStart, ReadPid, AwaitMover, RemovePid,
                CutMotor, ForgetPosition, GpioFailsBrake, WritePidFails, Taken, Live
  <2>2. \A x \in Callers : Holding(x)' =>
           Holding(x) /\ pid'[x] = pid[x] /\ (pc'[x] = "fork" => pc[x] = "fork")
    BY <1>2 DEF RunStop, StartMove, WritePid, ExitStart, ReadPid, AwaitMover, RemovePid,
                CutMotor, ForgetPosition, GpioFailsBrake, WritePidFails, Return, Holding, TypeOK
  <2> QED
    BY <2>1, <2>2, LockKept
<1>3. ASSUME NEW c \in Callers, SignalMover(c)
      PROVE  LockInv'
  <2>1. \A p \in Pids : Taken(p)' => Taken(p)
    BY <1>3 DEF SignalMover, Terminate, Reap, Taken, Live, TypeOK
  <2>2. \A x \in Callers : Holding(x)' =>
           Holding(x) /\ pid'[x] = pid[x] /\ (pc'[x] = "fork" => pc[x] = "fork")
    BY <1>3 DEF SignalMover, Holding, TypeOK
  <2> QED
    BY <2>1, <2>2, LockKept
<1>4. ASSUME NEW c \in Callers, TryLock(c)
      PROVE  LockInv'
  <2>1. \A p \in Pids : Taken(p)' <=> Taken(p)
    BY <1>4 DEF TryLock, Taken, Live
  <2>2. CASE LockFree
    <3>1. /\ \A x \in Callers : ~Holding(x)
          /\ \A p \in Pids : ~Taken(p)
      BY <2>2 DEF LockFree, Taken
    <3>2. \A x \in Callers : Holding(x)' => x = c
      BY <1>4, <2>2, <3>1 DEF TryLock, Holding, TypeOK
    <3> QED
      BY <2>1, <3>1, <3>2 DEF LockInv
  <2>3. CASE ~LockFree
    <3>1. \A x \in Callers : Holding(x)' =>
             Holding(x) /\ pid'[x] = pid[x] /\ (pc'[x] = "fork" => pc[x] = "fork")
      BY <1>4, <2>3 DEF TryLock, Return, Holding, TypeOK
    <3> QED
      BY <2>1, <3>1, LockKept
  <2> QED
    BY <2>2, <2>3
<1>5. ASSUME NEW c \in Callers, Fork(c)
      PROVE  LockInv'
  <2>1. PICK p \in Pids : /\ prog' = [prog EXCEPT ![p] = dir[c]]
                          /\ pid' = [pid EXCEPT ![c] = p]
    BY <1>5 DEF Fork
  <2>2. Holding(c) /\ \A x \in Callers : Holding(x) => x = c
    BY <1>5 DEF Fork, Holding, LockInv
  <2>3. \A q \in Pids : ~Taken(q)
    BY <1>5, <2>2 DEF Fork, LockInv
  <2>4. \A q \in Pids : Taken(q)' => q = p
    BY <1>5, <2>1, <2>3 DEF Fork, Taken, Live, TypeOK
  <2>5. \A x \in Callers : Holding(x)' => x = c
    BY <1>5, <2>2 DEF Fork, Holding, TypeOK
  <2>6. pc'[c] # "fork" /\ pid'[c] = p
    BY <1>5, <2>1 DEF Fork, TypeOK
  <2> QED
    BY <2>4, <2>5, <2>6 DEF LockInv
<1>6. ASSUME NEW p \in Pids,
             \/ MoverSetsTraps(p) \/ MoverDrives(p)
             \/ SleepForks(p) \/ SleepRecorded(p) \/ SleepReturns(p)
             \/ WritePosition(p) \/ KillSleep(p) \/ RemoveOwnPid(p)
             \/ MoverExits(p) \/ Preempt(p) \/ OrphanEnds(p)
             \/ KillMover(p) \/ GpioFailsMover(p) \/ WritePositionFails(p)
      PROVE  LockInv'
  <2>1. \A q \in Pids : Taken(q)' => Taken(q)
    <3>1. CASE \/ MoverSetsTraps(p) \/ MoverDrives(p)
               \/ WritePosition(p) \/ WritePositionFails(p) \/ RemoveOwnPid(p)
      BY <3>1 DEF MoverSetsTraps, MoverDrives, WritePosition, WritePositionFails, RemoveOwnPid,
                  Advance, Taken, Live
    <3>2. CASE SleepForks(p) \/ SleepRecorded(p) \/ SleepReturns(p) \/ KillSleep(p)
      BY <3>2 DEF SleepForks, SleepRecorded, SleepReturns, KillSleep, Advance, MayGoOn, Taken,
                  Live, TypeOK
    <3>3. CASE MoverExits(p) \/ GpioFailsMover(p) \/ KillMover(p)
      BY <3>3 DEF MoverExits, GpioFailsMover, MoverLeaves, KillMover, Reap, Taken, Live, TypeOK
    <3>4. CASE Preempt(p)
      <4>1. Live(p)
        BY <3>4 DEF Preempt, PlaceInv
      <4> QED
        BY <3>4, <4>1 DEF Preempt, Taken, Live, TypeOK
    <3>5. CASE OrphanEnds(p)
      BY <3>5 DEF OrphanEnds, Taken, Live, TypeOK
    <3> QED
      BY <1>6, <3>1, <3>2, <3>3, <3>4, <3>5
  <2>2. pc' = pc /\ pid' = pid
    BY <1>6 DEF MoverSetsTraps, MoverDrives, SleepForks, SleepRecorded, SleepReturns,
                WritePosition, KillSleep, RemoveOwnPid, MoverExits, MoverLeaves, Preempt,
                OrphanEnds, KillMover, GpioFailsMover, WritePositionFails
  <2> QED
    BY <2>1, <2>2, LockKept DEF Holding
<1>7. CASE ServiceStop \/ Reboot
  <2>1. \A c \in Callers : ~Holding(c)'
    BY <1>7 DEF ServiceStop, Reboot, AllReturn, Holding
  <2>2. \A p \in Pids : Taken(p)' => Taken(p)
    BY <1>7 DEF ServiceStop, Reboot, Taken, Live, TypeOK
  <2> QED
    BY <2>1, <2>2 DEF LockInv
<1>8. ASSUME UNCHANGED vars PROVE UNCHANGED <<pc, pid, prog, nap>>
  BY <1>8 DEF vars
<1> QED
  BY <1>1, <1>2, <1>3, <1>4, <1>5, <1>6, <1>7, <1>8, NextCases

-----------------------------------------------------------------------------
(* The motor: what a movement has switched by the time it is somewhere.    *)

\* The motor has no power at the start.
LEMMA MotorInit == Init => MotorInv
BY DEF Init, MotorInv, NeverBothOn

\* A step that at most cuts power, and moves no movement along its list.
LEMMA MotorKept ==
  ASSUME TypeOK, MotorInv, rested' = rested, k1' => k1, k2' => k2,
         \A p \in Pids : \/ prog'[p] = prog[p] /\ at'[p] = at[p]
                         \/ prog'[p] \notin Moves
                         \/ at'[p] = 1
  PROVE  MotorInv'
<1>1. (k1' \/ k2' => ~rested') /\ NeverBothOn'
  BY DEF MotorInv, NeverBothOn
<1>2. ASSUME NEW p \in Pids, prog'[p] = "raise"
      PROVE  /\ at'[p] \in 3..5 => ~k1'
             /\ at'[p] > 3 => ~k2'
             /\ at'[p] = 5 => rested'
  <2>1. at'[p] = 1 \/ (prog[p] = "raise" /\ at'[p] = at[p])
    BY <1>2 DEF Moves
  <2>2. CASE at'[p] = 1
    BY <2>2
  <2>3. CASE prog[p] = "raise" /\ at'[p] = at[p]
    BY <2>3 DEF MotorInv
  <2> QED
    BY <2>1, <2>2, <2>3
<1>3. ASSUME NEW p \in Pids, prog'[p] = "lower"
      PROVE  /\ at'[p] > 3 => ~k1'
             /\ at'[p] \in 5..7 => ~k2'
             /\ at'[p] \in 6..7 => rested'
  <2>1. at'[p] = 1 \/ (prog[p] = "lower" /\ at'[p] = at[p])
    BY <1>3 DEF Moves
  <2>2. CASE at'[p] = 1
    BY <2>2
  <2>3. CASE prog[p] = "lower" /\ at'[p] = at[p]
    BY <2>3 DEF MotorInv
  <2> QED
    BY <2>1, <2>2, <2>3
<1> QED
  BY <1>1, <1>2, <1>3 DEF MotorInv

\* The one mover goes one place along its list.
LEMMA MotorAdvances ==
  ASSUME TypeOK, PlaceInv, LockInv, MotorInv,
         NEW p \in Pids, MayGoOn(p), Op(p) # "Exit", Advance(p),
         \/ Op(p) \in RelayOps /\ Drive(Op(p))
         \/ /\ Op(p) \in SleepOps /\ k1' = k1 /\ k2' = k2
            /\ rested' = IF Op(p) = "Settle" THEN ~k1 /\ ~k2 ELSE rested
         \/ Op(p) \notin RelayOps \cup SleepOps /\ UNCHANGED relays
  PROVE  MotorInv'
<1>1. Live(p) /\ at[p] \in 1..15 /\ at'[p] = at[p] + 1 /\ prog' = prog
  BY DEF MayGoOn, Advance, TypeOK
<1>2. at[p] \in 1..Len(Commands(prog[p]))
  BY <1>1 DEF PlaceInv
<1>3. \A q \in Pids : prog'[q] \in Moves => q = p
  BY <1>1 DEF LockInv, Taken, Live, Moves
<1>4. prog[p] \in {"raise", "lower", "preempt"}
  BY <1>1 DEF Live, TypeOK, Moves
<1>5. /\ k1 \in BOOLEAN /\ k2 \in BOOLEAN /\ rested \in BOOLEAN
      /\ (k1 \/ k2 => ~rested) /\ ~(k1 /\ k2)
  BY DEF TypeOK, MotorInv, NeverBothOn
<1>6. CASE prog[p] = "raise"
  <2>1. at[p] \in 1..14
    BY <1>2, <1>6, Lengths
  <2>2. /\ at[p] \in 3..5 => ~k1
        /\ at[p] > 3 => ~k2
        /\ at[p] = 5 => rested
    BY <1>6 DEF MotorInv
  <2>3. /\ k1' \/ k2' => ~rested'
        /\ ~(k1' /\ k2')
        /\ at'[p] \in 3..5 => ~k1'
        /\ at'[p] > 3 => ~k2'
        /\ at'[p] = 5 => rested'
    <3>1. CASE Op(p) \in RelayOps /\ Drive(Op(p))
      BY <1>1, <1>5, <1>6, <2>1, <2>2, <3>1, RaiseOps DEF Drive, RelayOps
    <3>2. CASE /\ Op(p) \in SleepOps /\ k1' = k1 /\ k2' = k2
               /\ rested' = IF Op(p) = "Settle" THEN ~k1 /\ ~k2 ELSE rested
      <4>1. CASE at[p] = 4
        <5>1. rested' <=> ~k1 /\ ~k2
          BY <1>6, <2>1, <3>2, <4>1, RaiseOps
        <5> QED
          BY <1>1, <1>5, <2>2, <3>2, <4>1, <5>1
      <4>2. CASE at[p] # 4
        <5>1. rested' = rested /\ at[p] \in {7, 9}
          BY <1>6, <2>1, <3>2, <4>2, RaiseOps
        <5> QED
          BY <1>1, <1>5, <2>2, <3>2, <5>1
      <4> QED
        BY <4>1, <4>2
    <3>3. CASE Op(p) \notin RelayOps \cup SleepOps /\ UNCHANGED relays
      BY <1>1, <1>5, <1>6, <2>1, <2>2, <3>3, RaiseOps DEF relays, RelayOps
    <3> QED
      BY <3>1, <3>2, <3>3
  <2> QED
    BY <1>1, <1>3, <1>6, <2>3 DEF MotorInv, NeverBothOn, Moves
<1>7. CASE prog[p] = "lower"
  <2>1. at[p] \in 1..15
    BY <1>2, <1>7, Lengths
  <2>2. /\ at[p] > 3 => ~k1
        /\ at[p] \in 5..7 => ~k2
        /\ at[p] \in 6..7 => rested
    BY <1>7 DEF MotorInv
  <2>3. /\ k1' \/ k2' => ~rested'
        /\ ~(k1' /\ k2')
        /\ at'[p] > 3 => ~k1'
        /\ at'[p] \in 5..7 => ~k2'
        /\ at'[p] \in 6..7 => rested'
    <3>1. CASE Op(p) \in RelayOps /\ Drive(Op(p))
      BY <1>1, <1>5, <1>7, <2>1, <2>2, <3>1, LowerOps DEF Drive, RelayOps
    <3>2. CASE /\ Op(p) \in SleepOps /\ k1' = k1 /\ k2' = k2
               /\ rested' = IF Op(p) = "Settle" THEN ~k1 /\ ~k2 ELSE rested
      <4>1. CASE at[p] = 5
        <5>1. rested' <=> ~k1 /\ ~k2
          BY <1>7, <2>1, <3>2, <4>1, LowerOps
        <5> QED
          BY <1>1, <1>5, <2>2, <3>2, <4>1, <5>1
      <4>2. CASE at[p] # 5
        <5>1. rested' = rested /\ at[p] \in {8, 10}
          BY <1>7, <2>1, <3>2, <4>2, LowerOps
        <5> QED
          BY <1>1, <1>5, <2>2, <3>2, <5>1
      <4> QED
        BY <4>1, <4>2
    <3>3. CASE Op(p) \notin RelayOps \cup SleepOps /\ UNCHANGED relays
      BY <1>1, <1>5, <1>7, <2>1, <2>2, <3>3, LowerOps DEF relays, RelayOps
    <3> QED
      BY <3>1, <3>2, <3>3
  <2> QED
    BY <1>1, <1>3, <1>7, <2>3 DEF MotorInv, NeverBothOn, Moves
<1>8. CASE prog[p] = "preempt"
  <2>1. at[p] \in 1..5
    BY <1>2, <1>8, Lengths
  <2>2. rested' = rested /\ (k1' => k1) /\ (k2' => k2)
    BY <1>5, <1>8, <2>1, PreemptOps DEF Drive, relays
  <2> QED
    BY <1>1, <1>3, <1>8, <2>2, MotorKept DEF Moves
<1> QED
  BY <1>4, <1>6, <1>7, <1>8

\* The four ways a step can touch the motor; every other step leaves the
\* relays of the motor and its rest alone.
LEMMA MotorSteps ==
  ASSUME Next
  PROVE  \/ UNCHANGED <<k1, k2, rested>>
         \/ Reboot
         \/ Drive("K1off") \/ Drive("K2off")
         \/ \E p \in Pids : MoverDrives(p) \/ SleepReturns(p)
BY NextCases
   DEF RunStop, StartMove, TryLock, Fork, WritePid, ExitStart, ReadPid, SignalMover,
       AwaitMover, RemovePid, CutMotor, ForgetPosition, GpioFailsBrake, WritePidFails,
       MoverSetsTraps, SleepForks, SleepRecorded, WritePosition, KillSleep, RemoveOwnPid,
       MoverExits, MoverLeaves, Preempt, OrphanEnds, KillMover, GpioFailsMover,
       WritePositionFails, ServiceStop, relays

\* Every step keeps what a mover has done to the relays in line with the place
\* it has reached in its list.
LEMMA MotorNext ==
  ASSUME TypeOK, LockInv, DirInv, PlaceInv, MotorInv, [Next]_vars
  PROVE  MotorInv'
<1> USE DEF movers
<1>1. CASE UNCHANGED vars
  BY <1>1, MotorKept DEF vars, relays
<1>2. ASSUME NEW c \in Callers,
             \/ RunStop(c) \/ \E d \in Moves : StartMove(c, d)
             \/ TryLock(c) \/ WritePid(c) \/ ExitStart(c)
             \/ ReadPid(c) \/ AwaitMover(c) \/ RemovePid(c)
             \/ CutMotor(c) \/ ForgetPosition(c) \/ GpioFailsBrake(c) \/ WritePidFails(c)
      PROVE  MotorInv'
  <2>1. prog' = prog /\ at' = at
    BY <1>2 DEF RunStop, StartMove, TryLock, WritePid, ExitStart, ReadPid, AwaitMover,
                RemovePid, CutMotor, ForgetPosition, GpioFailsBrake, WritePidFails
  <2>2. rested' = rested /\ (k1' => k1) /\ (k2' => k2)
    <3>1. CASE CutMotor(c)
      BY <3>1 DEF CutMotor, Drive, TypeOK
    <3>2. CASE ~CutMotor(c)
      BY <1>2, <3>2 DEF RunStop, StartMove, TryLock, WritePid, ExitStart, ReadPid, AwaitMover,
                        RemovePid, ForgetPosition, GpioFailsBrake, WritePidFails, relays
    <3> QED
      BY <3>1, <3>2
  <2> QED
    BY <2>1, <2>2, MotorKept
<1>3. ASSUME NEW c \in Callers, Fork(c)
      PROVE  MotorInv'
  <2>1. PICK p \in Pids : ~Live(p) /\ prog' = [prog EXCEPT ![p] = dir[c]]
    BY <1>3 DEF Fork
  <2>2. at' = at /\ at[p] = 1
    BY <1>3, <2>1 DEF Fork, PlaceInv
  <2>3. UNCHANGED relays
    BY <1>3 DEF Fork
  <2> QED
    BY <2>1, <2>2, <2>3, MotorKept DEF relays, TypeOK
<1>4. ASSUME NEW c \in Callers, SignalMover(c)
      PROVE  MotorInv'
  <2>1. \A p \in Pids : (prog'[p] = prog[p] /\ at'[p] = at[p]) \/ prog'[p] = "none"
    BY <1>4 DEF SignalMover, Terminate, Reap
  <2>2. UNCHANGED relays
    BY <1>4 DEF SignalMover
  <2> QED
    BY <2>1, <2>2, MotorKept DEF relays, Moves
<1>5. ASSUME NEW p \in Pids,
             \/ MoverSetsTraps(p) \/ MoverDrives(p) \/ SleepReturns(p)
             \/ WritePosition(p) \/ WritePositionFails(p) \/ KillSleep(p) \/ RemoveOwnPid(p)
      PROVE  MotorInv'
  <2>1. MayGoOn(p) /\ Op(p) # "Exit" /\ Advance(p)
    BY <1>5 DEF MoverSetsTraps, MoverDrives, SleepReturns, WritePosition, WritePositionFails,
                KillSleep, RemoveOwnPid, RelayOps, SleepOps
  <2>2. \/ Op(p) \in RelayOps /\ Drive(Op(p))
        \/ /\ Op(p) \in SleepOps /\ k1' = k1 /\ k2' = k2
           /\ rested' = IF Op(p) = "Settle" THEN ~k1 /\ ~k2 ELSE rested
        \/ Op(p) \notin RelayOps \cup SleepOps /\ UNCHANGED relays
    BY <1>5 DEF MoverSetsTraps, MoverDrives, SleepReturns, WritePosition, WritePositionFails,
                KillSleep, RemoveOwnPid, RelayOps, SleepOps
  <2> QED
    BY <2>1, <2>2, MotorAdvances
<1>6. ASSUME NEW p \in Pids, SleepForks(p) \/ SleepRecorded(p) \/ OrphanEnds(p)
      PROVE  MotorInv'
  <2>1. prog' = prog /\ at' = at /\ UNCHANGED relays
    BY <1>6 DEF SleepForks, SleepRecorded, OrphanEnds
  <2> QED
    BY <2>1, MotorKept DEF relays
<1>7. ASSUME NEW p \in Pids,
             MoverExits(p) \/ KillMover(p) \/ GpioFailsMover(p) \/ Preempt(p)
      PROVE  MotorInv'
  <2>1. \A q \in Pids : \/ prog'[q] = prog[q] /\ at'[q] = at[q]
                        \/ prog'[q] \in {"none", "preempt"}
    BY <1>7 DEF MoverExits, KillMover, GpioFailsMover, MoverLeaves, Preempt, Reap, TypeOK
  <2>2. UNCHANGED relays
    BY <1>7 DEF MoverExits, KillMover, GpioFailsMover, MoverLeaves, Preempt
  <2> QED
    BY <2>1, <2>2, MotorKept DEF relays, Moves
<1>8. CASE ServiceStop
  <2>1. \A p \in Pids : (prog'[p] = prog[p] /\ at'[p] = at[p]) \/ prog'[p] = "none"
    BY <1>8 DEF ServiceStop
  <2>2. UNCHANGED relays
    BY <1>8 DEF ServiceStop
  <2> QED
    BY <2>1, <2>2, MotorKept DEF relays, Moves
<1>9. CASE Reboot
  BY <1>9 DEF Reboot, MotorInv, NeverBothOn
<1> QED
  BY <1>1, <1>2, <1>3, <1>4, <1>5, <1>6, <1>7, <1>8, <1>9, NextCases

-----------------------------------------------------------------------------
(* The theorems.                                                           *)

\* The strengthened invariant holds of every behaviour of the relay script,
\* for any number of callers and pids and whatever faults may happen.
THEOREM Inductive == Spec => []IInv
<1>1. Init => IInv
  BY TypeInit, LockInit, PlaceInit, MotorInit DEF IInv
<1>2. IInv /\ [Next]_vars => IInv'
  BY TypeNext, LockNext, DirNext, PlaceNext, MotorNext DEF IInv
<1> QED
  BY <1>1, <1>2, PTL DEF Spec

\* Every variable of the script, its files and its relays keeps its type.
THEOREM TypeCorrect == Spec => []TypeOK
<1>1. IInv => TypeOK
  BY DEF IInv
<1> QED
  BY <1>1, Inductive, PTL

\* start_move's flock admits one movement at a time, even when commands and
\* movers are killed, the service is stopped or relay writes fail.
THEOREM AtMostOneMover == Spec => []OneMover
<1>1. IInv => OneMover
  BY DEF IInv, LockInv, OneMover, Taken
<1> QED
  BY <1>1, Inductive, PTL

\* Both motor terminals are never under power together.
THEOREM TerminalsExclusive == Spec => []NeverBothOn
<1>1. IInv => NeverBothOn
  BY DEF IInv, MotorInv
<1> QED
  BY <1>1, Inductive, PTL

\* The relays are a stop first, settle, then go actuator: disco-relay
\* implements the actuator's specification.
THEOREM ImplementsActuator == Spec => MotorSpec
<1>1. Init => Motor!Init
  BY DEF Init, Motor!Init, MotorState
<1>2. ASSUME IInv, [Next]_vars
      PROVE  [Motor!Next]_<<MotorState, rested>>
  <2> USE DEF Motor!Next, Motor!Settle, Motor!Cut, Motor!Start, MotorState
  <2>1. /\ k1 \in BOOLEAN /\ k2 \in BOOLEAN /\ rested \in BOOLEAN
        /\ (k1 \/ k2 => ~rested) /\ ~(k1 /\ k2)
    BY <1>2 DEF IInv, TypeOK, MotorInv, NeverBothOn
  <2>2. CASE UNCHANGED <<k1, k2, rested>>
    BY <2>2
  <2>3. CASE Reboot
    BY <2>3 DEF Reboot
  <2>4. CASE Drive("K1off") \/ Drive("K2off")
    BY <2>1, <2>4 DEF Drive
  <2>5. ASSUME NEW p \in Pids, MoverDrives(p)
        PROVE  [Motor!Next]_<<MotorState, rested>>
    <3>1. Op(p) \in RelayOps /\ Drive(Op(p)) /\ Live(p)
      BY <2>5 DEF MoverDrives, MayGoOn
    <3>2. CASE Op(p) \in {"K1off", "K2off", "K3on", "K3off"}
      BY <2>1, <3>1, <3>2 DEF Drive
    <3>3. CASE Op(p) \in {"K1on", "K2on"}
      <4>1. ~k1 /\ ~k2 /\ rested
        <5>1. prog[p] \in {"raise", "lower", "preempt"} /\ at[p] \in 1..Len(Commands(prog[p]))
          BY <1>2, <3>1 DEF IInv, TypeOK, PlaceInv, Live, Moves
        <5>2. CASE prog[p] = "raise"
          <6>1. at[p] \in 1..14 BY <5>1, <5>2, Lengths
          <6>2. at[p] = 5 BY <3>3, <5>2, <6>1, RaiseOps
          <6> QED BY <1>2, <5>2, <6>2 DEF IInv, MotorInv
        <5>3. CASE prog[p] = "lower"
          <6>1. at[p] \in 1..15 BY <5>1, <5>3, Lengths
          <6>2. at[p] = 7 BY <3>3, <5>3, <6>1, LowerOps
          <6> QED BY <1>2, <5>3, <6>2 DEF IInv, MotorInv
        <5>4. CASE prog[p] = "preempt"
          <6>1. at[p] \in 1..5 BY <5>1, <5>4, Lengths
          <6> QED BY <3>3, <5>4, <6>1, PreemptOps
        <5> QED BY <5>1, <5>2, <5>3, <5>4
      <4> QED
        BY <3>1, <3>3, <4>1 DEF Drive
    <3> QED
      BY <3>1, <3>2, <3>3 DEF RelayOps
  <2>6. ASSUME NEW p \in Pids, SleepReturns(p)
        PROVE  [Motor!Next]_<<MotorState, rested>>
    <3>1. k1' = k1 /\ k2' = k2
      BY <2>6 DEF SleepReturns
    <3>2. CASE Op(p) = "Settle"
      <4>1. rested' <=> ~k1 /\ ~k2
        BY <2>6, <3>2 DEF SleepReturns
      <4> QED
        BY <2>1, <3>1, <4>1
    <3>3. CASE Op(p) # "Settle"
      BY <2>6, <3>1, <3>3 DEF SleepReturns
    <3> QED
      BY <3>2, <3>3
  <2> QED
    BY <1>2, <2>2, <2>3, <2>4, <2>5, <2>6, MotorSteps DEF vars, relays
<1> QED
  BY <1>1, <1>2, Inductive, PTL DEF Spec, MotorSpec, Motor!Spec

-----------------------------------------------------------------------------
(* One caller: a brake finds the mover, whatever faults there are.         *)

\* The command is run by one caller at a time, as by a single phone call.
OneCaller == \A c, d \in Callers : c = d

\* Only start_move brings a movement about; every other step lets it be, tells
\* it to end or ends it.
LEMMA OnlyForkMoves ==
  ASSUME TypeOK, [Next]_vars, NEW p \in Pids, Moving(p)', ~\E c \in Callers : Fork(c)
  PROVE  Moving(p)
<1> USE DEF Moving, TypeOK, Moves, movers
<1>1. CASE UNCHANGED <<prog, sig>>
  BY <1>1
<1>2. ASSUME NEW c \in Callers, SignalMover(c)
      PROVE  Moving(p)
  BY <1>2 DEF SignalMover, Terminate, Reap, Live
<1>3. ASSUME NEW q \in Pids, Advance(q) \/ SleepForks(q) \/ SleepRecorded(q)
      PROVE  Moving(p)
  BY <1>3 DEF Advance, SleepForks, SleepRecorded
<1>4. ASSUME NEW q \in Pids, MoverLeaves(q) \/ KillMover(q)
      PROVE  Moving(p)
  BY <1>4 DEF MoverLeaves, KillMover, Reap
<1>5. ASSUME NEW q \in Pids, Preempt(q)
      PROVE  Moving(p)
  BY <1>5 DEF Preempt
<1>6. CASE ServiceStop
  BY <1>6 DEF ServiceStop, Live
<1>7. CASE Reboot
  BY <1>7 DEF Reboot
<1>8. ASSUME NEW c \in Callers,
             \/ RunStop(c) \/ \E d \in Moves : StartMove(c, d)
             \/ TryLock(c) \/ WritePid(c) \/ ExitStart(c)
             \/ ReadPid(c) \/ AwaitMover(c) \/ RemovePid(c)
             \/ CutMotor(c) \/ ForgetPosition(c) \/ GpioFailsBrake(c) \/ WritePidFails(c)
      PROVE  UNCHANGED <<prog, sig>>
  BY <1>8 DEF RunStop, StartMove, TryLock, WritePid, ExitStart, ReadPid, AwaitMover,
              RemovePid, CutMotor, ForgetPosition, GpioFailsBrake, WritePidFails
<1>9. ASSUME NEW q \in Pids, OrphanEnds(q)
      PROVE  UNCHANGED <<prog, sig>>
  BY <1>9 DEF OrphanEnds
<1>10. CASE UNCHANGED vars
  BY <1>1, <1>10 DEF vars
<1> QED
  BY <1>1, <1>2, <1>3, <1>4, <1>5, <1>6, <1>7, <1>8, <1>9, <1>10, NextCases
     DEF MoverSetsTraps, MoverDrives, SleepReturns, WritePosition, KillSleep, RemoveOwnPid,
         MoverExits, GpioFailsMover, WritePositionFails

\* Of the movers there is one at most, so a movement is the mover that acts.
LEMMA OneAtATime ==
  ASSUME LockInv, NEW p \in Pids, NEW q \in Pids, Live(p), Live(q) \/ Moving(q)
  PROVE  p = q
BY DEF LockInv, Taken, Live, Moving, Moves

\* A mover that removes its pid file has been preempted.
LEMMA RemovesWhenPreempted ==
  ASSUME TypeOK, PlaceInv, NEW p \in Pids, MayGoOn(p), Op(p) \in {"RmPid", "KillSleep"}
  PROVE  prog[p] = "preempt"
<1>1. prog[p] \in {"raise", "lower", "preempt"} /\ at[p] \in 1..Len(Commands(prog[p]))
  BY DEF TypeOK, PlaceInv, MayGoOn, Live, Moves
<1>2. prog[p] # "raise"
  <2> SUFFICES ASSUME prog[p] = "raise" PROVE FALSE
    OBVIOUS
  <2>1. at[p] \in 1..14 BY <1>1, Lengths
  <2> QED BY <2>1, RaiseOps
<1>3. prog[p] # "lower"
  <2> SUFFICES ASSUME prog[p] = "lower" PROVE FALSE
    OBVIOUS
  <2>1. at[p] \in 1..15 BY <1>1, Lengths
  <2> QED BY <2>1, LowerOps
<1> QED
  BY <1>1, <1>2, <1>3

\* Every step but the one that fails to write the pid.
PidWritten ==
  \/ \E c \in Callers : RunStop(c) \/ \E d \in Moves : StartMove(c, d)
  \/ Progress
  \/ \E p \in Pids : KillMover(p) \/ GpioFailsMover(p) \/ WritePositionFails(p)
  \/ \E c \in Callers : GpioFailsBrake(c)
  \/ ServiceStop
  \/ Reboot

\* Those steps, one disjunct per action.
LEMMA PidWrittenCases ==
  ASSUME PidWritten
  PROVE  \/ \E c \in Callers :
              \/ RunStop(c) \/ \E d \in Moves : StartMove(c, d)
              \/ TryLock(c) \/ Fork(c) \/ WritePid(c) \/ ExitStart(c)
              \/ ReadPid(c) \/ SignalMover(c) \/ AwaitMover(c) \/ RemovePid(c)
              \/ CutMotor(c) \/ ForgetPosition(c) \/ GpioFailsBrake(c)
         \/ \E p \in Pids :
              \/ MoverSetsTraps(p) \/ MoverDrives(p)
              \/ SleepForks(p) \/ SleepRecorded(p) \/ SleepReturns(p)
              \/ WritePosition(p) \/ KillSleep(p) \/ RemoveOwnPid(p)
              \/ MoverExits(p) \/ Preempt(p) \/ OrphanEnds(p)
              \/ KillMover(p) \/ GpioFailsMover(p) \/ WritePositionFails(p)
         \/ ServiceStop
         \/ Reboot
BY DEF PidWritten, Progress, CallerStep, start_move, run_stop, MoverStep

\* The pid file names the movement, from the moment start_move has written it
\* until a brake or the mover itself has ended it.
LEMMA PidNext ==
  ASSUME TypeOK, LockInv, PlaceInv, DirInv, PidInv, BrakeInv,
         PidWritten \/ UNCHANGED vars
  PROVE  PidInv'
<1> SUFFICES ASSUME NEW p \in Pids, Moving(p)'
             PROVE  pidFile' = p \/ \E c \in Callers : pc'[c] = "writepid" /\ pid'[c] = p
  BY DEF PidInv
<1> USE DEF TypeOK, callers, files
<1>1. ASSUME NEW c \in Callers, Fork(c)
      PROVE  pc'[c] = "writepid" /\ pid'[c] = p
  <2>1. PICK q \in Pids : prog' = [prog EXCEPT ![q] = dir[c]] /\ pid' = [pid EXCEPT ![c] = q]
    BY <1>1 DEF Fork
  <2>2. ~Live(p)
    BY <1>1 DEF Fork, LockInv, Holding, Taken
  <2>3. p = q
    BY <2>1, <2>2 DEF Moving, Live, Moves
  <2> QED
    BY <1>1, <2>1, <2>3 DEF Fork
<1>2. ASSUME ~\E c \in Callers : Fork(c)
      PROVE  /\ Moving(p) /\ Live(p)
             /\ pidFile = p \/ \E c \in Callers : pc[c] = "writepid" /\ pid[c] = p
  BY <1>2, OnlyForkMoves DEF PidWritten, Next, Fault, PidInv, Moving, Live, Moves
<1>3. ASSUME NEW c \in Callers, WritePid(c)
      PROVE  pidFile' = p
  <2>1. Live(p)
    BY <1>3 DEF WritePid, Moving, Live, movers, Moves
  <2>2. pid[c] = p
    BY <1>3, <2>1 DEF WritePid, LockInv, Holding, Taken
  <2> QED
    BY <1>3, <2>2 DEF WritePid
<1>4. ASSUME NEW c \in Callers, RemovePid(c)
      PROVE  FALSE
  BY <1>4 DEF RemovePid, BrakeInv, Told, Moving, movers
<1>5. ASSUME NEW q \in Pids, RemoveOwnPid(q)
      PROVE  FALSE
  <2>1. prog[q] = "preempt" /\ Live(q) /\ prog' = prog
    BY <1>5, RemovesWhenPreempted DEF RemoveOwnPid, Advance, MayGoOn, Live
  <2>2. Live(p)
    BY <2>1 DEF Moving, Live, Moves
  <2> QED
    BY <2>1, <2>2, OneAtATime DEF Moving, Moves
<1>6. ASSUME NEW q \in Pids, MoverLeaves(q), Live(q)
      PROVE  FALSE
  <2>1. Live(p) /\ p # q
    BY <1>6 DEF MoverLeaves, Reap, Moving, Live, Moves
  <2> QED
    BY <1>6, <2>1, OneAtATime
<1>7. ~(ServiceStop \/ Reboot)
  BY DEF ServiceStop, Reboot, Moving, Live, Moves
<1>8. ASSUME NEW c \in Callers,
             \/ RunStop(c) \/ \E d \in Moves : StartMove(c, d)
             \/ TryLock(c) \/ ExitStart(c)
             \/ ReadPid(c) \/ SignalMover(c) \/ AwaitMover(c)
             \/ CutMotor(c) \/ ForgetPosition(c) \/ GpioFailsBrake(c),
             NEW d \in Callers, pc[d] = "writepid"
      PROVE  pidFile' = pidFile /\ pc'[d] = "writepid" /\ pid'[d] = pid[d]
  BY <1>8 DEF RunStop, StartMove, TryLock, ExitStart, ReadPid, SignalMover, AwaitMover,
              CutMotor, ForgetPosition, GpioFailsBrake, Return
<1>9. ASSUME NEW c \in Callers,
             \/ RunStop(c) \/ \E d \in Moves : StartMove(c, d)
             \/ TryLock(c) \/ ExitStart(c)
             \/ ReadPid(c) \/ SignalMover(c) \/ AwaitMover(c)
             \/ CutMotor(c) \/ ForgetPosition(c) \/ GpioFailsBrake(c)
      PROVE  pidFile' = pidFile
  BY <1>9 DEF RunStop, StartMove, TryLock, ExitStart, ReadPid, SignalMover, AwaitMover,
              CutMotor, ForgetPosition, GpioFailsBrake
<1>10. ASSUME NEW q \in Pids,
              \/ MoverSetsTraps(q) \/ MoverDrives(q)
              \/ SleepForks(q) \/ SleepRecorded(q) \/ SleepReturns(q)
              \/ WritePosition(q) \/ WritePositionFails(q) \/ KillSleep(q)
              \/ Preempt(q) \/ OrphanEnds(q) \/ KillMover(q)
       PROVE  UNCHANGED <<pidFile, pc, pid>>
  BY <1>10 DEF MoverSetsTraps, MoverDrives, SleepForks, SleepRecorded, SleepReturns,
               WritePosition, WritePositionFails, KillSleep, Preempt, OrphanEnds, KillMover
<1>11. CASE UNCHANGED vars
  <2>1. UNCHANGED <<pidFile, pc, pid>> /\ Moving(p)
    BY <1>11 DEF vars, Moving, movers
  <2> QED
    BY <2>1 DEF PidInv
<1>12. CASE PidWritten
  <2>1. CASE \E c \in Callers : Fork(c) \/ WritePid(c) \/ RemovePid(c)
    BY <1>1, <1>3, <1>4, <2>1
  <2>2. CASE \E c \in Callers : \/ RunStop(c) \/ \E d \in Moves : StartMove(c, d)
             \/ TryLock(c) \/ ExitStart(c)
             \/ ReadPid(c) \/ SignalMover(c) \/ AwaitMover(c)
             \/ CutMotor(c) \/ ForgetPosition(c) \/ GpioFailsBrake(c)
    <3>1. CASE \E c \in Callers : Fork(c)
      BY <1>1, <3>1
    <3> QED
      BY <1>2, <1>8, <1>9, <2>2, <3>1
  <2>3. CASE \E q \in Pids : RemoveOwnPid(q) \/ MoverExits(q) \/ GpioFailsMover(q)
    BY <1>5, <1>6, <2>3 DEF MoverExits, GpioFailsMover, MayGoOn
  <2>4. CASE \E q \in Pids : \/ MoverSetsTraps(q) \/ MoverDrives(q)
              \/ SleepForks(q) \/ SleepRecorded(q) \/ SleepReturns(q)
              \/ WritePosition(q) \/ WritePositionFails(q) \/ KillSleep(q)
              \/ Preempt(q) \/ OrphanEnds(q) \/ KillMover(q)
    <3>1. CASE \E c \in Callers : Fork(c)
      BY <1>1, <3>1
    <3> QED
      BY <1>2, <1>10, <2>4, <3>1
  <2> QED
    BY <1>7, <1>12, <2>1, <2>2, <2>3, <2>4, PidWrittenCases
<1> QED
  BY <1>11, <1>12

\* Whom a brake is to preempt is alive: the dead are forgotten.
LEMMA PriorNext ==
  ASSUME TypeOK, BrakeInv, [Next]_vars, NEW d \in Callers, NEW p \in prior'[d]
  PROVE  Live(p)'
<1> USE DEF TypeOK, movers, Live
<1>0. p \in prior[d] => prog[p] # "none" /\ p \in Pids
  BY DEF BrakeInv
<1>1. CASE prior' = prior /\ \A q \in Pids : prog[q] # "none" => prog'[q] # "none"
  BY <1>0, <1>1
<1>2. ASSUME NEW c \in Callers,
             \/ \E e \in Moves : StartMove(c, e)
             \/ TryLock(c) \/ Fork(c) \/ WritePid(c) \/ ExitStart(c)
             \/ ReadPid(c) \/ AwaitMover(c) \/ RemovePid(c) \/ CutMotor(c)
      PROVE  prior' = prior /\ \A q \in Pids : prog[q] # "none" => prog'[q] # "none"
  <2>1. CASE Fork(c)
    BY <2>1 DEF Fork
  <2> QED
    BY <1>2, <2>1 DEF StartMove, TryLock, WritePid, ExitStart, ReadPid, AwaitMover, RemovePid,
                      CutMotor
<1>3. ASSUME NEW c \in Callers, RunStop(c)
      PROVE  Live(p)'
  BY <1>0, <1>3 DEF RunStop
<1>4. ASSUME NEW c \in Callers, SignalMover(c)
      PROVE  Live(p)'
  BY <1>0, <1>4 DEF SignalMover, Terminate, Reap
<1>5. ASSUME NEW c \in Callers, ForgetPosition(c) \/ GpioFailsBrake(c) \/ WritePidFails(c)
      PROVE  Live(p)'
  BY <1>0, <1>5 DEF ForgetPosition, GpioFailsBrake, WritePidFails
<1>6. ASSUME NEW q \in Pids, MoverLeaves(q) \/ KillMover(q)
      PROVE  Live(p)'
  BY <1>0, <1>6 DEF MoverLeaves, KillMover, Reap
<1>7. ASSUME NEW q \in Pids,
             \/ MoverSetsTraps(q) \/ MoverDrives(q)
             \/ SleepForks(q) \/ SleepRecorded(q) \/ SleepReturns(q)
             \/ WritePosition(q) \/ WritePositionFails(q) \/ KillSleep(q) \/ RemoveOwnPid(q)
             \/ Preempt(q) \/ OrphanEnds(q)
      PROVE  prior' = prior /\ \A r \in Pids : prog[r] # "none" => prog'[r] # "none"
  BY <1>7 DEF MoverSetsTraps, MoverDrives, SleepForks, SleepRecorded, SleepReturns,
              WritePosition, WritePositionFails, KillSleep, RemoveOwnPid, Advance, Preempt,
              OrphanEnds
<1>8. ~(ServiceStop \/ Reboot)
  BY DEF ServiceStop, Reboot, AllReturn
<1>9. CASE UNCHANGED vars
  BY <1>0, <1>9 DEF vars
<1> QED
  BY <1>1, <1>2, <1>3, <1>4, <1>5, <1>6, <1>7, <1>8, <1>9, NextCases
     DEF MoverExits, GpioFailsMover

\* A brake that reads the pid file reads the movement's pid, and once it has
\* signalled that pid no movement goes on untold.
LEMMA BrakeNext ==
  ASSUME OneCaller, TypeOK, LockInv, PidInv, BrakeInv, [Next]_vars
  PROVE  BrakeInv'
<1> SUFFICES ASSUME NEW d \in Callers, NEW p \in Pids, Moving(p)'
             PROVE  /\ pc'[d] = "signal" => pid'[d] = p
                    /\ pc'[d] \notin Told
  BY PriorNext DEF BrakeInv
<1> USE DEF TypeOK, callers, Told
<1>1. ASSUME NEW c \in Callers, Fork(c)
      PROVE  pc'[d] = "writepid"
  BY <1>1 DEF Fork, OneCaller
<1>2. ASSUME ~\E c \in Callers : Fork(c)
      PROVE  /\ Moving(p)
             /\ pc[d] = "signal" => pid[d] = p
             /\ pc[d] \notin Told
             /\ pidFile = p \/ (pc[d] = "writepid" /\ pid[d] = p)
  BY <1>2, OnlyForkMoves DEF BrakeInv, PidInv, OneCaller
<1>3. ASSUME NEW c \in Callers, ReadPid(c), Moving(p), pidFile = p \/ pc[d] = "writepid"
      PROVE  pc'[d] = "signal" /\ pid'[d] = p
  BY <1>3, NoPidIsNoPid DEF ReadPid, OneCaller
<1>4. ASSUME NEW c \in Callers, SignalMover(c), Moving(p), pc[d] = "signal" => pid[d] = p
      PROVE  FALSE
  <2>1. c = d /\ pid[c] = p /\ Live(p)
    BY <1>4 DEF OneCaller, SignalMover, Moving, Live, Moves
  <2>2. Terminate({p})
    BY <1>4, <2>1 DEF SignalMover
  <2>3. prog'[p] = "none" \/ sig'[p] # "none"
    BY <2>1, <2>2 DEF Terminate, Reap
  <2> QED
    BY <2>3 DEF Moving, Moves
<1>5. ASSUME NEW c \in Callers,
             \/ RunStop(c) \/ \E e \in Moves : StartMove(c, e)
             \/ TryLock(c) \/ WritePid(c) \/ ExitStart(c)
             \/ AwaitMover(c) \/ RemovePid(c)
             \/ CutMotor(c) \/ ForgetPosition(c) \/ GpioFailsBrake(c) \/ WritePidFails(c),
             pc[d] \notin Told
      PROVE  pc'[d] # "signal" /\ pc'[d] \notin Told
  BY <1>5 DEF RunStop, StartMove, TryLock, WritePid, ExitStart, AwaitMover, RemovePid,
              CutMotor, ForgetPosition, GpioFailsBrake, WritePidFails, Return, OneCaller
<1>6. ASSUME NEW q \in Pids,
             \/ MoverSetsTraps(q) \/ MoverDrives(q)
             \/ SleepForks(q) \/ SleepRecorded(q) \/ SleepReturns(q)
             \/ WritePosition(q) \/ KillSleep(q) \/ RemoveOwnPid(q)
             \/ MoverExits(q) \/ Preempt(q) \/ OrphanEnds(q)
             \/ KillMover(q) \/ GpioFailsMover(q) \/ WritePositionFails(q)
      PROVE  UNCHANGED <<pc, pid>>
  BY <1>6 DEF MoverSetsTraps, MoverDrives, SleepForks, SleepRecorded, SleepReturns,
              WritePosition, KillSleep, RemoveOwnPid, MoverExits, MoverLeaves, Preempt,
              OrphanEnds, KillMover, GpioFailsMover, WritePositionFails
<1>7. CASE ServiceStop \/ Reboot
  BY <1>7 DEF ServiceStop, Reboot, AllReturn
<1>8. CASE UNCHANGED vars
  BY <1>8 DEF vars, BrakeInv, Moving, movers
<1>9. CASE Next
  <2>1. CASE \E c \in Callers : Fork(c)
    BY <1>1, <2>1
  <2>2. CASE ~\E c \in Callers : Fork(c)
    BY <1>2, <1>3, <1>4, <1>5, <1>6, <1>7, <1>9, <2>2, NextCases
  <2> QED
    BY <2>1, <2>2
<1> QED
  BY <1>8, <1>9

\* Nothing moves and nothing brakes at the start.
LEMMA BrakeInit == Init => PidInv /\ BrakeInv
BY DEF Init, PidInv, BrakeInv, Moving, Moves, Told

\* With one caller, and as long as the pid can be written, the pid file and the
\* brakes are in order at every step.
LEMMA BrakesInOrder ==
  OneCaller /\ "full" \notin Faults /\ Spec => [](PidInv /\ BrakeInv)
<1> SUFFICES ASSUME OneCaller, "full" \notin Faults
             PROVE  Spec => [](PidInv /\ BrakeInv)
  OBVIOUS
<1>1. Init => PidInv /\ BrakeInv
  BY BrakeInit
<1>2. IInv /\ PidInv /\ BrakeInv /\ [Next]_vars => (PidInv /\ BrakeInv)'
  <2>1. Next => PidWritten
    BY DEF Next, Fault, PidWritten, WritePidFails
  <2> QED
    BY <2>1, PidNext, BrakeNext DEF IInv
<1> QED
  BY <1>1, <1>2, Inductive, PTL DEF Spec

\* "brake always preempts" (run_stop), whatever is killed, stopped, rebooted or
\* fails to switch, as long as one caller at a time runs the command and the
\* tmpfs of /run takes the pid.  A second caller can start a movement behind the
\* brake's back, and on a full tmpfs no brake finds the mover: there it is false.
THEOREM BrakeAlwaysPreempts ==
  OneCaller /\ "full" \notin Faults /\ Spec => []BrakePreempts
<1>1. BrakeInv /\ TypeOK => BrakePreempts
  BY DEF BrakeInv, BrakePreempts, Moving, Live, Told, TypeOK
<1> QED
  BY <1>1, BrakesInOrder, TypeCorrect, PTL

-----------------------------------------------------------------------------
(* One caller, and no fault but a reboot: the recorded position is true.   *)

\* What commands, movers and reboots do; a fault of another kind may end a
\* movement halfway and leave the position of an earlier one recorded.
Calm ==
  \/ \E c \in Callers : RunStop(c) \/ \E d \in Moves : StartMove(c, d)
  \/ Progress
  \/ Reboot

\* The calm steps, one disjunct per action.
LEMMA CalmCases ==
  ASSUME Calm
  PROVE  \/ \E c \in Callers :
              \/ RunStop(c) \/ \E d \in Moves : StartMove(c, d)
              \/ TryLock(c) \/ Fork(c) \/ WritePid(c) \/ ExitStart(c)
              \/ ReadPid(c) \/ SignalMover(c) \/ AwaitMover(c) \/ RemovePid(c)
              \/ CutMotor(c) \/ ForgetPosition(c)
         \/ \E p \in Pids :
              \/ MoverSetsTraps(p) \/ MoverDrives(p)
              \/ SleepForks(p) \/ SleepRecorded(p) \/ SleepReturns(p)
              \/ WritePosition(p) \/ KillSleep(p) \/ RemoveOwnPid(p)
              \/ MoverExits(p) \/ Preempt(p) \/ OrphanEnds(p)
         \/ Reboot
BY DEF Calm, Progress, CallerStep, start_move, run_stop, MoverStep

\* Where the lists have a mover light the spots, arrive and write the position.
LEMMA RaiseEnds ==
  ASSUME NEW p \in Pids, prog[p] = "raise", at[p] \in 1..14
  PROVE  /\ Op(p) = "Arrive" <=> at[p] = 9
         /\ Op(p) = "K3on" <=> at[p] \in {8, 12}
         /\ Op(p) # "K3off"
         /\ Op(p) = "WritePos" <=> at[p] = 13
<1>1. Op(p) = perform_raise[at[p]]
  BY DEF Op, Commands
<1> QED
  BY <1>1 DEF perform_raise

\* The same of the lower list.
LEMMA LowerEnds ==
  ASSUME NEW p \in Pids, prog[p] = "lower", at[p] \in 1..15
  PROVE  /\ Op(p) = "Arrive" <=> at[p] = 10
         /\ Op(p) = "K3on" <=> at[p] = 2
         /\ Op(p) = "K3off" <=> at[p] \in {9, 13}
         /\ Op(p) = "WritePos" <=> at[p] = 14
<1>1. Op(p) = perform_lower[at[p]]
  BY DEF Op, Commands
<1> QED
  BY <1>1 DEF perform_lower

\* A preempted mover leaves the spots as they are.
LEMMA PreemptEnds ==
  ASSUME NEW p \in Pids, prog[p] = "preempt", at[p] \in 1..5
  PROVE  Op(p) \notin {"K3on", "K3off"}
<1>1. Op(p) = preempt_movement[at[p]]
  BY DEF Op, Commands
<1> QED
  BY <1>1 DEF preempt_movement

\* Cutting power leaves a ball that has arrived where it is.
LEMMA CutsKeep ==
  ASSUME TypeOK, NEW op \in {"K1off", "K2off"}, Drive(op)
  PROVE  /\ k3' = k3
         /\ ball \in {"top", "bottom"} => ball' = ball
BY DEF Drive, TypeOK

\* What a command of a mover does to the relays, the ball and the position.
MoverWork(p) ==
  \/ Op(p) \in RelayOps /\ Drive(Op(p)) /\ posFile' = posFile
  \/ /\ Op(p) \in SleepOps /\ k3' = k3 /\ posFile' = posFile
     /\ ball' = CASE Op(p) = "Arrive" /\ ball = "rising"  -> "top"
                  [] Op(p) = "Arrive" /\ ball = "falling" -> "bottom"
                  [] OTHER -> ball
  \/ /\ Op(p) = "WritePos" /\ k3' = k3 /\ ball' = ball
     /\ posFile' = IF prog[p] = "raise" THEN "up" ELSE "down"
  \/ /\ Op(p) \notin RelayOps \cup SleepOps \cup {"WritePos"}
     /\ k3' = k3 /\ ball' = ball /\ posFile' = posFile

\* The commands of a movement, but for its exit, are such work.
LEMMA MoverWorks ==
  ASSUME NEW p \in Pids,
         \/ MoverSetsTraps(p) \/ MoverDrives(p) \/ SleepReturns(p)
         \/ WritePosition(p) \/ KillSleep(p) \/ RemoveOwnPid(p)
  PROVE  /\ MayGoOn(p) /\ Op(p) # "Exit" /\ Advance(p) /\ MoverWork(p)
         /\ UNCHANGED callers
<1>1. CASE MoverDrives(p)
  BY <1>1 DEF MoverDrives, MoverWork, RelayOps, SleepOps, files
<1>2. CASE SleepReturns(p)
  BY <1>2 DEF SleepReturns, MoverWork, RelayOps, SleepOps, files
<1>3. CASE WritePosition(p)
  BY <1>3 DEF WritePosition, MoverWork, RelayOps, SleepOps, relays
<1>4. CASE MoverSetsTraps(p) \/ KillSleep(p) \/ RemoveOwnPid(p)
  BY <1>4 DEF MoverSetsTraps, KillSleep, RemoveOwnPid, MoverWork, RelayOps, SleepOps,
              relays, files
<1> QED
  BY <1>1, <1>2, <1>3, <1>4

\* A step that lets each mover stay, end, begin or be preempted, and moves the
\* ball or forgets the position only when nothing is moving, keeps DoneInv.
LEMMA DoneKept ==
  ASSUME DoneInv,
         \A p \in Pids :
           \/ /\ prog'[p] = prog[p] /\ at'[p] = at[p]
              /\ sig'[p] = "none" => sig[p] = "none"
              /\ sig'[p] # "due" => sig[p] # "due"
           \/ prog'[p] \notin Moves
           \/ at'[p] = 1,
         ball \in {"top", "bottom"} => ball' = ball,
         k3' = k3,
         \/ ball' = ball /\ posFile' = posFile
         \/ \A p \in Pids : ~Moving(p)
  PROVE  DoneInv'
<1>1. ASSUME NEW p \in Pids, prog'[p] = "raise"
      PROVE  /\ at'[p] \in 6..9 /\ sig'[p] = "none" => ball' \in {"rising", "top"}
             /\ at'[p] > 9 /\ sig'[p] # "due" => ball' = "top"
             /\ at'[p] > 12 /\ sig'[p] # "due" => k3'
             /\ at'[p] = 14 /\ sig'[p] = "none" => posFile' = "up"
  BY <1>1 DEF DoneInv, Moving, Moves
<1>2. ASSUME NEW p \in Pids, prog'[p] = "lower"
      PROVE  /\ at'[p] \in 8..10 /\ sig'[p] = "none" => ball' \in {"falling", "bottom"}
             /\ at'[p] > 10 /\ sig'[p] # "due" => ball' = "bottom"
             /\ at'[p] > 13 /\ sig'[p] # "due" => ~k3'
             /\ at'[p] = 15 /\ sig'[p] = "none" => posFile' = "down"
  BY <1>2 DEF DoneInv, Moving, Moves
<1> QED
  BY <1>1, <1>2 DEF DoneInv

\* The next command of a raise.
LEMMA RaiseAdvances ==
  ASSUME TypeOK, PlaceInv, MotorInv, DoneInv, NEW p \in Pids, MayGoOn(p),
         prog[p] = "raise", Op(p) # "Exit", Advance(p), MoverWork(p)
  PROVE  /\ at'[p] \in 6..9 /\ sig'[p] = "none" => ball' \in {"rising", "top"}
         /\ at'[p] > 9 /\ sig'[p] # "due" => ball' = "top"
         /\ at'[p] > 12 /\ sig'[p] # "due" => k3'
         /\ at'[p] = 14 /\ sig'[p] = "none" => posFile' = "up"
<1>1. at[p] \in 1..14
  BY Lengths DEF PlaceInv, MayGoOn
<1>2. at'[p] = at[p] + 1 /\ sig[p] # "due" /\ (sig'[p] # "due" => sig[p] = "none")
  BY DEF Advance, MayGoOn, TypeOK
<1>3. /\ Op(p) = "K1on" <=> at[p] = 5
      /\ Op(p) = "K1off" <=> at[p] \in {2, 10}
      /\ Op(p) # "K2on" /\ Op(p) # "K3off"
      /\ Op(p) = "K2off" <=> at[p] \in {3, 6, 11}
      /\ Op(p) \in SleepOps <=> at[p] \in {4, 7, 9}
      /\ Op(p) = "Arrive" <=> at[p] = 9
      /\ Op(p) = "K3on" <=> at[p] \in {8, 12}
      /\ Op(p) = "WritePos" <=> at[p] = 13
  BY <1>1, RaiseOps, RaiseEnds
<1>4. /\ at[p] \in 6..9 /\ sig[p] = "none" => ball \in {"rising", "top"}
      /\ at[p] > 9 /\ sig[p] # "due" => ball = "top"
      /\ at[p] > 12 /\ sig[p] # "due" => k3
      /\ at[p] > 3 => ~k2
  BY DEF DoneInv, MotorInv
<1>5. ASSUME sig[p] = "none", at[p] \in 5..8
      PROVE  ball' \in {"rising", "top"}
  BY <1>3, <1>4, <1>5 DEF MoverWork, Drive, RelayOps, SleepOps, TypeOK
<1>6. ASSUME sig[p] = "none", at[p] > 8
      PROVE  ball' = "top"
  BY <1>1, <1>3, <1>4, <1>6 DEF MoverWork, Drive, RelayOps, SleepOps, TypeOK
<1>7. ASSUME sig[p] = "none", at[p] > 11
      PROVE  k3'
  <2>1. CASE at[p] = 12
    BY <1>3, <2>1 DEF MoverWork, Drive, RelayOps, SleepOps
  <2>2. CASE at[p] > 12
    <3>1. k3 = TRUE /\ Op(p) \notin RelayOps
      BY <1>1, <1>3, <1>4, <1>7, <2>2 DEF RelayOps, TypeOK
    <3> QED
      BY <3>1 DEF MoverWork
  <2> QED
    BY <1>1, <1>7, <2>1, <2>2
<1>8. ASSUME at[p] = 13
      PROVE  posFile' = "up"
  BY <1>3, <1>8 DEF MoverWork, RelayOps, SleepOps
<1> QED
  BY <1>1, <1>2, <1>5, <1>6, <1>7, <1>8

\* The next command of a lower.
LEMMA LowerAdvances ==
  ASSUME TypeOK, PlaceInv, MotorInv, DoneInv, NEW p \in Pids, MayGoOn(p),
         prog[p] = "lower", Op(p) # "Exit", Advance(p), MoverWork(p)
  PROVE  /\ at'[p] \in 8..10 /\ sig'[p] = "none" => ball' \in {"falling", "bottom"}
         /\ at'[p] > 10 /\ sig'[p] # "due" => ball' = "bottom"
         /\ at'[p] > 13 /\ sig'[p] # "due" => ~k3'
         /\ at'[p] = 15 /\ sig'[p] = "none" => posFile' = "down"
<1>1. at[p] \in 1..15
  BY Lengths DEF PlaceInv, MayGoOn
<1>2. at'[p] = at[p] + 1 /\ sig[p] # "due" /\ (sig'[p] # "due" => sig[p] = "none")
  BY DEF Advance, MayGoOn, TypeOK
<1>3. /\ Op(p) # "K1on"
      /\ Op(p) = "K1off" <=> at[p] \in {3, 6, 11}
      /\ Op(p) = "K2on" <=> at[p] = 7
      /\ Op(p) = "K2off" <=> at[p] \in {4, 12}
      /\ Op(p) \in SleepOps <=> at[p] \in {5, 8, 10}
      /\ Op(p) = "Arrive" <=> at[p] = 10
      /\ Op(p) = "K3on" <=> at[p] = 2
      /\ Op(p) = "K3off" <=> at[p] \in {9, 13}
      /\ Op(p) = "WritePos" <=> at[p] = 14
  BY <1>1, LowerOps, LowerEnds
<1>4. /\ at[p] \in 8..10 /\ sig[p] = "none" => ball \in {"falling", "bottom"}
      /\ at[p] > 10 /\ sig[p] # "due" => ball = "bottom"
      /\ at[p] > 13 /\ sig[p] # "due" => ~k3
      /\ at[p] > 3 => ~k1
  BY DEF DoneInv, MotorInv
<1>5. ASSUME sig[p] = "none", at[p] \in 7..9
      PROVE  ball' \in {"falling", "bottom"}
  BY <1>3, <1>4, <1>5 DEF MoverWork, Drive, RelayOps, SleepOps, TypeOK
<1>6. ASSUME sig[p] = "none", at[p] > 9
      PROVE  ball' = "bottom"
  BY <1>1, <1>3, <1>4, <1>6 DEF MoverWork, Drive, RelayOps, SleepOps, TypeOK
<1>7. ASSUME sig[p] = "none", at[p] > 12
      PROVE  ~k3'
  BY <1>1, <1>3, <1>4, <1>7 DEF MoverWork, Drive, RelayOps, SleepOps, TypeOK
<1>8. ASSUME at[p] = 14
      PROVE  posFile' = "down"
  BY <1>3, <1>8 DEF MoverWork, RelayOps, SleepOps
<1> QED
  BY <1>1, <1>2, <1>5, <1>6, <1>7, <1>8

\* Every calm step keeps a movement as far as its place in the list says.
LEMMA DoneNext ==
  ASSUME TypeOK, LockInv, DirInv, PlaceInv, MotorInv, BrakeInv, DoneInv,
         Calm \/ UNCHANGED vars
  PROVE  DoneInv'
<1> USE DEF movers
<1>0. ball \in {"top", "bottom", "between", "rising", "falling"}
  BY DEF TypeOK
<1>1. CASE UNCHANGED vars
  BY <1>1, DoneKept DEF vars, relays, files
<1>2. ASSUME NEW c \in Callers,
             \/ RunStop(c) \/ \E d \in Moves : StartMove(c, d)
             \/ TryLock(c) \/ WritePid(c) \/ ExitStart(c)
             \/ ReadPid(c) \/ AwaitMover(c) \/ RemovePid(c)
      PROVE  DoneInv'
  <2>1. UNCHANGED movers /\ UNCHANGED relays /\ posFile' = posFile
    BY <1>2 DEF RunStop, StartMove, TryLock, WritePid, ExitStart, ReadPid, AwaitMover,
                RemovePid, files
  <2> QED
    BY <2>1, DoneKept DEF relays
<1>3. ASSUME NEW c \in Callers, Fork(c)
      PROVE  DoneInv'
  <2>1. PICK p \in Pids : ~Live(p) /\ prog' = [prog EXCEPT ![p] = dir[c]]
    BY <1>3 DEF Fork
  <2>2. at' = at /\ sig' = sig /\ at[p] = 1 /\ UNCHANGED relays /\ posFile' = posFile
    BY <1>3, <2>1 DEF Fork, PlaceInv, files
  <2> QED
    BY <2>1, <2>2, DoneKept DEF relays, TypeOK
<1>4. ASSUME NEW c \in Callers, SignalMover(c)
      PROVE  DoneInv'
  <2>1. \A p \in Pids : \/ /\ prog'[p] = prog[p] /\ at'[p] = at[p]
                           /\ sig'[p] = "none" => sig[p] = "none"
                           /\ sig'[p] # "due" => sig[p] # "due"
                        \/ prog'[p] = "none"
    BY <1>4 DEF SignalMover, Terminate, Reap
  <2>2. UNCHANGED relays /\ posFile' = posFile
    BY <1>4 DEF SignalMover, files
  <2> QED
    BY <2>1, <2>2, DoneKept DEF relays, Moves
<1>5. ASSUME NEW c \in Callers, CutMotor(c) \/ ForgetPosition(c)
      PROVE  DoneInv'
  <2>1. \A p \in Pids : ~Moving(p)
    BY <1>5 DEF CutMotor, ForgetPosition, BrakeInv, Told
  <2>2. k3' = k3 /\ (ball \in {"top", "bottom"} => ball' = ball)
    BY <1>5, CutsKeep DEF CutMotor, ForgetPosition, relays
  <2>3. UNCHANGED movers
    BY <1>5 DEF CutMotor, ForgetPosition
  <2> QED
    BY <2>1, <2>2, <2>3, DoneKept
<1>6. ASSUME NEW p \in Pids,
             \/ MoverSetsTraps(p) \/ MoverDrives(p) \/ SleepReturns(p)
             \/ WritePosition(p) \/ KillSleep(p) \/ RemoveOwnPid(p)
      PROVE  DoneInv'
  <2>1. MayGoOn(p) /\ Op(p) # "Exit" /\ Advance(p) /\ MoverWork(p)
    BY <1>6, MoverWorks
  <2>2. \A q \in Pids : prog'[q] \in Moves => q = p /\ prog[p] = prog'[p]
    BY <2>1, OneAtATime DEF Advance, MayGoOn, Live, Moves
  <2>3. prog[p] \in Moves => prog'[p] = prog[p]
    BY <2>1 DEF Advance
  <2>4. prog[p] = "raise" =>
          /\ at'[p] \in 6..9 /\ sig'[p] = "none" => ball' \in {"rising", "top"}
          /\ at'[p] > 9 /\ sig'[p] # "due" => ball' = "top"
          /\ at'[p] > 12 /\ sig'[p] # "due" => k3'
          /\ at'[p] = 14 /\ sig'[p] = "none" => posFile' = "up"
    BY <2>1, RaiseAdvances
  <2>5. prog[p] = "lower" =>
          /\ at'[p] \in 8..10 /\ sig'[p] = "none" => ball' \in {"falling", "bottom"}
          /\ at'[p] > 10 /\ sig'[p] # "due" => ball' = "bottom"
          /\ at'[p] > 13 /\ sig'[p] # "due" => ~k3'
          /\ at'[p] = 15 /\ sig'[p] = "none" => posFile' = "down"
    BY <2>1, LowerAdvances
  <2> QED
    BY <2>2, <2>4, <2>5 DEF DoneInv, Moves
<1>7. ASSUME NEW p \in Pids, SleepForks(p) \/ SleepRecorded(p) \/ OrphanEnds(p)
      PROVE  DoneInv'
  <2>1. /\ prog' = prog /\ at' = at /\ UNCHANGED relays /\ posFile' = posFile
        /\ \A q \in Pids : /\ sig'[q] = "none" => sig[q] = "none"
                           /\ sig'[q] # "due" => sig[q] # "due"
    BY <1>7 DEF SleepForks, SleepRecorded, OrphanEnds, files, TypeOK
  <2> QED
    BY <2>1, DoneKept DEF relays
<1>8. ASSUME NEW p \in Pids, MoverExits(p) \/ Preempt(p)
      PROVE  DoneInv'
  <2>1. \A q \in Pids : \/ prog'[q] = prog[q] /\ at'[q] = at[q] /\ sig'[q] = sig[q]
                        \/ prog'[q] \notin Moves
    BY <1>8 DEF MoverExits, MoverLeaves, Preempt, Reap, TypeOK, Moves
  <2>2. UNCHANGED relays /\ posFile' = posFile
    BY <1>8 DEF MoverExits, MoverLeaves, Preempt, files
  <2> QED
    BY <2>1, <2>2, DoneKept DEF relays
<1>9. CASE Reboot
  BY <1>9 DEF Reboot, DoneInv
<1> QED
  BY <1>1, <1>2, <1>3, <1>4, <1>5, <1>6, <1>7, <1>8, <1>9, CalmCases

\* The work of a mover keeps a true position true, and makes none up.
LEMMA WorkKeepsPosition ==
  ASSUME TypeOK, LockInv, PlaceInv, DoneInv, PosInv, NEW p \in Pids,
         MayGoOn(p), Op(p) # "Exit", Advance(p), MoverWork(p), pc' = pc
  PROVE  PosInv'
<1> USE DEF TypeOK
<1>1. CASE \E c \in Callers : pc[c] \in Braking
  BY <1>1 DEF PosInv
<1>2. ASSUME NEW q \in Pids, Moving(q)
      PROVE  PosInv'
  <2>1. q = p
    BY <1>2, OneAtATime DEF MayGoOn
  <2>2. Moving(p)'
    BY <1>2, <2>1 DEF Advance, Moving
  <2> QED
    BY <2>2 DEF PosInv
<1>3. ASSUME ~\E q \in Pids : Moving(q), Truthful,
             posFile = "unknown" \/ prog[p] = "preempt" \/ sig[p] = "due"
      PROVE  PosInv'
  <2>1. \A q \in Pids : Live(q)' => q = p
    BY OneAtATime DEF Advance, MayGoOn, Live
  <2>2. prog[p] \in {"raise", "lower", "preempt"} /\ at[p] \in 1..Len(Commands(prog[p]))
    BY DEF PlaceInv, MayGoOn, Live, Moves
  <2>3. CASE prog[p] = "preempt"
    <3>1. at[p] \in 1..5
      BY <2>2, <2>3, Lengths
    <3>2. Op(p) \notin {"K1on", "K2on", "K3on", "K3off", "WritePos"} \cup SleepOps
      BY <2>3, <3>1, PreemptOps, PreemptEnds
    <3>3. posFile' = posFile /\ k3' = k3 /\ (ball \in {"top", "bottom"} => ball' = ball)
      BY <3>2, CutsKeep DEF MoverWork, RelayOps
    <3>4. Truthful' /\ prog'[p] = "preempt"
      BY <1>3, <2>3, <3>3 DEF Truthful, Advance
    <3> QED
      BY <2>1, <3>4 DEF PosInv
  <2>4. CASE prog[p] \in Moves
    <3>1. sig[p] = "pending" /\ posFile = "unknown"
      BY <1>3, <2>4 DEF Moving, MayGoOn, Moves
    <3>2. sig'[p] = "due"
      BY <3>1 DEF Advance
    <3>3. CASE Op(p) = "WritePos"
      <4>1. k3' = k3 /\ ball' = ball
            /\ posFile' = IF prog[p] = "raise" THEN "up" ELSE "down"
        BY <3>3 DEF MoverWork, RelayOps, SleepOps
      <4>2. CASE prog[p] = "raise"
        <5>1. at[p] \in 1..14 BY <2>2, <4>2, Lengths
        <5>2. at[p] = 13 BY <3>3, <4>2, <5>1, RaiseEnds
        <5>3. ball = "top" /\ k3
          BY <3>1, <4>2, <5>2 DEF DoneInv
        <5> QED
          BY <2>1, <3>2, <4>1, <4>2, <5>3 DEF PosInv, Truthful
      <4>3. CASE prog[p] = "lower"
        <5>1. at[p] \in 1..15 BY <2>2, <4>3, Lengths
        <5>2. at[p] = 14 BY <3>3, <4>3, <5>1, LowerEnds
        <5>3. ball = "bottom" /\ ~k3
          BY <3>1, <4>3, <5>2 DEF DoneInv
        <5> QED
          BY <2>1, <3>2, <4>1, <4>3, <5>3 DEF PosInv, Truthful
      <4> QED
        BY <2>4, <4>2, <4>3 DEF Moves
    <3>4. CASE Op(p) # "WritePos"
      <4>1. posFile' = "unknown"
        BY <3>1, <3>4 DEF MoverWork
      <4> QED
        BY <4>1 DEF PosInv, Truthful
    <3> QED
      BY <3>3, <3>4
  <2> QED
    BY <2>2, <2>3, <2>4 DEF Moves
<1> QED
  BY <1>1, <1>2, <1>3 DEF PosInv, MayGoOn

\* Every calm step keeps the position true, or to be forgotten or replaced.
LEMMA PosNext ==
  ASSUME OneCaller, TypeOK, LockInv, DirInv, PlaceInv, DoneInv, PosInv,
         Calm \/ UNCHANGED vars
  PROVE  PosInv'
<1> USE DEF TypeOK, callers, movers
<1>1. ASSUME UNCHANGED <<relays, posFile, prog, sig>>,
             \A c \in Callers : pc[c] \in Braking => pc'[c] \in Braking
      PROVE  PosInv'
  BY <1>1 DEF PosInv, Truthful, Moving, Live, relays
<1>2. CASE UNCHANGED vars
  BY <1>1, <1>2 DEF vars, files
<1>3. ASSUME NEW c \in Callers,
             \/ \E d \in Moves : StartMove(c, d)
             \/ TryLock(c) \/ WritePid(c) \/ ExitStart(c)
      PROVE  PosInv'
  <2>1. UNCHANGED <<relays, posFile, prog, sig>>
    BY <1>3 DEF StartMove, TryLock, WritePid, ExitStart, files
  <2>2. \A d \in Callers : pc[d] \notin Braking
    BY <1>3 DEF StartMove, TryLock, WritePid, ExitStart, Braking, Told, OneCaller
  <2> QED
    BY <1>1, <2>1, <2>2
<1>4. ASSUME NEW c \in Callers,
             \/ RunStop(c) \/ ReadPid(c) \/ SignalMover(c) \/ AwaitMover(c)
             \/ RemovePid(c) \/ CutMotor(c)
      PROVE  PosInv'
  <2>1. pc'[c] \in Braking
    BY <1>4 DEF RunStop, ReadPid, SignalMover, AwaitMover, RemovePid, CutMotor, Braking, Told
  <2> QED
    BY <2>1 DEF PosInv
<1>5. ASSUME NEW c \in Callers, ForgetPosition(c)
      PROVE  PosInv'
  BY <1>5 DEF ForgetPosition, PosInv, Truthful
<1>6. ASSUME NEW c \in Callers, Fork(c)
      PROVE  PosInv'
  <2>1. PICK p \in Pids : ~Live(p) /\ prog' = [prog EXCEPT ![p] = dir[c]]
    BY <1>6 DEF Fork
  <2>2. dir[c] \in Moves /\ sig'[p] = "none"
    BY <1>6, <2>1 DEF Fork, DirInv, PlaceInv
  <2>3. Moving(p)'
    BY <2>1, <2>2 DEF Moving
  <2> QED
    BY <2>3 DEF PosInv
<1>7. ASSUME NEW p \in Pids,
             \/ MoverSetsTraps(p) \/ MoverDrives(p) \/ SleepReturns(p)
             \/ WritePosition(p) \/ KillSleep(p) \/ RemoveOwnPid(p)
      PROVE  PosInv'
  BY <1>7, MoverWorks, WorkKeepsPosition
<1>8. ASSUME NEW p \in Pids, SleepForks(p) \/ SleepRecorded(p)
      PROVE  PosInv'
  <2>1. /\ UNCHANGED <<relays, posFile, prog, pc>>
        /\ \A q \in Pids : /\ sig[q] = "none" => sig'[q] = "none"
                           /\ sig[q] = "due" => sig'[q] = "due"
    BY <1>8 DEF SleepForks, SleepRecorded, files
  <2> QED
    BY <2>1 DEF PosInv, Truthful, Moving, Live, relays
<1>9. ASSUME NEW p \in Pids, OrphanEnds(p)
      PROVE  PosInv'
  BY <1>1, <1>9 DEF OrphanEnds, files
<1>10. ASSUME NEW p \in Pids, Preempt(p)
       PROVE  PosInv'
  <2>1. /\ UNCHANGED <<relays, posFile, pc>> /\ sig[p] # "none"
        /\ prog'[p] = "preempt"
        /\ \A q \in Pids : q # p => prog'[q] = prog[q] /\ sig'[q] = sig[q]
    BY <1>10 DEF Preempt, files
  <2> QED
    BY <2>1 DEF PosInv, Truthful, Moving, Live, relays
<1>11. ASSUME NEW p \in Pids, MoverExits(p)
       PROVE  PosInv'
  <2>1. /\ UNCHANGED <<relays, posFile, pc>> /\ MayGoOn(p) /\ Op(p) = "Exit"
        /\ prog'[p] = "none"
        /\ \A q \in Pids : q # p => prog'[q] = prog[q]
    BY <1>11 DEF MoverExits, MoverLeaves, Reap, files
  <2>2. \A q \in Pids : ~Live(q)'
    BY <2>1, OneAtATime DEF MayGoOn, Live
  <2>3. CASE \E c \in Callers : pc[c] \in Braking
    BY <2>1, <2>3 DEF PosInv
  <2>4. CASE Truthful
    BY <2>1, <2>2, <2>4 DEF PosInv, Truthful, relays
  <2>5. ASSUME NEW q \in Pids, Moving(q)
        PROVE  Truthful
    <3>1. q = p /\ prog[p] \in Moves /\ sig[p] = "none"
      BY <2>1, <2>5, OneAtATime DEF MayGoOn, Moving
    <3>2. at[p] \in 1..Len(Commands(prog[p]))
      BY <2>1 DEF PlaceInv, MayGoOn
    <3>3. CASE prog[p] = "raise"
      <4>1. at[p] \in 1..14 BY <3>2, <3>3, Lengths
      <4>2. at[p] = 14 BY <2>1, <3>3, <4>1, RaiseOps
      <4> QED BY <3>1, <3>3, <4>2 DEF DoneInv, Truthful
    <3>4. CASE prog[p] = "lower"
      <4>1. at[p] \in 1..15 BY <3>2, <3>4, Lengths
      <4>2. at[p] = 15 BY <2>1, <3>4, <4>1, LowerOps
      <4> QED BY <3>1, <3>4, <4>2 DEF DoneInv, Truthful
    <3> QED
      BY <3>1, <3>3, <3>4 DEF Moves
  <2> QED
    BY <2>3, <2>4, <2>5 DEF PosInv
<1>12. CASE Reboot
  BY <1>12 DEF Reboot, PosInv, Truthful, Live
<1> QED
  BY <1>2, <1>3, <1>4, <1>5, <1>6, <1>7, <1>8, <1>9, <1>10, <1>11, <1>12, CalmCases

\* The ball may be anywhere at the start; no position is recorded.
LEMMA PosInit == Init => DoneInv /\ PosInv
<1> SUFFICES ASSUME Init PROVE DoneInv /\ PosInv
  OBVIOUS
<1>1. posFile = "unknown" /\ \A p \in Pids : prog[p] = "none"
  BY DEF Init
<1> QED
  BY <1>1 DEF DoneInv, PosInv, Truthful, Live

\* With nothing under way the position that `disco-relay position` reports is
\* where the ball is, and the spots are as documented: for one caller, whatever
\* it interrupts, and also if power fails.  (It is false for a mover that dies
\* by a signal, a service stop or a failing relay write.)
THEOREM PositionIsTruthful ==
  OneCaller /\ Faults \subseteq {"reboot"} /\ Spec => []PositionTruthful
<1> SUFFICES ASSUME OneCaller, Faults \subseteq {"reboot"}
             PROVE  Spec => []PositionTruthful
  OBVIOUS
<1>1. Init => DoneInv /\ PosInv
  BY PosInit
<1>2. Next => Calm
  BY DEF Next, Calm, Fault, KillMover, GpioFailsMover, GpioFailsBrake, WritePidFails,
         WritePositionFails, ServiceStop
<1>3. IInv /\ BrakeInv /\ DoneInv /\ PosInv /\ [Next]_vars => (DoneInv /\ PosInv)'
  BY <1>2, DoneNext, PosNext DEF IInv
<1>4. PosInv => PositionTruthful
  BY DEF PosInv, PositionTruthful, Quiet, Braking, Told, Moving, Moves, Live
<1>5. "full" \notin Faults
  OBVIOUS
<1> QED
  BY <1>1, <1>3, <1>4, <1>5, Inductive, BrakesInOrder, PTL DEF Spec

-----------------------------------------------------------------------------
(* Any number of callers, no fault but a reboot: power has an owner.       *)

\* Until when a raise is still to cut a terminal.
LEMMA RaiseRest ==
  ASSUME NEW i \in 1..14
  PROVE  /\ "K1off" \in Rest("raise", i) <=> i <= 10
         /\ "K2off" \in Rest("raise", i) <=> i <= 11
<1>1. Commands("raise") = perform_raise /\ Len(Commands("raise")) = 14
  BY Lengths DEF Commands
<1>2. \A j \in 1..14 : /\ perform_raise[j] = "K1off" <=> j \in {2, 10}
                       /\ perform_raise[j] = "K2off" <=> j \in {3, 6, 11}
  BY DEF perform_raise
<1>3. Rest("raise", i) = {perform_raise[j] : j \in i..14}
  BY <1>1 DEF Rest
<1>4. 10 \in 1..14 /\ 11 \in 1..14 /\ \A j \in i..14 : j \in 1..14 /\ j >= i
  OBVIOUS
<1> QED
  BY <1>2, <1>3, <1>4

\* The same of a lower.
LEMMA LowerRest ==
  ASSUME NEW i \in 1..15
  PROVE  /\ "K1off" \in Rest("lower", i) <=> i <= 11
         /\ "K2off" \in Rest("lower", i) <=> i <= 12
<1>1. Commands("lower") = perform_lower /\ Len(Commands("lower")) = 15
  BY Lengths DEF Commands
<1>2. \A j \in 1..15 : /\ perform_lower[j] = "K1off" <=> j \in {3, 6, 11}
                       /\ perform_lower[j] = "K2off" <=> j \in {4, 12}
  BY DEF perform_lower
<1>3. Rest("lower", i) = {perform_lower[j] : j \in i..15}
  BY <1>1 DEF Rest
<1>4. 11 \in 1..15 /\ 12 \in 1..15 /\ \A j \in i..15 : j \in 1..15 /\ j >= i
  OBVIOUS
<1> QED
  BY <1>2, <1>3, <1>4

\* The same of the trap.
LEMMA PreemptRest ==
  ASSUME NEW i \in 1..5
  PROVE  /\ "K1off" \in Rest("preempt", i) <=> i <= 2
         /\ "K2off" \in Rest("preempt", i) <=> i <= 3
<1>1. Commands("preempt") = preempt_movement /\ Len(Commands("preempt")) = 5
  BY Lengths DEF Commands
<1>2. /\ preempt_movement[1] = "KillSleep" /\ preempt_movement[2] = "K1off"
      /\ preempt_movement[3] = "K2off" /\ preempt_movement[4] = "RmPid"
      /\ preempt_movement[5] = "Exit"
  BY DEF preempt_movement
<1>3. Rest("preempt", i) = {preempt_movement[j] : j \in i..5}
  BY <1>1 DEF Rest
<1>4. \A j \in 1..5 : j = 1 \/ j = 2 \/ j = 3 \/ j = 4 \/ j = 5
  OBVIOUS
<1>5. \A j \in i..5 : j \in 1..5 /\ j >= i
  OBVIOUS
<1>6. (2 \in i..5 <=> i <= 2) /\ (3 \in i..5 <=> i <= 3)
  OBVIOUS
<1>7. ASSUME NEW j \in i..5
      PROVE  /\ preempt_movement[j] = "K1off" <=> j = 2
             /\ preempt_movement[j] = "K2off" <=> j = 3
  BY <1>2, <1>4, <1>5
<1> QED
  BY <1>2, <1>3, <1>6, <1>7

\* A mover goes on to cut what it has switched on, and what it was to cut.
LEMMA AdvanceOwns ==
  ASSUME TypeOK, PlaceInv, NEW p \in Pids, MayGoOn(p), Op(p) # "Exit", Advance(p),
         NEW op \in {"K1off", "K2off"}, Op(p) # op,
         \/ op \in Rest(prog[p], at[p])
         \/ op = "K1off" /\ Op(p) = "K1on"
         \/ op = "K2off" /\ Op(p) = "K2on"
  PROVE  Live(p)' /\ op \in Rest(prog[p], at[p])'
<1>1. /\ prog[p] \in {"raise", "lower", "preempt"}
      /\ at[p] \in 1..Len(Commands(prog[p]))
  BY DEF PlaceInv, MayGoOn, Live, TypeOK, Moves
<1>2. prog'[p] = prog[p] /\ at'[p] = at[p] + 1
  BY DEF Advance, TypeOK
<1>3. CASE prog[p] = "raise"
  <2>1. at[p] \in 1..14 BY <1>1, <1>3, Lengths
  <2>2. at[p] # 14 BY <1>3, <2>1, RaiseOps
  <2>3. at[p] + 1 \in 1..14 BY <2>1, <2>2
  <2> QED
    BY <1>2, <1>3, <2>1, <2>3, RaiseOps, RaiseRest DEF Live
<1>4. CASE prog[p] = "lower"
  <2>1. at[p] \in 1..15 BY <1>1, <1>4, Lengths
  <2>2. at[p] # 15 BY <1>4, <2>1, LowerOps
  <2>3. at[p] + 1 \in 1..15 BY <2>1, <2>2
  <2> QED
    BY <1>2, <1>4, <2>1, <2>3, LowerOps, LowerRest DEF Live
<1>5. CASE prog[p] = "preempt"
  <2>1. at[p] \in 1..5 BY <1>1, <1>5, Lengths
  <2>2. at[p] # 5 BY <1>5, <2>1, PreemptOps
  <2>3. at[p] + 1 \in 1..5 BY <2>1, <2>2
  <2>4. Op(p) = preempt_movement[at[p]] BY <1>5 DEF Op, Commands
  <2>5. Op(p) = "K1off" <=> at[p] = 2 BY <2>1, <2>4 DEF preempt_movement
  <2>6. Op(p) = "K2off" <=> at[p] = 3 BY <2>1, <2>4 DEF preempt_movement
  <2> QED
    BY <1>2, <1>5, <2>1, <2>3, <2>5, <2>6, PreemptOps, PreemptRest DEF Live
<1> QED
  BY <1>1, <1>3, <1>4, <1>5
\* A mover at its exit has nothing left to cut.
LEMMA ExitOwnsNothing ==
  ASSUME TypeOK, PlaceInv, NEW p \in Pids, Live(p), Op(p) = "Exit",
         NEW op \in {"K1off", "K2off"}
  PROVE  op \notin Rest(prog[p], at[p])
<1>1. /\ prog[p] \in {"raise", "lower", "preempt"}
      /\ at[p] \in 1..Len(Commands(prog[p]))
  BY DEF PlaceInv, Live, TypeOK, Moves
<1>2. CASE prog[p] = "raise"
  <2>1. at[p] \in 1..14 BY <1>1, <1>2, Lengths
  <2>2. at[p] = 14 BY <1>2, <2>1, RaiseOps
  <2> QED BY <1>2, <2>2, RaiseRest
<1>3. CASE prog[p] = "lower"
  <2>1. at[p] \in 1..15 BY <1>1, <1>3, Lengths
  <2>2. at[p] = 15 BY <1>3, <2>1, LowerOps
  <2> QED BY <1>3, <2>2, LowerRest
<1>4. CASE prog[p] = "preempt"
  <2>1. at[p] \in 1..5 BY <1>1, <1>4, Lengths
  <2>2. at[p] = 5 BY <1>4, <2>1, PreemptOps
  <2> QED BY <1>4, <2>2, PreemptRest
<1> QED
  BY <1>1, <1>2, <1>3, <1>4

\* PowerIsOwned by the command that cuts: whether its terminal is on, and the
\* places of a brake that is still to run it.
Powered(op) == IF op = "K1off" THEN k1 ELSE k2
Waits(op)   == IF op = "K1off" THEN {"await", "rmpid", "cut1"}
                               ELSE {"await", "rmpid", "cut1", "cut2"}

\* A calm step never leaves a terminal on with nobody to cut it.
LEMMA PowerNext ==
  ASSUME TypeOK, PlaceInv, PowerIsOwned,
         \/ Calm
         \/ \E c \in Callers : WritePidFails(c)
         \/ \E p \in Pids : WritePositionFails(p)
         \/ UNCHANGED vars
  PROVE  PowerIsOwned'
<1> SUFFICES ASSUME NEW op \in {"K1off", "K2off"}, Powered(op)'
             PROVE  Owned(op, Waits(op))'
  BY DEF PowerIsOwned, Powered, Waits
<1> USE DEF TypeOK, callers, movers
<1>0. Powered(op) => Owned(op, Waits(op))
  BY DEF PowerIsOwned, Powered, Waits
<1>1. ASSUME Powered(op),
             \A c \in Callers : pc[c] \in Waits(op) => pc'[c] \in Waits(op),
             \A p \in Pids : Live(p) /\ op \in Rest(prog[p], at[p]) =>
               prog'[p] = prog[p] /\ at'[p] = at[p]
      PROVE  Owned(op, Waits(op))'
  <2>1. CASE \E c \in Callers : pc[c] \in Waits(op)
    BY <1>1, <2>1 DEF Owned, Waits
  <2>2. ASSUME NEW p \in Pids, Live(p) /\ op \in Rest(prog[p], at[p])
        PROVE  Owned(op, Waits(op))'
    <3>1. Live(p)' /\ op \in Rest(prog'[p], at'[p])
      BY <1>1, <2>2 DEF Live
    <3> QED
      BY <3>1 DEF Owned, Rest
  <2> QED
    BY <1>0, <1>1, <2>1, <2>2 DEF Owned
<1>2. CASE UNCHANGED vars
  BY <1>1, <1>2 DEF vars, relays, Powered
<1>3. ASSUME NEW c \in Callers,
             \/ RunStop(c) \/ \E d \in Moves : StartMove(c, d)
             \/ TryLock(c) \/ WritePid(c) \/ WritePidFails(c) \/ ExitStart(c)
             \/ ReadPid(c) \/ AwaitMover(c) \/ RemovePid(c) \/ ForgetPosition(c)
      PROVE  Owned(op, Waits(op))'
  <2>1. UNCHANGED <<relays, prog, at>>
    BY <1>3 DEF RunStop, StartMove, TryLock, WritePid, WritePidFails, ExitStart, ReadPid,
                AwaitMover, RemovePid, ForgetPosition
  <2>2. \A d \in Callers : pc[d] \in Waits(op) => pc'[d] \in Waits(op)
    BY <1>3 DEF RunStop, StartMove, TryLock, WritePid, WritePidFails, ExitStart, ReadPid,
                AwaitMover, RemovePid, ForgetPosition, Return, Waits
  <2> QED
    BY <1>1, <2>1, <2>2 DEF relays, Powered
<1>4. ASSUME NEW c \in Callers, Fork(c)
      PROVE  Owned(op, Waits(op))'
  <2>1. \A p \in Pids : Live(p) => prog'[p] = prog[p] /\ at'[p] = at[p]
    BY <1>4 DEF Fork
  <2>2. \A d \in Callers : pc[d] \in Waits(op) => pc'[d] \in Waits(op)
    BY <1>4 DEF Fork, Waits
  <2> QED
    BY <1>1, <1>4, <2>1, <2>2 DEF Fork, relays, Powered
<1>5. ASSUME NEW c \in Callers, SignalMover(c)
      PROVE  Owned(op, Waits(op))'
  <2>1. pc'[c] \in Waits(op)
    BY <1>5 DEF SignalMover, Waits
  <2> QED
    BY <2>1 DEF Owned, Waits
<1>6. ASSUME NEW c \in Callers, CutMotor(c)
      PROVE  Owned(op, Waits(op))'
  <2>1. CASE pc[c] = "cut1" /\ op = "K2off"
    <3>1. pc'[c] \in Waits(op)
      BY <1>6, <2>1 DEF CutMotor, Waits
    <3> QED
      BY <3>1 DEF Owned, Waits
  <2>2. CASE pc[c] = "cut2" /\ op = "K1off"
    <3>1. Powered(op) /\ \A d \in Callers : pc[d] \in Waits(op) => pc'[d] \in Waits(op)
      BY <1>6, <2>2 DEF CutMotor, Drive, Waits, Powered
    <3> QED
      BY <1>1, <1>6, <3>1 DEF CutMotor
  <2> QED
    BY <1>6, <2>1, <2>2 DEF CutMotor, Drive, Powered
<1>7. ASSUME NEW p \in Pids,
             \/ MoverSetsTraps(p) \/ MoverDrives(p) \/ SleepReturns(p)
             \/ WritePosition(p) \/ WritePositionFails(p) \/ KillSleep(p) \/ RemoveOwnPid(p)
      PROVE  Owned(op, Waits(op))'
  <2>1. MayGoOn(p) /\ Op(p) # "Exit" /\ Advance(p) /\ UNCHANGED callers
    <3>1. CASE WritePositionFails(p)
      BY <3>1 DEF WritePositionFails
    <3> QED
      BY <1>7, <3>1, MoverWorks
  <2>2. /\ Op(p) # op
        /\ Powered(op) \/ (op = "K1off" /\ Op(p) = "K1on") \/ (op = "K2off" /\ Op(p) = "K2on")
    <3>1. CASE MoverDrives(p)
      BY <3>1 DEF MoverDrives, Drive, Powered
    <3>2. CASE ~MoverDrives(p)
      <4>1. k1' = k1 /\ k2' = k2 /\ Op(p) \notin {"K1off", "K2off"}
        BY <1>7, <3>2 DEF MoverSetsTraps, SleepReturns, WritePosition, WritePositionFails,
                          KillSleep, RemoveOwnPid, SleepOps, relays
      <4> QED
        BY <4>1 DEF Powered
    <3> QED
      BY <3>1, <3>2
  <2>3. ASSUME \/ op \in Rest(prog[p], at[p])
               \/ op = "K1off" /\ Op(p) = "K1on"
               \/ op = "K2off" /\ Op(p) = "K2on"
        PROVE  Owned(op, Waits(op))'
    <3>1. Live(p)' /\ op \in Rest(prog[p], at[p])'
      BY <2>1, <2>2, <2>3, AdvanceOwns
    <3> QED
      BY <3>1 DEF Owned
  <2>4. ASSUME Powered(op), op \notin Rest(prog[p], at[p])
        PROVE  Owned(op, Waits(op))'
    <3>1. \A q \in Pids : q # p => prog'[q] = prog[q] /\ at'[q] = at[q]
      BY <2>1 DEF Advance
    <3> QED
      BY <1>1, <2>1, <2>4, <3>1
  <2> QED
    BY <2>2, <2>3, <2>4
<1>8. ASSUME NEW p \in Pids, SleepForks(p) \/ SleepRecorded(p) \/ OrphanEnds(p)
      PROVE  Owned(op, Waits(op))'
  BY <1>1, <1>8 DEF SleepForks, SleepRecorded, OrphanEnds, relays, Powered
<1>9. ASSUME NEW p \in Pids, MoverExits(p)
      PROVE  Owned(op, Waits(op))'
  <2>1. op \notin Rest(prog[p], at[p])
    BY <1>9, ExitOwnsNothing DEF MoverExits, MayGoOn
  <2>2. /\ UNCHANGED <<relays, callers>>
        /\ \A q \in Pids : q # p => prog'[q] = prog[q] /\ at'[q] = at[q]
    BY <1>9 DEF MoverExits, MoverLeaves, Reap
  <2> QED
    BY <1>1, <2>1, <2>2 DEF relays, Powered
<1>10. ASSUME NEW p \in Pids, Preempt(p)
       PROVE  Owned(op, Waits(op))'
  <2>1. prog'[p] = "preempt" /\ at'[p] = 1
    BY <1>10 DEF Preempt
  <2>2. op \in Rest("preempt", 1)
    BY PreemptRest
  <2>3. Live(p)' /\ op \in Rest(prog[p], at[p])'
    BY <2>1, <2>2 DEF Live, Rest
  <2> QED
    BY <2>3 DEF Owned
<1>11. CASE Reboot
  BY <1>11 DEF Reboot, Powered
<1> QED
  BY <1>2, <1>3, <1>4, <1>5, <1>6, <1>7, <1>8, <1>9, <1>10, <1>11, CalmCases

\* Whoever raises, lowers and brakes at once, also where one brake's TERM kills
\* the preempt_movement that answers another's: a terminal that is on has a
\* mover or a brake that will still cut it, whatever the tmpfs of /run takes.  It is
\* the safety half of MotorRests.  (It is false for a mover that is killed outright, a service stop
\* and a failing relay write.)
THEOREM PowerHasOwner == Faults \subseteq {"reboot", "full"} /\ Spec => []PowerIsOwned
<1> SUFFICES ASSUME Faults \subseteq {"reboot", "full"}
             PROVE  Spec => []PowerIsOwned
  OBVIOUS
<1>1. Init => PowerIsOwned
  BY DEF Init, PowerIsOwned
<1>2. Next => \/ Calm
              \/ \E c \in Callers : WritePidFails(c)
              \/ \E p \in Pids : WritePositionFails(p)
  BY DEF Next, Calm, Fault, KillMover, GpioFailsMover, GpioFailsBrake, ServiceStop
<1>3. IInv /\ PowerIsOwned /\ [Next]_vars => PowerIsOwned'
  BY <1>2, PowerNext DEF IInv
<1> QED
  BY <1>1, <1>3, Inductive, PTL DEF Spec
=============================================================================
