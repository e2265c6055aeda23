------------------------- MODULE DiscoControlsProofs -------------------------
(***************************************************************************)
(* The disco-ball controls over the relay command: a call gives no command *)
(* but what DiscoRelay's callers may give, so what is proved there holds   *)
(* of calls; and what the announcements "already up" and "already down"    *)
(* rest on.                                                                *)
(***************************************************************************)
EXTENDS DiscoControls, DiscoRelayProofs

-----------------------------------------------------------------------------
(* Calls only do what callers of the relay command may do.                 *)

\* Each step of a call or of a mover is a step of the relay script, one that is
\* no fault, or leaves the script's state alone.
LEMMA CallStepsAreCalm ==
  ASSUME [DNext]_allvars
  PROVE  Calm \/ UNCHANGED vars
<1>1. ASSUME NEW c \in Callers, Go(c)
      PROVE  Calm \/ UNCHANGED vars
  BY <1>1 DEF Go, AlreadyThere, Move, RelayCommand, Announce, ToMenu, Calm, Progress
<1>2. ASSUME NEW c \in Callers, Stop(c) \/ \E d \in Moves : ReadPosition(c, d)
      PROVE  Calm \/ UNCHANGED vars
  BY <1>2 DEF Stop, ReadPosition, Calm
<1>3. ASSUME NEW p \in Pids, Mover(p)
      PROVE  Calm
  BY <1>3 DEF Mover, Calm, Progress
<1>4. CASE UNCHANGED allvars
  BY <1>4 DEF allvars
<1> QED
  BY <1>1, <1>2, <1>3, <1>4 DEF DNext

\* The dialplan over the relay script is a behaviour of the relay script: the
\* calls of 911, 811 and 11 are among its callers' commands.
THEOREM ControlsImplementRelay == DSpec => Spec
<1>1. DInit => Init
  BY DEF DInit
<1>2. [DNext]_allvars => [Next]_vars
  BY CallStepsAreCalm DEF Calm, Next, Fault
<1> QED
  BY <1>1, <1>2, PTL DEF DSpec, Spec

\* So calls keep the strengthened invariant of the relay script.
LEMMA CallsKeepRelay == DSpec => []IInv
BY ControlsImplementRelay, Inductive, PTL

-----------------------------------------------------------------------------
(* Type correctness, for any number of calls.                              *)

\* What the dialplan's names for waits and prompts can be.
LEMMA NamesTyped ==
  ASSUME NEW a \in {"raise", "lower", "stop"}
  PROVE  /\ System(a) \in {"system-raise", "system-lower", "system-stop"}
         /\ Already(There(a)) \in {"already-up", "already-down"}
BY DEF System, Already, There

\* Each step of the dialplan keeps the types of the channel variables.
LEMMA DialplanTyped ==
  ASSUME DTypeOK, TypeOK', [DNext]_allvars
  PROVE  DTypeOK'
<1> USE DEF DTypeOK, Moves
<1>1. ASSUME NEW c \in Callers, NEW d \in Moves, ReadPosition(c, d)
      PROVE  DTypeOK'
  <2>1. posFile \in {"unknown", "up", "down"} /\ Quiet \in BOOLEAN
    BY DEF TypeOK, Quiet
  <2> QED
    BY <1>1, <2>1 DEF ReadPosition
<1>2. ASSUME NEW c \in Callers, NEW d \in Moves, AlreadyThere(c, d)
      PROVE  DTypeOK'
  BY <1>2, NamesTyped DEF AlreadyThere
<1>3. ASSUME NEW c \in Callers, NEW d \in Moves, Move(c, d)
      PROVE  DTypeOK'
  BY <1>3, NamesTyped DEF Move
<1>4. ASSUME NEW c \in Callers, Stop(c)
      PROVE  DTypeOK'
  BY <1>4, NamesTyped DEF Stop
<1>5. ASSUME NEW c \in Callers, RelayCommand(c)
      PROVE  DTypeOK'
  <2>1. Reply(c) \in {"none", "busy", "started"}
    BY DEF Reply
  <2>2. disco_move' \in [Callers -> {"none", "busy", "started"}]
    BY <1>5, <2>1 DEF RelayCommand
  <2> QED
    BY <1>5, <2>2 DEF RelayCommand
<1>6. ASSUME NEW c \in Callers, NEW a \in Moves \cup {"stop"}, Announce(c, a)
      PROVE  DTypeOK'
  BY <1>6 DEF Announce
<1>7. ASSUME NEW c \in Callers, ToMenu(c)
      PROVE  DTypeOK'
  BY <1>7 DEF ToMenu
<1>8. ASSUME UNCHANGED dialplan
      PROVE  DTypeOK'
  BY <1>8 DEF dialplan
<1> QED
  BY <1>1, <1>2, <1>3, <1>4, <1>5, <1>6, <1>7, <1>8 DEF DNext, Go, Mover, allvars

\* Every variable of a call and of the script keeps to the values it can have,
\* for any number of calls.
THEOREM ControlsTyped == DSpec => []DTypeOK
<1>1. DInit /\ TypeOK => DTypeOK
  BY DEF DInit, DTypeOK
<1>2. TypeOK' /\ DTypeOK /\ [DNext]_allvars => DTypeOK'
  BY DialplanTyped
<1>3. IInv => TypeOK
  BY DEF IInv
<1> QED
  BY <1>1, <1>2, <1>3, CallsKeepRelay, PTL DEF DSpec

-----------------------------------------------------------------------------
(* Power, for any number of calls.                                         *)

\* Whatever any number of calls dial, a terminal that is on has a mover or a
\* brake that will still cut it.  (Calls cause no fault, so nothing is assumed
\* of Faults.)
THEOREM CallsPowerHasOwner == DSpec => []PowerIsOwned
<1>1. DInit => PowerIsOwned
  BY DEF DInit, Init, PowerIsOwned
<1>2. IInv /\ PowerIsOwned /\ [DNext]_allvars => PowerIsOwned'
  BY CallStepsAreCalm, PowerNext DEF IInv
<1> QED
  BY <1>1, <1>2, CallsKeepRelay, PTL DEF DSpec

-----------------------------------------------------------------------------
(* One call at a time.                                                     *)

\* A call that is alone keeps the pid file and its brakes in order.
LEMMA CallsBrakeInOrder == OneCaller /\ DSpec => [](PidInv /\ BrakeInv)
<1> SUFFICES ASSUME OneCaller PROVE DSpec => [](PidInv /\ BrakeInv)
  OBVIOUS
<1>1. DInit => PidInv /\ BrakeInv
  BY BrakeInit DEF DInit
<1>2. IInv /\ PidInv /\ BrakeInv /\ [DNext]_allvars => (PidInv /\ BrakeInv)'
  <2>1. Calm => PidWritten /\ Next
    BY DEF Calm, PidWritten, Next, Fault
  <2> QED
    BY <2>1, CallStepsAreCalm, PidNext, BrakeNext DEF IInv
<1> QED
  BY <1>1, <1>2, CallsKeepRelay, PTL DEF DSpec

\* 11 stops whatever moves: the brake of a call that is alone preempts.  (Calls
\* cause no fault, so nothing is assumed of Faults.)
THEOREM CallsBrakePreempts == OneCaller /\ DSpec => []BrakePreempts
<1>1. BrakeInv /\ TypeOK => BrakePreempts
  BY DEF BrakeInv, BrakePreempts, Moving, Live, Told, TypeOK
<1>2. IInv => TypeOK
  BY DEF IInv
<1> QED
  BY <1>1, <1>2, CallsBrakeInOrder, CallsKeepRelay, PTL

\* The position a call reads when nothing is under way is where the ball is.
\* (Calls cause no fault, so nothing is assumed of Faults.)
THEOREM CallsPositionIsTruthful == OneCaller /\ DSpec => []PositionTruthful
<1> SUFFICES ASSUME OneCaller PROVE DSpec => []PositionTruthful
  OBVIOUS
<1>1. DInit => DoneInv /\ PosInv
  BY PosInit DEF DInit
<1>2. IInv /\ BrakeInv /\ DoneInv /\ PosInv /\ [DNext]_allvars => (DoneInv /\ PosInv)'
  BY CallStepsAreCalm, DoneNext, PosNext DEF IInv
<1>3. PosInv => PositionTruthful
  BY DEF PosInv, PositionTruthful, Quiet, Braking, Told, Moving, Moves, Live
<1> QED
  BY <1>1, <1>2, <1>3, CallsKeepRelay, CallsBrakeInOrder, PTL DEF DSpec

\* Nothing moves between reading the position and the command of a call that is
\* alone.
LEMMA StillNext ==
  ASSUME OneCaller, DTypeOK, PlaceInv, StillInv, [DNext]_allvars
  PROVE  StillInv'
<1> SUFFICES ASSUME NEW d \in Callers, exten'[d] \in Moves, still'[d]
             PROVE  Quiet' /\ disco_pos'[d] = posFile'
  BY DEF StillInv
<1> USE DEF DTypeOK, TypeOK, Moves
<1>1. ASSUME NEW c \in Callers, NEW e \in Moves, ReadPosition(c, e)
      PROVE  Quiet' /\ disco_pos'[d] = posFile'
  <2>1. c = d /\ Quiet /\ disco_pos'[d] = posFile
    BY <1>1 DEF OneCaller, ReadPosition
  <2> QED
    BY <1>1, <2>1 DEF ReadPosition, Quiet, Live, vars, callers, movers, files
<1>2. ASSUME NEW c \in Callers, NEW e \in Moves, AlreadyThere(c, e)
      PROVE  FALSE
  BY <1>2 DEF AlreadyThere, OneCaller
<1>3. ASSUME NEW c \in Callers, NEW e \in Moves, Move(c, e)
      PROVE  FALSE
  BY <1>3 DEF Move, System, OneCaller
<1>4. ASSUME NEW c \in Callers, Stop(c)
      PROVE  FALSE
  BY <1>4 DEF Stop, System, OneCaller
<1>5. ASSUME NEW c \in Callers, RelayCommand(c)
      PROVE  FALSE
  <2>1. pc[c] # "idle"
    BY <1>5 DEF RelayCommand, CallerStep, start_move, run_stop, TryLock, Fork, WritePid,
                ExitStart, ReadPid, SignalMover, AwaitMover, RemovePid, CutMotor,
                ForgetPosition
  <2>2. Quiet
    BY <1>5 DEF RelayCommand, StillInv
  <2> QED
    BY <2>1, <2>2 DEF Quiet
<1>6. ASSUME NEW c \in Callers, ToMenu(c) \/ \E a \in Moves \cup {"stop"} : Announce(c, a)
      PROVE  FALSE
  BY <1>6 DEF ToMenu, Announce, OneCaller
<1>7. ASSUME NEW p \in Pids, Mover(p)
      PROVE  Quiet' /\ disco_pos'[d] = posFile'
  <2>1. Quiet /\ disco_pos[d] = posFile /\ disco_pos'[d] = disco_pos[d]
    BY <1>7 DEF Mover, StillInv, dialplan
  <2>2. ~Live(p) /\ sig[p] = "none"
    BY <2>1 DEF Quiet, PlaceInv
  <2>3. OrphanEnds(p)
    BY <1>7, <2>2 DEF Mover, MoverStep, MoverSetsTraps, MoverDrives, SleepForks, SleepRecorded,
                      SleepReturns, WritePosition, KillSleep, RemoveOwnPid, MoverExits,
                      Preempt, MayGoOn
  <2> QED
    BY <2>1, <2>3 DEF OrphanEnds, Quiet, Live, callers, files
<1>8. CASE UNCHANGED allvars
  BY <1>8 DEF allvars, dialplan, StillInv, Quiet, Live, vars, callers, movers, files
<1> QED
  BY <1>1, <1>2, <1>3, <1>4, <1>5, <1>6, <1>7, <1>8 DEF DNext, Go

\* A single call that is told "already up" or "already down", and read the
\* position with nothing moving, is told the truth: the ball is there.
THEOREM AlreadyThereIsThere == OneCaller /\ DSpec => AlreadyThereAtRest
<1> SUFFICES ASSUME OneCaller PROVE DSpec => AlreadyThereAtRest
  OBVIOUS
<1>1. DInit => StillInv
  BY DEF DInit, StillInv, Moves
<1>2. IInv /\ DTypeOK /\ StillInv /\ [DNext]_allvars => StillInv'
  BY StillNext DEF IInv
<1>3. ASSUME PositionTruthful, StillInv, NEW c \in Callers, NEW d \in Moves,
             AlreadyThere(c, d), still[c]
      PROVE  ball = End(d)
  <2>1. Quiet /\ posFile = There(d)
    BY <1>3 DEF AlreadyThere, StillInv
  <2> QED
    BY <1>3, <2>1 DEF PositionTruthful, Truthful, There, End, Moves
<1>4. PositionTruthful /\ StillInv /\ [DNext]_allvars =>
        [\A c \in Callers, d \in Moves :
           AlreadyThere(c, d) /\ still[c] => ball = End(d)]_allvars
  BY <1>3
<1> QED
  BY <1>1, <1>2, <1>4, CallsKeepRelay, ControlsTyped, CallsPositionIsTruthful, PTL
     DEF DSpec, AlreadyThereAtRest
=============================================================================
