--------------------------- MODULE DiscoControls ---------------------------
(***************************************************************************)
(* conf/dialplan/default/50_disco_controls.xml over scripts/disco-relay:   *)
(* a call reads the tracked position, is transferred, and only then tests  *)
(* what it read and runs the relay command.  The command's reply goes into *)
(* a channel variable and a prompt is played; every path ends in the menu. *)
(***************************************************************************)
EXTENDS DiscoRelay

VARIABLES
  exten,      \* per call: the extension it is in, with what it waits for
  disco_pos,  \* per call: the position it read
  disco_move, \* per call: what the relay command printed
  said,       \* per call: the prompt being played
  \* Ghost.
  still       \* per call: nothing was moving when it read the position

dialplan == <<exten, disco_pos, disco_move, said, still>>
allvars  == <<vars, dialplan>>

DInit ==
  /\ Init
  /\ exten = [c \in Callers |-> "menu"]
  /\ disco_pos = [c \in Callers |-> "unknown"]
  /\ disco_move = [c \in Callers |-> "none"]
  /\ said = [c \in Callers |-> "none"]
  /\ still = [c \in Callers |-> FALSE]

\* The position that makes a movement needless, by direction.
There_InsteadOpposite(d) == IF d = "raise" THEN "down" ELSE "up"
There(d) == IF d = "raise" THEN "up" ELSE "down"

\* The prompts that say so, and the waits for the relay command.
Already(pos) == IF pos = "up" THEN "already-up" ELSE "already-down"
System(a) == CASE a = "raise" -> "system-raise"
               [] a = "lower" -> "system-lower"
               [] a = "stop"  -> "system-stop"

\* disco-raise, disco-lower: answer, read the position, transfer.
ReadPosition(c, d) ==
  /\ exten[c] = "menu"
  /\ exten' = [exten EXCEPT ![c] = d]
  /\ disco_pos' = [disco_pos EXCEPT ![c] = posFile]
  /\ still' = [still EXCEPT ![c] = Quiet]
  /\ UNCHANGED <<vars, disco_move, said>>

\* disco-raise-go, disco-lower-go, action: the read position says the ball is
\* there already.
AlreadyThere(c, d) ==
  /\ exten[c] = d /\ disco_pos[c] = There(d)
  /\ said' = [said EXCEPT ![c] = Already(There(d))]
  /\ exten' = [exten EXCEPT ![c] = "prompt"]
  /\ UNCHANGED <<vars, disco_pos, disco_move, still>>

\* disco-raise-go, disco-lower-go, anti-action: run the relay command.
Move(c, d) ==
  /\ exten[c] = d /\ disco_pos[c] # There(d)
  /\ StartMove(c, d)
  /\ exten' = [exten EXCEPT ![c] = System(d)]
  /\ UNCHANGED <<disco_pos, disco_move, said, still>>

\* disco-stop.
Stop(c) ==
  /\ exten[c] = "menu"
  /\ RunStop(c)
  /\ exten' = [exten EXCEPT ![c] = System("stop")]
  /\ UNCHANGED <<disco_pos, disco_move, said, still>>

\* The relay command goes on.  What start_move prints is known as it returns.
Reply(c) == CASE pc[c] = "lock" -> "busy"
              [] pc[c] = "exit" -> "started"
              [] OTHER -> "none"

RelayCommand(c) ==
  /\ CallerStep(c)
  /\ disco_move' = [disco_move EXCEPT ![c] = IF pc'[c] = "idle" THEN Reply(c) ELSE @]
  /\ UNCHANGED <<exten, disco_pos, said, still>>

\* system() has returned: play the prompt, whatever the reply was.
Announce_InsteadIfStarted(c, a) ==
  /\ exten[c] = System(a) /\ pc[c] = "idle"
  /\ a \in Moves => disco_move[c] = "started"
  /\ said' = [said EXCEPT ![c] = a]
  /\ exten' = [exten EXCEPT ![c] = "prompt"]
  /\ UNCHANGED <<vars, disco_pos, disco_move, still>>

Announce(c, a) ==
  /\ exten[c] = System(a) /\ pc[c] = "idle"
  /\ said' = [said EXCEPT ![c] = a]
  /\ exten' = [exten EXCEPT ![c] = "prompt"]
  /\ UNCHANGED <<vars, disco_pos, disco_move, still>>

\* The prompt is over: transfer to 700.
ToMenu(c) ==
  /\ exten[c] = "prompt"
  /\ exten' = [exten EXCEPT ![c] = "menu"]
  /\ said' = [said EXCEPT ![c] = "none"]
  /\ UNCHANGED <<vars, disco_pos, disco_move, still>>

Mover(p) == (MoverStep(p) \/ OrphanEnds(p)) /\ UNCHANGED dialplan

Go(c) ==
  \/ \E d \in Moves : AlreadyThere(c, d) \/ Move(c, d)
  \/ RelayCommand(c)
  \/ \E a \in Moves \cup {"stop"} : Announce(c, a)
  \/ ToMenu(c)

DNext ==
  \/ \E c \in Callers : Go(c) \/ Stop(c) \/ \E d \in Moves : ReadPosition(c, d)
  \/ \E p \in Pids : Mover(p)

DSpec == DInit /\ [][DNext]_allvars

\* FreeSWITCH works on a call that has left the menu, and shells run.
DFairSpec ==
  /\ DSpec
  /\ \A c \in Callers : WF_allvars(Go(c))
  /\ \A p \in Pids : WF_allvars(Mover(p))

-----------------------------------------------------------------------------
DTypeOK ==
  /\ TypeOK
  /\ exten \in [Callers -> Moves \cup {"menu", "prompt", "system-raise",
                                       "system-lower", "system-stop"}]
  /\ disco_pos \in [Callers -> {"unknown", "up", "down"}]
  /\ disco_move \in [Callers -> {"none", "busy", "started"}]
  /\ said \in [Callers -> {"none", "already-up", "already-down"} \cup Moves \cup {"stop"}]
  /\ still \in [Callers -> BOOLEAN]

\* Whatever it dialled, a call comes back to the menu.
CallReturns == \A c \in Callers : exten[c] # "menu" ~> exten[c] = "menu"

\* Where a movement in direction d ends.
End(d) == IF d = "raise" THEN "top" ELSE "bottom"

\* A caller told that the ball is there already, with nothing moving when the
\* position was read, is told the truth.
AlreadyThereAtRest ==
  [][\A c \in Callers, d \in Moves :
       AlreadyThere(c, d) /\ still[c] => ball = End(d)]_allvars

\* Why, for one call: nothing moves, and the position stays, until it gives its
\* command.
StillInv ==
  \A c \in Callers : exten[c] \in Moves /\ still[c] => Quiet /\ disco_pos[c] = posFile

\* "unless it is already up": a caller is told so only if it is.
AlreadyThereIsTrue ==
  [][\A c \in Callers, d \in Moves : AlreadyThere(c, d) => ball = End(d)]_allvars

\* A movement is announced only when it has been started.
AnnouncedIsStarted ==
  \A c \in Callers : said[c] \in Moves => disco_move[c] = "started"
=============================================================================
