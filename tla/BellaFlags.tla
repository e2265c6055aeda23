------------------------------ MODULE BellaFlags ------------------------------
(***************************************************************************)
(* scripts/bella-flags: the flag `disco`, one small file on a tmpfs, which *)
(* calls read with `get` and flip with `toggle`, a read and a write under  *)
(* a flock.  `set` is called by nobody.                                    *)
(***************************************************************************)
CONSTANTS
  Calls,
  Nothing,  \* no call, no value
  Faults    \* FLAGS_DIR may be "full" or "unwritable", a "helper" may not run

ASSUME NothingIsNothing == Nothing \notin Calls \cup {"on", "off"}
ASSUME FaultsAreFaults == Faults \subseteq {"full", "unwritable", "helper"}

VARIABLES
  flag,   \* the file: "missing", or what it holds, which may be "empty"
  disk,   \* of FLAGS_DIR: "ok", "full" or "unwritable"
  flock,  \* who holds the flag's lock
  pc,     \* per call: next step of its toggle
  new     \* per call: what its toggle is about to write, and then to print

flags == <<flag, disk, flock, pc, new>>

Values == {"on", "off"}
Stages == {"idle", "lock", "read", "write", "print"}

Goto(c, stage) == pc' = [pc EXCEPT ![c] = stage]

FlagsInit ==
  /\ flag = "missing" /\ flock = Nothing
  /\ disk \in {"ok"} \cup (Faults \cap {"unwritable"})
  /\ pc = [c \in Calls |-> "idle"]
  /\ new = [c \in Calls |-> Nothing]

-----------------------------------------------------------------------------
\* cmd_get, as the menu calls it: a missing flag counts as "on".
Get == IF flag = "missing" THEN "on" ELSE flag

\* An operator called Without, Ignoring, Instead, OffByOne or Always is a
\* deliberately wrong variant of the next one: see DiscoRelay.

StartToggle(c) ==
  /\ pc[c] = "idle" /\ Goto(c, "lock")
  /\ UNCHANGED <<flag, disk, flock, new>>

with_lock_Without(c) ==
  /\ pc[c] = "lock" /\ Goto(c, "read")
  /\ UNCHANGED <<flag, disk, flock, new>>

\* No directory or no lock file: the command goes on without a lock.
with_lock(c) ==
  /\ pc[c] = "lock" /\ Goto(c, "read")
  /\ \/ disk = "unwritable" /\ UNCHANGED flock
     \/ disk # "unwritable" /\ flock = Nothing /\ flock' = c
  /\ UNCHANGED <<flag, disk, new>>

\* cmd_toggle: what the flag becomes.
Flipped == IF Get = "on" THEN "off" ELSE "on"

ReadFlag(c) ==
  /\ pc[c] = "read" /\ Goto(c, "write")
  /\ new' = [new EXCEPT ![c] = Flipped]
  /\ UNCHANGED <<flag, disk, flock>>

\* On a full tmpfs mktemp succeeds and printf does not, but `|| true` has
\* switched errexit off, and mv installs the empty file.
write_flag(c) ==
  /\ pc[c] = "write" /\ Goto(c, "print")
  /\ flag' = CASE disk = "ok" -> new[c]
               [] disk = "full" -> "empty"
               [] disk = "unwritable" -> flag
  /\ UNCHANGED <<disk, flock, new>>

\* What the dialplan gets from system(); the lock goes with the process.
PrintNew(c) ==
  /\ pc[c] = "print" /\ Goto(c, "idle")
  /\ new' = [new EXCEPT ![c] = Nothing]
  /\ flock' = IF flock = c THEN Nothing ELSE flock
  /\ UNCHANGED <<flag, disk>>

\* Others fill the tmpfs, and free it.
FillOrFree ==
  /\ "full" \in Faults
  /\ \/ disk = "ok" /\ disk' = "full"
     \/ disk = "full" /\ disk' = "ok"
  /\ UNCHANGED <<flag, flock, pc, new>>

ToggleStep(c) == with_lock(c) \/ ReadFlag(c) \/ write_flag(c)

-----------------------------------------------------------------------------
(* Properties                                                              *)

FlagsTypeOK ==
  /\ flag \in Values \cup {"missing", "empty"}
  /\ disk \in {"ok", "full", "unwritable"}
  /\ flock \in Calls \cup {Nothing}
  /\ pc \in [Calls -> Stages]
  /\ new \in [Calls -> Values \cup {Nothing}]

\* Only the holder of the lock is past it, unless nothing can be locked; then
\* nothing was ever written.
LockInv ==
  /\ disk # "unwritable" =>
       \A c \in Calls : pc[c] \in {"read", "write", "print"} => flock = c
  /\ disk = "unwritable" => flag = "missing" /\ flock = Nothing

\* What a toggle is about to write is still the opposite of what is there.
NewInv ==
  \A c \in Calls :
    /\ pc[c] = "write" => new[c] = Flipped
    /\ pc[c] \in {"write", "print"} <=> new[c] # Nothing

FlagsInv == FlagsTypeOK /\ LockInv /\ NewInv

\* Concurrent toggles are flips of one switch, one after the other.
State == CASE flag = "missing" -> "on" [] flag = "empty" -> "blank" [] OTHER -> flag
Told  == [c \in Calls |-> IF pc[c] = "print" THEN new[c] ELSE Nothing]

TheSwitch  == INSTANCE Switch WITH state <- State, told <- Told
SwitchSpec == TheSwitch!Spec
=============================================================================
