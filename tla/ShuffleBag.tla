------------------------------ MODULE ShuffleBag ------------------------------
(***************************************************************************)
(* `bella-messages pick` for one family of prompts, run by concurrent      *)
(* calls: the variants are listed, the bag is read, dealt from and written *)
(* back under a flock, and the variant dealt is remembered in a second     *)
(* file.  Both files live on a tmpfs that others may fill, and flock, grep *)
(* and shuf are programs that may fail to start.                           *)
(*                                                                         *)
(* The bag is a set.  Its lines are in an order that shuf drew and nobody  *)
(* reads but by dealing the first: drawing it when it is dealt is the same.*)
(* What a call read is forgotten as soon as nothing reads it again.        *)
(***************************************************************************)
EXTENDS FiniteSets

CONSTANTS
  Calls,
  Variants,  \* all files <prefix>-N.wav there ever are
  Nothing,   \* no call, no variant
  Faults     \* what may happen to PICK_STATE_DIR, "full" or "unusable", and to
             \* the programs that pick_from_bag runs, "bare"

ASSUME NothingIsNothing == Nothing \notin Calls \cup Variants
ASSUME FaultsAreFaults == Faults \subseteq {"full", "unusable", "bare"}

VARIABLES
  files,    \* the variants in PROMPTS_DIR
  host,     \* what a pick finds: "ok", PICK_STATE_DIR "full" or "unusable", or
            \* "bare" of programs: neither flock nor grep nor shuf can be run
  lockfile, \* whether <prefix>.lock exists
  bag,      \* <prefix>.bag
  last,     \* <prefix>.last, or Nothing if it is missing or empty
  flock,    \* who holds <prefix>.lock
  pc,       \* per call: next step of its pick
  listing,  \* per call: the variants it listed
  choice,   \* per call: the first line of what remains
  rest,     \* per call: the other lines
  told,     \* per call: what its pick printed last
  dealt,    \* auxiliary: the variant dealt last, whatever the files say
  forgot    \* auxiliary: a full tmpfs or a restart has lost the entry in last

command == <<pc, listing, choice, rest, told>>
aux     == <<dealt, forgot>>
vars    == <<files, host, lockfile, bag, last, flock, command, aux>>

\* An operator called Without, Ignoring or Instead is a deliberately wrong
\* variant of the next one: see DiscoRelay.

Stages == {"idle", "open", "flock", "deal", "bag", "last", "print"}

-----------------------------------------------------------------------------
Init ==
  /\ files \in SUBSET Variants
  /\ host = "ok" /\ lockfile = FALSE
  /\ bag = {} /\ last = Nothing /\ flock = Nothing
  /\ dealt = Nothing /\ forgot = FALSE
  /\ pc = [c \in Calls |-> "idle"]
  /\ listing = [c \in Calls |-> {}]
  /\ choice = [c \in Calls |-> Nothing]
  /\ rest = [c \in Calls |-> {}]
  /\ told = [c \in Calls |-> Nothing]

Goto(c, stage) == pc' = [pc EXCEPT ![c] = stage]

\* cmd_pick: the variants there are now.
List(c) ==
  /\ pc[c] = "idle"
  /\ listing' = [listing EXCEPT ![c] = files]
  /\ told' = [told EXCEPT ![c] = Nothing]
  /\ Goto(c, "open")
  /\ UNCHANGED <<files, host, lockfile, bag, last, flock, choice, rest, aux>>

\* The command ends and has printed v.
Printed(c, v) ==
  /\ told' = [told EXCEPT ![c] = v]
  /\ listing' = [listing EXCEPT ![c] = {}]
  /\ choice' = [choice EXCEPT ![c] = Nothing]
  /\ Goto(c, "idle")
  /\ UNCHANGED <<files, host, lockfile, bag, last, rest, aux>>

\* cmd_pick: no variant, or only one, and the bag is not looked at.
cmd_pick_None(c) == pc[c] = "open" /\ listing[c] = {} /\ Printed(c, Nothing) /\ UNCHANGED flock
cmd_pick_Only(c) ==
  pc[c] = "open" /\ (\E v \in listing[c] : listing[c] = {v} /\ Printed(c, v)) /\ UNCHANGED flock

Several(c) == \E v, w \in listing[c] : v # w

\* pick_from_bag fails before it has the lock: the directory cannot be used, a
\* full one has no room for the lock file, or flock cannot be run; or, with the
\* lock, it can run neither grep nor shuf.  So cmd_pick draws at random.
RandomDraw(c) ==
  /\ \/ /\ pc[c] = "open" /\ Several(c)
        /\ host = "unusable" \/ (host = "full" /\ ~lockfile) \/ host = "bare"
        /\ UNCHANGED flock
     \/ pc[c] = "deal" /\ host = "bare" /\ flock' = Nothing
  /\ \E v \in listing[c] : Printed(c, v)

\* pick_from_bag: mkdir, the test -w and the opening of the lock file.
OpenLock(c) ==
  /\ pc[c] = "open" /\ Several(c) /\ host # "unusable"
  /\ lockfile' = TRUE
  /\ Goto(c, "flock")
  /\ UNCHANGED <<files, host, bag, last, flock, listing, choice, rest, told, aux>>

Flock_Without(c) ==
  /\ pc[c] = "flock"
  /\ flock' = c /\ Goto(c, "deal")
  /\ UNCHANGED <<files, host, lockfile, bag, last, listing, choice, rest, told, aux>>

Flock(c) ==
  /\ pc[c] = "flock" /\ flock = Nothing
  /\ flock' = c /\ Goto(c, "deal")
  /\ UNCHANGED <<files, host, lockfile, bag, last, listing, choice, rest, told, aux>>

\* Lines of the bag whose file is gone are dropped.
Remaining(c) == bag \cap listing[c]

\* First lines of the new bag: not the variant dealt last, which changes places
\* with the rest when shuf put it first.
FirstOfNew_WithoutNudge(c) == listing[c]
FirstOfNew(c) == listing[c] \ {last}

Deal(c) ==
  /\ pc[c] = "deal" /\ host # "bare"
  /\ LET all   == IF Remaining(c) = {} THEN listing[c] ELSE Remaining(c)
         first == IF Remaining(c) = {} THEN FirstOfNew(c) ELSE Remaining(c)
     IN \E v \in first :
          /\ choice' = [choice EXCEPT ![c] = v]
          /\ rest' = [rest EXCEPT ![c] = all \ {v}]
  /\ Goto(c, "bag")
  /\ UNCHANGED <<files, host, lockfile, bag, last, flock, listing, told, aux>>

\* The redirection empties the file before printf finds that nothing fits.
WriteBag_InsteadAll(c) ==
  /\ pc[c] = "bag"
  /\ bag' = IF host = "full" THEN {} ELSE rest[c] \cup {choice[c]}
  /\ dealt' = choice[c] /\ forgot' = FALSE
  /\ rest' = [rest EXCEPT ![c] = {}] /\ listing' = [listing EXCEPT ![c] = {}]
  /\ Goto(c, "last")
  /\ UNCHANGED <<files, host, lockfile, last, flock, choice, told>>

WriteBag(c) ==
  /\ pc[c] = "bag"
  /\ bag' = IF host = "full" THEN {} ELSE rest[c]
  /\ dealt' = choice[c] /\ forgot' = FALSE
  /\ rest' = [rest EXCEPT ![c] = {}] /\ listing' = [listing EXCEPT ![c] = {}]
  /\ Goto(c, "last")
  /\ UNCHANGED <<files, host, lockfile, last, flock, choice, told>>

WriteLast(c) ==
  /\ pc[c] = "last"
  /\ last' = IF host = "full" THEN Nothing ELSE choice[c]
  /\ forgot' = (host = "full")
  /\ Goto(c, "print")
  /\ UNCHANGED <<files, host, lockfile, bag, flock, listing, choice, rest, told, dealt>>

PrintChoice_WithoutUnlocking(c) ==
  pc[c] = "print" /\ Printed(c, choice[c]) /\ UNCHANGED flock

PrintChoice(c) == pc[c] = "print" /\ Printed(c, choice[c]) /\ flock' = Nothing

-----------------------------------------------------------------------------
(* The environment                                                         *)

\* The installer adds and removes prompts, one by one, while calls are up.
Install ==
  /\ \E v \in Variants : files' = IF v \in files THEN files \ {v} ELSE files \cup {v}
  /\ UNCHANGED <<host, lockfile, bag, last, flock, command, aux>>

\* Others fill the tmpfs, and free it; programs cannot be started, for want of
\* them or of memory, and can again.  One fault at a time: a fault may come and
\* go between any two steps.
FailOrMend ==
  /\ \/ host = "ok" /\ host' \in Faults \ {"unusable"}
     \/ host \in {"full", "bare"} /\ host' = "ok"
  /\ UNCHANGED <<files, lockfile, bag, last, flock, command, aux>>

\* FreeSWITCH is stopped with all that it runs, its RuntimeDirectory is wiped,
\* and it starts anew, with a directory that it can use or not.
Restart ==
  /\ host' \in {"ok"} \cup (Faults \cap {"unusable"})
  /\ lockfile' = FALSE /\ bag' = {} /\ last' = Nothing /\ flock' = Nothing
  /\ forgot' = TRUE
  /\ pc' = [c \in Calls |-> "idle"]
  /\ listing' = [c \in Calls |-> {}]
  /\ choice' = [c \in Calls |-> Nothing]
  /\ rest' = [c \in Calls |-> {}]
  /\ told' = [c \in Calls |-> Nothing]
  /\ UNCHANGED <<files, dealt>>

-----------------------------------------------------------------------------
pick_from_bag(c) ==
  OpenLock(c) \/ Flock(c) \/ Deal(c) \/ WriteBag(c) \/ WriteLast(c) \/ PrintChoice(c)

cmd_pick(c) ==
  cmd_pick_None(c) \/ cmd_pick_Only(c) \/ RandomDraw(c) \/ pick_from_bag(c)

Next ==
  \/ Install \/ FailOrMend \/ Restart
  \/ \E c \in Calls : List(c) \/ cmd_pick(c)

Spec == Init /\ [][Next]_vars

\* A command runs to its end, and the kernel wakes every waiter of a flock.
FairSpec == Spec /\ \A c \in Calls : WF_vars(cmd_pick(c)) /\ SF_vars(Flock(c))

-----------------------------------------------------------------------------
(* Properties                                                              *)

TypeOK ==
  /\ files \subseteq Variants
  /\ host \in {"ok", "full", "unusable", "bare"} /\ lockfile \in BOOLEAN
  /\ bag \subseteq Variants
  /\ last \in Variants \cup {Nothing}
  /\ flock \in Calls \cup {Nothing}
  /\ pc \in [Calls -> Stages]
  /\ listing \in [Calls -> SUBSET Variants]
  /\ choice \in [Calls -> Variants \cup {Nothing}]
  /\ rest \in [Calls -> SUBSET Variants]
  /\ told \in [Calls -> Variants \cup {Nothing}]
  /\ dealt \in Variants \cup {Nothing} /\ forgot \in BOOLEAN

\* Only the holder of the lock is past it.
LockInv == \A c \in Calls : pc[c] \in {"deal", "bag", "last", "print"} => flock = c

\* Nothing was printed yet; and what the holder is about to write back is still
\* one variant less of what remains in the bag, or of a new bag.
DealInv ==
  \A c \in Calls :
    /\ pc[c] \in {"last", "print"} => choice[c] \in Variants
    /\ pc[c] \in {"flock", "deal", "bag", "last", "print"} => host # "unusable"
    /\ pc[c] \in {"flock", "deal"} => Several(c)
    /\ pc[c] = "bag" =>
         \/ choice[c] \in Remaining(c) /\ rest[c] = Remaining(c) \ {choice[c]}
         \/ /\ Remaining(c) = {}
            /\ choice[c] \in FirstOfNew(c) /\ rest[c] = listing[c] \ {choice[c]}

\* What the code remembers of the variant dealt last, or is about to write down.
LastDealt == IF flock # Nothing /\ pc[flock] = "last" THEN choice[flock] ELSE last

\* That variant is not in the bag, and it is remembered until a fault loses it.
LastInv == dealt \notin bag /\ (LastDealt = dealt \/ (forgot /\ LastDealt = Nothing))

IInv == TypeOK /\ LockInv /\ DealInv /\ LastInv

\* Picks of concurrent calls take turns: each variant is dealt once before any
\* is dealt again, as long as the tmpfs is neither full nor unusable, while
\* variants come and go.
Told == [c \in Calls |-> IF pc[c] \in {"last", "print"} THEN choice[c] ELSE told[c]]

Abstract   == INSTANCE Dealer WITH left <- bag, last <- LastDealt, told <- Told
DealerSpec == Abstract!Spec

\* The bag deals no variant twice in a row, to one call or to two, but as the
\* first of a new bag after a full tmpfs or a restart of FreeSWITCH has lost the
\* entry in last.  Only what the bag deals is meant: the one variant of a family
\* and a random draw are neither dealt nor remembered.
DistinctEntries ==
  [][\A c \in Calls : pc[c] = "bag" /\ pc'[c] = "last" /\ choice[c] = dealt =>
       forgot /\ Remaining(c) = {}]_vars

\* A pick that has begun ends, whatever fails.
PickEnds == \A c \in Calls : pc[c] = "open" ~> pc[c] = "idle"
=============================================================================
