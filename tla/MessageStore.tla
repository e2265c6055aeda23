---------------------------- MODULE MessageStore ----------------------------
(***************************************************************************)
(* scripts/bella-messages: the store of recorded messages, as used by      *)
(* option 3 (record, then `rotate`), by the codes 000 and 003 (`archive`)  *)
(* and by the drawer of option 2 (`delete-all`).  There is no lock: every  *)
(* listing, test and move of one call may fall between two of another.     *)
(*                                                                         *)
(* A message is its place in recording order, which is the order of the    *)
(* file names.  Disk space is counted in messages.                         *)
(***************************************************************************)
EXTENDS Naturals, FiniteSets

CONSTANTS
  Callers,        \* concurrent calls
  MaxMessages,    \* bound: messages ever recorded
  PLAYBACK_LIMIT, \* the newest messages, those the menu plays
  Room,           \* messages that fit before free space is low
  Block           \* names that `sort` hands over in one write

ASSUME BoundsAreNumbers ==
  /\ MaxMessages \in Nat /\ PLAYBACK_LIMIT \in Nat
  /\ Room \in Nat /\ Block \in Nat

\* The switch admits a limited number of calls (max-sessions).
ASSUME CallersAreFinite == IsFiniteSet(Callers)

VARIABLES
  live,       \* messages in MESSAGES_DIR
  archived,   \* messages in ARCHIVE_DIR
  archiveDir, \* ARCHIVE_DIR exists
  latest,     \* the message recorded last
  pc,         \* per call: next command
  todo,       \* per call: files the command is about
  \* Ghosts.
  erased,     \* messages removed by rotate
  discarded,  \* recordings removed for being too short
  cleared     \* per call: others took live messages away since it last
              \* looked at the disk, and not because space was low

store  == <<live, archived, archiveDir, latest, erased, discarded>>
calls  == <<pc, todo, cleared>>
vars   == <<store, calls>>

\* An operator called OffByOne, Strictly, Without or FromZero is a deliberately
\* wrong variant of the next one: see DiscoRelay.

Messages == 1..MaxMessages
Rotating == {"testArchive", "listArchive", "rmArchive",
             "testLive", "count", "listLive", "rmLive"}

disk_low_OffByOne == Cardinality(live \cup archived) >= Room
disk_low == Cardinality(live \cup archived) > Room

beyond_window_OffByOne == Cardinality(live) >= PLAYBACK_LIMIT
beyond_window == Cardinality(live) > PLAYBACK_LIMIT

\* The first line of a sorted listing, if there is one.
First_Strictly(S) == {m \in S : \A n \in S : m < n}
First(S) == {m \in S : \A n \in S : m <= n}

\* The i-th message, newest first, if there are so many.
resolve_all(i) == {m \in live : Cardinality({n \in live : n >= m}) = i}

-----------------------------------------------------------------------------
\* The store is empty; ARCHIVE_DIR may be left over from an earlier day.
Init ==
  /\ live = {} /\ archived = {} /\ archiveDir \in BOOLEAN /\ latest = 0
  /\ erased = {} /\ discarded = {}
  /\ pc = [c \in Callers |-> "idle"]
  /\ todo = [c \in Callers |-> {}]
  /\ cleared = [c \in Callers |-> FALSE]

Goto(c, l) == pc' = [pc EXCEPT ![c] = l]

Return(c) == Goto(c, "idle") /\ todo' = [todo EXCEPT ![c] = {}]

\* Live messages S are taken away for another reason than space.
Clear(S) == cleared' = [c \in Callers |-> cleared[c] \/ S # {}]

-----------------------------------------------------------------------------
(* leave-message                                                           *)

\* File names grow with time.
NextName_FromZero == latest
NextName == latest + 1

\* The file is in the store as soon as the recording begins.
RecordBegins(c) ==
  /\ pc[c] = "idle" /\ latest < MaxMessages
  /\ latest' = latest + 1
  /\ live' = live \cup {NextName}
  /\ todo' = [todo EXCEPT ![c] = {NextName}]
  /\ Goto(c, "record")
  /\ UNCHANGED <<archived, archiveDir, erased, discarded, cleared>>

\* A recording under record_min_sec is removed, by its name.  A caller who has
\* hung up gets no rotate.
RecordEnds(c) ==
  /\ pc[c] = "record"
  /\ \/ UNCHANGED <<live, discarded, cleared>>
     \/ /\ live' = live \ todo[c]
        /\ discarded' = discarded \cup (todo[c] \cap live)
        /\ Clear(todo[c] \cap live)
  /\ todo' = [todo EXCEPT ![c] = {}]
  /\ Goto(c, "testArchive") \/ Goto(c, "idle")
  /\ UNCHANGED <<archived, archiveDir, latest, erased>>

-----------------------------------------------------------------------------
(* cmd_rotate: the archive first, then what is older than the window       *)

TestDisk(c, here, low, enough) ==
  /\ pc[c] = here
  /\ Goto(c, IF disk_low THEN low ELSE enough)
  /\ cleared' = [cleared EXCEPT ![c] = FALSE]
  /\ UNCHANGED <<store, todo>>

TestArchive(c) == TestDisk(c, "testArchive", "listArchive", "testLive")
TestLive(c)    == TestDisk(c, "testLive", "count", "idle")

ListArchive(c) ==
  /\ pc[c] = "listArchive" /\ archiveDir
  /\ todo' = [todo EXCEPT ![c] = First(archived)]
  /\ Goto(c, IF archived = {} THEN "testLive" ELSE "rmArchive")
  /\ UNCHANGED <<store, cleared>>

\* pipefail and set -e: the script ends when `find` has no directory to list,
\* or when `head` has its line and leaves before `sort` has written the rest.
ListFails(c) ==
  /\ \/ pc[c] = "listArchive" /\ (~archiveDir \/ Cardinality(archived) > Block)
     \/ pc[c] = "listLive" /\ Cardinality(live) > Block
  /\ Return(c)
  /\ UNCHANGED <<store, cleared>>

RmArchive(c) ==
  /\ pc[c] = "rmArchive"
  /\ archived' = archived \ todo[c]
  /\ erased' = erased \cup (todo[c] \cap archived)
  /\ todo' = [todo EXCEPT ![c] = {}]
  /\ Goto(c, "testArchive")
  /\ UNCHANGED <<live, archiveDir, latest, discarded, cleared>>

Count(c) ==
  /\ pc[c] = "count"
  /\ Goto(c, IF beyond_window THEN "listLive" ELSE "idle")
  /\ UNCHANGED <<store, todo, cleared>>

ListLive(c) ==
  /\ pc[c] = "listLive"
  /\ todo' = [todo EXCEPT ![c] = First(live)]
  /\ Goto(c, IF live = {} THEN "idle" ELSE "rmLive")
  /\ UNCHANGED <<store, cleared>>

RmLive(c) ==
  /\ pc[c] = "rmLive"
  /\ live' = live \ todo[c]
  /\ erased' = erased \cup (todo[c] \cap live)
  /\ todo' = [todo EXCEPT ![c] = {}]
  /\ Goto(c, "testLive")
  /\ UNCHANGED <<archived, archiveDir, latest, discarded, cleared>>

-----------------------------------------------------------------------------
(* cmd_archive and cmd_delete_all: a listing, then one move at a time      *)

MoveAside(c, S) ==
  /\ pc[c] = "idle" /\ S # {}
  /\ todo' = [todo EXCEPT ![c] = S]
  /\ archiveDir' = TRUE
  /\ Goto(c, "move")
  /\ UNCHANGED <<live, archived, latest, erased, discarded, cleared>>

Archive(c)      == MoveAside(c, live)
DeleteAll(c, i) == MoveAside(c, resolve_all(i))

\* mv fails, and is ignored, when the file is no longer in the store.
Moved_WithoutLooking(f) == {f}
Moved(f) == {f} \cap live

Move(c) ==
  /\ pc[c] = "move"
  /\ \E f \in First(todo[c]) :
       /\ live' = live \ {f}
       /\ archived' = archived \cup Moved(f)
       /\ Clear(Moved(f))
       /\ todo' = [todo EXCEPT ![c] = @ \ {f}]
       /\ Goto(c, IF todo[c] = {f} THEN "idle" ELSE "move")
  /\ UNCHANGED <<archiveDir, latest, erased, discarded>>

-----------------------------------------------------------------------------
cmd_rotate(c) ==
  \/ TestArchive(c) \/ ListArchive(c) \/ RmArchive(c) \/ ListFails(c)
  \/ TestLive(c) \/ Count(c) \/ ListLive(c) \/ RmLive(c)

Step(c) == RecordEnds(c) \/ cmd_rotate(c) \/ Move(c)

Next == \E c \in Callers :
  \/ RecordBegins(c) \/ Archive(c) \/ Step(c)
  \/ \E i \in Messages : DeleteAll(c, i)

Spec == Init /\ [][Next]_vars

\* A recording is cut after 60 s, and a script that has begun runs on.
FairSpec == Spec /\ \A c \in Callers : WF_vars(Step(c))

-----------------------------------------------------------------------------
(* Properties                                                              *)

TypeOK ==
  /\ live \subseteq Messages /\ archived \subseteq Messages
  /\ erased \subseteq Messages /\ discarded \subseteq Messages
  /\ archiveDir \in BOOLEAN /\ latest \in 0..MaxMessages
  /\ pc \in [Callers -> Rotating \cup {"idle", "record", "move"}]
  /\ todo \in [Callers -> SUBSET Messages]
  /\ cleared \in [Callers -> BOOLEAN]

\* Every message ever recorded is in one place and one only: live, archived,
\* erased by a rotate, or discarded for being too short.  Calls that move and
\* prune at the same time neither lose nor double nor revive one.
Conserved ==
  /\ live \cup archived \cup erased \cup discarded = 1..latest
  /\ live \cap archived = {} /\ live \cap erased = {} /\ live \cap discarded = {}
  /\ archived \cap erased = {} /\ archived \cap discarded = {}
  /\ erased \cap discarded = {}

\* Step of a rotate that removes a message from S.
Erases(c, S) == (RmArchive(c) \/ RmLive(c)) /\ todo[c] \cap S # {}

Newer(c) == {m \in live : \E f \in todo[c] : f < m}
Others   == Cardinality(Callers) - 1

\* A rotate never erases a message of the playable window, but for what the
\* other calls' own rotates erase, at most one each, after it has counted.
\* Messages cleared meanwhile by archive, delete-all or discard do not count.
SparesWindow ==
  [][\A c \in Callers : Erases(c, live) /\ ~cleared[c] =>
       Cardinality(Newer(c)) + Others >= PLAYBACK_LIMIT]_vars

\* "never touching the newest PLAYBACK_LIMIT": the same, to the letter.
SparesWholeWindow ==
  [][\A c \in Callers : Erases(c, live) /\ ~cleared[c] =>
       Cardinality(Newer(c)) >= PLAYBACK_LIMIT]_vars

\* Recordings are deleted only to make room: when a rotate erases a message the
\* disk is low, or has been until the other rotates erased one each.
ErasesForRoom ==
  [][\A c \in Callers : Erases(c, live \cup archived) /\ ~cleared[c] =>
       Cardinality(live \cup archived) + Others > Room]_vars

\* Why both hold.  A rotate has listed one file; in the archive it is not live
\* and never will be, among the live ones it is the oldest, since what has been
\* recorded meanwhile is newer.
ListedInv ==
  \A c \in Callers : pc[c] \in {"rmArchive", "rmLive"} =>
    /\ \A f, g \in todo[c] : f = g
    /\ todo[c] \subseteq 1..latest
    /\ pc[c] = "rmArchive" => todo[c] \cap live = {}
    /\ pc[c] = "rmLive" => \A f \in todo[c], m \in live : f <= m

\* Rotates that have seen the disk low, and those that have also seen a message
\* beyond the window, and may erase one without looking again.
Reclaiming == {c \in Callers : pc[c] \in Rotating \ {"testArchive", "testLive"}}
Pruning    == {c \in Callers : pc[c] \in {"listLive", "rmLive"}}

\* Each message that has gone since then was erased by a rotate that has to
\* look again before it erases another.
SpaceInv ==
  \A c \in Reclaiming : ~cleared[c] =>
    Cardinality(live \cup archived) + Cardinality(Callers \ Reclaiming) > Room

WindowInv ==
  \A c \in Pruning : ~cleared[c] =>
    Cardinality(live) + Cardinality(Callers \ Pruning) > PLAYBACK_LIMIT

\* A rotate ends, also while other calls prune and move the same files.
RotateEnds == \A c \in Callers : pc[c] \in Rotating ~> pc[c] = "idle"

\* When space is low, a rotate does not return before it has reclaimed enough
\* or has come down to the messages it must spare.
RotateReclaims ==
  [][\A c \in Callers : pc[c] \in Rotating /\ pc'[c] = "idle" =>
       ~disk_low \/ (archived = {} /\ Cardinality(live) <= PLAYBACK_LIMIT)]_vars
=============================================================================
