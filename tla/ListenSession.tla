--------------------------- MODULE ListenSession ---------------------------
(***************************************************************************)
(* conf/dialplan/default/30_option2_listen.xml over the message store: a   *)
(* caller pages through the messages, newest first, and past the window,   *)
(* in "the drawer", through all of them.  The call keeps an index and no   *)
(* list: each step, resolve and delete lists the store again, which other  *)
(* calls change meanwhile.                                                 *)
(***************************************************************************)
EXTENDS MessageStore

CONSTANT Listeners  \* bound: the calls that dial 2

ASSUME ListenersAreCallers == Listeners \subseteq Callers

VARIABLES
  node,    \* per call: where it is in the dialplan
  drawer,  \* per call: it is in the drawer
  idx,     \* per call: msg_idx, or drawer_idx once in the drawer
  file,    \* per call: msg_file or drawer_file; 0 for none
  nav,     \* per call: the key pressed last, "" for none
  \* Ghosts.
  last,    \* per call: the message played last, above all before the first
  thinned  \* per call: others took live messages away, that one or newer
           \* ones, since it was played

session == <<node, drawer, idx, file, nav>>
lvars   == <<vars, session, last, thinned>>

\* A name with Unclamped, Stuck, Without or AndStep: a wrong variant, see
\* DiscoRelay.

NoneYet == MaxMessages + 1

-----------------------------------------------------------------------------
(* bella-messages: the commands that only read                             *)

cmd_count_all == Cardinality(live)
cmd_count     == IF cmd_count_all < PLAYBACK_LIMIT THEN cmd_count_all
                                                   ELSE PLAYBACK_LIMIT

\* cmd_resolve is cmd_resolve_all within the window; both know no index 0.
Resolved(c) == IF drawer[c] \/ idx[c] <= PLAYBACK_LIMIT THEN resolve_all(idx[c])
                                                        ELSE {}

\* cmd_step and cmd_step_all.  0 is past the end.
StepNext_Unclamped(c) == idx[c] + 1
StepNext_Stuck(c) ==
  LET n == IF drawer[c] THEN cmd_count_all ELSE cmd_count IN
  IF idx[c] < n THEN idx[c] + 1 ELSE n
StepNext(c) ==
  LET n == IF drawer[c] THEN cmd_count_all ELSE cmd_count IN
  IF idx[c] < n THEN idx[c] + 1 ELSE 0
StepPrev(c) == IF idx[c] > 1 THEN idx[c] - 1 ELSE 1

drawer_start == IF cmd_count_all > PLAYBACK_LIMIT THEN PLAYBACK_LIMIT + 1 ELSE 0

-----------------------------------------------------------------------------
LInit ==
  /\ Init
  /\ node = [c \in Listeners |-> "menu"]
  /\ drawer = [c \in Listeners |-> FALSE]
  /\ idx = [c \in Listeners |-> 0]
  /\ file = [c \in Listeners |-> 0]
  /\ nav = [c \in Listeners |-> ""]
  /\ last = [c \in Listeners |-> NoneYet]
  /\ thinned = [c \in Listeners |-> FALSE]

\* In extension n key k is pressed, or none, and m comes next with index i.
Key(c, n, k, m, i) ==
  /\ node[c] = n /\ pc[c] = "idle"
  /\ nav' = [nav EXCEPT ![c] = k]
  /\ node' = [node EXCEPT ![c] = m]
  /\ idx' = [idx EXCEPT ![c] = i]
  /\ UNCHANGED <<file, last, thinned>>

Stay   == UNCHANGED <<vars, drawer>>
Open(c) == UNCHANGED vars /\ drawer' = [drawer EXCEPT ![c] = TRUE]

\* LISTEN_MESSAGES, LISTEN_START: an empty box is said to be empty.
ListenMessages(c) ==
  /\ node[c] = "menu" /\ pc[c] = "idle"
  /\ node' = [node EXCEPT ![c] = IF cmd_count = 0 THEN "menu" ELSE "announce"]
  /\ idx' = [idx EXCEPT ![c] = 1]
  /\ nav' = [nav EXCEPT ![c] = ""]
  /\ drawer' = [drawer EXCEPT ![c] = FALSE]
  /\ file' = [file EXCEPT ![c] = 0]
  /\ last' = [last EXCEPT ![c] = NoneYet]
  /\ thinned' = [thinned EXCEPT ![c] = FALSE]
  /\ UNCHANGED vars

\* MESSAGE_ANNOUNCE: the lead-in, which a key cuts short; there is none for 0.
Announce(c) ==
  \/ \E k \in {"", "1"} : Key(c, "announce", k, "resolve", idx[c]) /\ Stay
  \/ idx[c] > 0 /\ Key(c, "announce", "9", "intro", idx[c]) /\ Open(c)

\* MESSAGE_RESOLVE and the test of MESSAGE_PLAY; the same for the drawer.
Resolve(c) ==
  /\ node[c] = "resolve"
  /\ nav' = [nav EXCEPT ![c] = ""]
  /\ \/ /\ Resolved(c) = {}
        /\ file' = [file EXCEPT ![c] = 0]
        /\ node' = [node EXCEPT ![c] = "end"]
        /\ UNCHANGED <<last, thinned>>
     \/ \E f \in Resolved(c) :
        /\ file' = [file EXCEPT ![c] = f]
        /\ node' = [node EXCEPT ![c] = "play"]
        /\ last' = [last EXCEPT ![c] = f]
        /\ thinned' = [thinned EXCEPT ![c] = FALSE]
  /\ UNCHANGED <<vars, drawer, idx>>

\* MESSAGE_PLAY and the key chain, DRAWER_PLAY and its own: 2 goes back, 1 on,
\* no key on, with an announcement in the window; 9 in the window opens the
\* drawer on the same index; any other key plays the message again.
Previous(c) == Key(c, "play", "2", "resolve", StepPrev(c)) /\ Stay
Forward_WithoutResolving(c) == Key(c, "play", "1", "play", StepNext(c)) /\ Stay
Forward(c)  == Key(c, "play", "1", "resolve", StepNext(c)) /\ Stay
AutoAdvance(c) ==
  Key(c, "play", "", IF drawer[c] THEN "resolve" ELSE "announce", StepNext(c)) /\ Stay
OpenDrawer(c) == ~drawer[c] /\ Key(c, "play", "9", "intro", idx[c]) /\ Open(c)
Replay(c) ==
  \E k \in {"7", "9"} :
    /\ ~drawer[c] <=> k = "7"
    /\ Key(c, "play", k, "resolve", idx[c]) /\ Stay

\* 7 in the drawer: delete-all, then the same index again.
Delete_AndStep(c, n) ==
  /\ n = "play" => drawer[c]
  /\ Key(c, n, "7", "delete", idx[c] + 1)
  /\ IF resolve_all(idx[c]) = {} THEN UNCHANGED vars ELSE DeleteAll(c, idx[c])
  /\ UNCHANGED drawer
Delete(c, n) ==
  /\ n = "play" => drawer[c]
  /\ Key(c, n, "7", "delete", idx[c])
  /\ IF resolve_all(idx[c]) = {} THEN UNCHANGED vars ELSE DeleteAll(c, idx[c])
  /\ UNCHANGED drawer

Deleted(c) == Key(c, "delete", nav[c], "resolve", idx[c]) /\ Stay

\* DRAWER_OPEN: an intro, which 1, 2 or 7 cut short.
DrawerOpen(c) ==
  \/ \E k \in {"", "1"} : Key(c, "intro", k, "resolve", idx[c]) /\ Stay
  \/ Key(c, "intro", "2", "resolve", StepPrev(c)) /\ Stay

\* MESSAGE_END, PLAYBACK_END_KEY, DRAWER_END: 9 goes on past the window, if the
\* caller has stepped off its end.
End(c) ==
  \/ Key(c, "end", "", "menu", idx[c]) /\ Stay
  \/ /\ ~drawer[c] /\ idx[c] = 0
     /\ Key(c, "end", "9", "intro", drawer_start) /\ Open(c)

Session(c) ==
  \/ Announce(c) \/ Resolve(c)
  \/ Previous(c) \/ Forward(c) \/ AutoAdvance(c) \/ OpenDrawer(c) \/ Replay(c)
  \/ \E n \in {"play", "intro"} : Delete(c, n)
  \/ Deleted(c) \/ DrawerOpen(c) \/ End(c)

-----------------------------------------------------------------------------
\* Calls in the menu do what MessageStore says, but delete in the drawer only.
InStore(c) ==
  /\ \/ Step(c)
     \/ (c \in Listeners => node[c] = "menu") /\ (RecordBegins(c) \/ Archive(c))
  /\ thinned' = [d \in Listeners |->
       thinned[d] \/ (d # c /\ \E m \in live \ live' : m >= last[d])]
  /\ UNCHANGED <<session, last>>

LNext ==
  \/ \E c \in Listeners : ListenMessages(c) \/ Session(c)
  \/ \E c \in Callers : InStore(c)

LSpec == LInit /\ [][LNext]_lvars

\* FreeSWITCH works on a call that has left the menu, and scripts run on.
LFairSpec ==
  /\ LSpec
  /\ \A c \in Listeners : WF_lvars(Session(c))
  /\ \A c \in Callers : WF_lvars(Step(c) /\ InStore(c))

-----------------------------------------------------------------------------
(* Properties                                                              *)

LTypeOK ==
  /\ TypeOK
  /\ node \in [Listeners -> {"menu", "announce", "resolve", "play", "intro",
                             "delete", "end"}]
  /\ drawer \in [Listeners -> BOOLEAN]
  /\ idx \in [Listeners -> {1} \cup 0..MaxMessages]
  /\ file \in [Listeners -> 0..MaxMessages]
  /\ nav \in [Listeners -> {"", "1", "2", "7", "9"}]
  /\ last \in [Listeners -> 1..NoneYet]
  /\ thinned \in [Listeners -> BOOLEAN]

\* Paging, by key, by silence, into the drawer or after a deletion, misses no
\* message: between the one played last and an older one played next there is
\* no live message, however many others record meanwhile.  (Messages that others
\* archive or discard shift the indices the other way; they are left out.)
NoneSkipped ==
  [][\A c \in Listeners :
       Resolve(c) /\ ~thinned[c] /\ node'[c] = "play" =>
         ~\E m \in live : file'[c] < m /\ m < last[c]]_lvars

\* What 7 deletes after a message was played is that message or a newer one:
\* new recordings shift the index to newer messages, never to older ones.
DeletesNoOlder ==
  [][\A c \in Listeners :
       Delete(c, "play") /\ ~thinned[c] =>
         \A m \in resolve_all(idx[c]) : m >= file[c]]_lvars

\* Why both hold: an index never runs ahead of the messages it has passed.
\* Passed are those at and above the one played last, but not the one that the
\* session is deleting.
Going(c)  == IF pc[c] = "move" THEN todo[c] ELSE {}
Passed(c) == {m \in live : m >= last[c]} \ Going(c)

\* Off the end of the window with 0, the session has passed a windowful of
\* messages, or all there are.
AtEnd(c) == idx[c] = 0 /\ ~drawer[c] /\ node[c] \in {"announce", "resolve", "end"}

IndexOK(c) ==
  /\ pc[c] = "idle" \/ (pc[c] = "move" /\ node[c] = "delete")
  /\ node[c] \in {"intro", "delete"} => drawer[c]
  /\ node[c] = "play" => file[c] = last[c] /\ idx[c] >= 1
  /\ node[c] = "play" \/ idx[c] = 0 => last[c] <= latest
  /\ ~thinned[c] =>
       /\ idx[c] <= Cardinality(Passed(c)) + 1
       /\ node[c] = "play" => idx[c] <= Cardinality(Passed(c))
       /\ AtEnd(c) => Cardinality(Passed(c)) >= PLAYBACK_LIMIT \/ Passed(c) = live

IndexInv == \A c \in Listeners : node[c] # "menu" => IndexOK(c)

\* "7 = delete the current message": the one that was played.
DeletesCurrent ==
  [][\A c \in Listeners :
       Delete(c, "play") /\ ~thinned[c] => resolve_all(idx[c]) \subseteq {file[c]}]_lvars

\* A caller who presses no key gets back to the menu.
SilentSessionEnds ==
  \A c \in Listeners :
    <>[](nav[c] = "") => (node[c] # "menu" ~> node[c] = "menu")
=============================================================================
