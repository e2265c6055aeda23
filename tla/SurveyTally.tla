----------------------------- MODULE SurveyTally -----------------------------
(***************************************************************************)
(* scripts/bella-survey and its callers, 80_option9_survey.xml and the     *)
(* reset codes of 10_inbound_and_menu.xml.  A command takes the flock,     *)
(* reads the tally file, and `vote` and `reset` write a temporary file     *)
(* line by line and rename it over the tally.  A call votes with one       *)
(* command and asks where it stands with another.                          *)
(***************************************************************************)
EXTENDS Naturals, FiniteSets, Functions

CONSTANTS
  Callers,   \* concurrent calls
  Options,   \* keys of the ballot
  Nobody,    \* no caller, no option
  MaxVotes,  \* bound: a ballot is offered while no option has this many votes
  Faults     \* scripts may die, or fail to write a full disk

ASSUME NobodyIsNobody == Nobody \notin Callers \cup Options
ASSUME FaultsIsBoolean == Faults \in BOOLEAN

VARIABLES
  tally,   \* what load_counts reads in survey.tsv; no line, or no file, is 0
  flock,   \* who holds survey.lock
  node,    \* per call: where it is in the dialplan
  pick,    \* per call: survey_pick
  bucket,  \* per call: survey_bucket
  pc,      \* per call: next step of the command it is running
  count,   \* per call: the command's associative array
  temp,    \* per call: the options whose line is in its temporary file
  \* Ghost.
  place    \* per call: which vote for its pick it cast since the reset, or 0

dialplan == <<node, pick, bucket>>
command  == <<pc, count, temp>>
vars     == <<tally, flock, dialplan, command, place>>

\* An operator called Without, Ignoring or InPlace is a deliberately wrong
\* variant of the next one: see DiscoRelay.

Nodes   == {"menu", "empty", "ballot", "vote", "stats", "reset"}
Buckets == {"first", "top", "rarest", "high", "low"}
Stages  == {"idle", "flock", "load", "save", "print"}

Zero  == [o \in Options |-> 0]

\* cmd_stats: c * 10 is compared with the total, for ten options.
Standing(cnt, o) ==
  LET spread == \E i, j \in Options : cnt[i] # cnt[j] IN
  IF cnt[o] = 1 THEN "first"
  ELSE IF spread /\ \A i \in Options : cnt[i] <= cnt[o] THEN "top"
  ELSE IF spread /\ \A i \in Options : cnt[o] <= cnt[i] THEN "rarest"
  ELSE IF cnt[o] * Cardinality(Options) >= SumFunction(cnt) THEN "high"
  ELSE "low"

-----------------------------------------------------------------------------
Init ==
  /\ tally = Zero /\ flock = Nobody
  /\ node = [c \in Callers |-> "menu"]
  /\ pick = [c \in Callers |-> Nobody]
  /\ bucket = [c \in Callers |-> ""]
  /\ pc = [c \in Callers |-> "idle"]
  /\ count = [c \in Callers |-> Zero]
  /\ temp = [c \in Callers |-> {}]
  /\ place = [c \in Callers |-> 0]

\* The dialplan runs a command and waits for it at node n.
System(c, n) ==
  /\ node' = [node EXCEPT ![c] = n]
  /\ pc' = [pc EXCEPT ![c] = "flock"]

-----------------------------------------------------------------------------
(* The dialplan                                                            *)

\* SURVEY_START: the pick of an earlier ballot is cleared.
SurveyStart(c) ==
  /\ node[c] \in {"menu", "empty"}
  /\ \A o \in Options : tally[o] < MaxVotes
  /\ node' = [node EXCEPT ![c] = "ballot"]
  /\ pick' = [pick EXCEPT ![c] = Nobody]
  /\ place' = [place EXCEPT ![c] = 0]
  /\ UNCHANGED <<tally, flock, bucket, command>>

\* SURVEY_EVAL, no valid key: the nudge, and the ballot again.
SurveyEvalEmpty(c) ==
  /\ node[c] = "ballot"
  /\ node' = [node EXCEPT ![c] = "empty"]
  /\ UNCHANGED <<tally, flock, pick, bucket, command, place>>

\* SURVEY_EVAL, a valid key: run vote.
SurveyEval(c, o) ==
  /\ node[c] = "ballot"
  /\ pick' = [pick EXCEPT ![c] = o]
  /\ System(c, "vote")
  /\ UNCHANGED <<tally, flock, bucket, count, temp, place>>

\* SURVEY_RESULT: the reading, and run stats, whatever became of the vote.
SurveyResult(c) ==
  /\ node[c] = "vote" /\ pc[c] = "idle"
  /\ System(c, "stats")
  /\ bucket' = [bucket EXCEPT ![c] = ""]
  /\ UNCHANGED <<tally, flock, pick, count, temp, place>>

\* SURVEY_STATS: the prompt, then the menu.
SurveyStats(c) ==
  /\ node[c] = "stats" /\ pc[c] = "idle"
  /\ node' = [node EXCEPT ![c] = "menu"]
  /\ UNCHANGED <<tally, flock, pick, bucket, command, place>>

\* 000 and 002: run reset, then back to the menu.
ResetDialled(c) ==
  /\ node[c] = "menu"
  /\ System(c, "reset")
  /\ UNCHANGED <<tally, flock, pick, bucket, count, temp, place>>

ResetDone(c) ==
  /\ node[c] = "reset" /\ pc[c] = "idle"
  /\ node' = [node EXCEPT ![c] = "menu"]
  /\ UNCHANGED <<tally, flock, pick, bucket, command, place>>

-----------------------------------------------------------------------------
(* bella-survey                                                            *)

with_lock_Without(c) ==
  /\ pc[c] = "flock"
  /\ flock' = c
  /\ pc' = [pc EXCEPT ![c] = "load"]
  /\ UNCHANGED <<tally, dialplan, count, temp, place>>

with_lock(c) ==
  /\ pc[c] = "flock" /\ flock = Nobody
  /\ flock' = c
  /\ pc' = [pc EXCEPT ![c] = "load"]
  /\ UNCHANGED <<tally, dialplan, count, temp, place>>

\* The lock's descriptor is closed with the shell.
Exit_WithoutUnlocking(c) ==
  /\ pc' = [pc EXCEPT ![c] = "idle"]
  /\ count' = [count EXCEPT ![c] = Zero]
  /\ temp' = [temp EXCEPT ![c] = {}]
  /\ UNCHANGED flock

Exit(c) ==
  /\ pc' = [pc EXCEPT ![c] = "idle"]
  /\ flock' = IF flock = c THEN Nobody ELSE flock
  /\ count' = [count EXCEPT ![c] = Zero]
  /\ temp' = [temp EXCEPT ![c] = {}]

\* cmd_vote and cmd_reset up to save_counts.
ToSave(c) == IF node[c] = "reset" THEN Zero ELSE [tally EXCEPT ![pick[c]] = @ + 1]

LoadToSave(c) ==
  /\ pc[c] = "load" /\ node[c] \in {"vote", "reset"}
  /\ count' = [count EXCEPT ![c] = ToSave(c)]
  /\ pc' = [pc EXCEPT ![c] = "save"]
  /\ UNCHANGED <<tally, flock, dialplan, temp, place>>

\* cmd_stats, as a whole: it only reads.
cmd_stats(c) ==
  /\ pc[c] = "load" /\ node[c] = "stats"
  /\ bucket' = [bucket EXCEPT ![c] = Standing(tally, pick[c])]
  /\ Exit(c)
  /\ UNCHANGED <<tally, node, pick, place>>

\* save_counts: one line of the temporary file.
Append_InPlace(c) ==
  /\ pc[c] = "save"
  /\ \E o \in Options \ temp[c] : temp' = [temp EXCEPT ![c] = @ \cup {o}]
  /\ tally' = [o \in Options |-> IF o \in temp'[c] THEN count[c][o] ELSE 0]
  /\ UNCHANGED <<flock, dialplan, pc, count, place>>

Append(c) ==
  /\ pc[c] = "save"
  /\ \E o \in Options \ temp[c] : temp' = [temp EXCEPT ![c] = @ \cup {o}]
  /\ UNCHANGED <<tally, flock, dialplan, pc, count, place>>

\* save_counts: the rename.  From here on the vote counts.
Rename(c) ==
  /\ pc[c] = "save" /\ temp[c] = Options
  /\ tally' = count[c]
  /\ place' = IF node[c] = "reset" THEN [d \in Callers |-> 0]
              ELSE [place EXCEPT ![c] = count[c][pick[c]]]
  /\ pc' = [pc EXCEPT ![c] = "print"]
  /\ UNCHANGED <<flock, dialplan, count, temp>>

PrintTotal(c) ==
  /\ pc[c] = "print"
  /\ Exit(c)
  /\ UNCHANGED <<tally, dialplan, place>>

\* The script dies, by set -e on a full disk or by a signal.  A temporary file
\* may stay behind; nothing ever reads it.
Die(c) ==
  /\ Faults /\ pc[c] # "idle"
  /\ Exit(c)
  /\ UNCHANGED <<tally, dialplan, place>>

-----------------------------------------------------------------------------
bella_survey(c) ==
  \/ with_lock(c) \/ LoadToSave(c) \/ cmd_stats(c)
  \/ Append(c) \/ Rename(c) \/ PrintTotal(c)

Progress(c) ==
  \/ SurveyResult(c) \/ SurveyStats(c) \/ ResetDone(c) \/ bella_survey(c)

Next == \E c \in Callers :
  \/ SurveyStart(c) \/ SurveyEvalEmpty(c) \/ ResetDialled(c)
  \/ \E o \in Options : SurveyEval(c, o)
  \/ Progress(c) \/ Die(c)

Spec == Init /\ [][Next]_vars

\* Commands and prompts run to their end.  The kernel wakes every waiter when
\* the lock is freed, so nobody loses the race for it forever.
FairSpec ==
  /\ Spec
  /\ \A c \in Callers : WF_vars(Progress(c)) /\ SF_vars(with_lock(c))

-----------------------------------------------------------------------------
(* Properties                                                              *)

TypeOK ==
  /\ tally \in [Options -> Nat]
  /\ flock \in Callers \cup {Nobody}
  /\ node \in [Callers -> Nodes]
  /\ pick \in [Callers -> Options \cup {Nobody}]
  /\ bucket \in [Callers -> Buckets \cup {""}]
  /\ pc \in [Callers -> Stages]
  /\ count \in [Callers -> [Options -> Nat]]
  /\ temp \in [Callers -> SUBSET Options]
  /\ place \in [Callers -> Nat]

\* Votes and resets of concurrent calls take effect one after the other and
\* whole, whatever script dies on the way.
Abstract  == INSTANCE Tally WITH votes <- tally
TallySpec == Abstract!Spec

\* Inside the lock nobody else is.
LockInv ==
  \A c \in Callers :
    /\ pc[c] \in {"load", "save", "print"} => flock = c
    /\ pc[c] # "idle" => node[c] \in {"vote", "stats", "reset"}
    /\ node[c] \in {"vote", "stats"} => pick[c] \in Options

\* What a writer is about to save is still the tally plus its vote, or zero.
SaveInv ==
  \A c \in Callers :
    pc[c] = "save" => node[c] \in {"vote", "reset"} /\ count[c] = ToSave(c)

IInv == TypeOK /\ LockInv /\ SaveInv

\* The standing a call was given last; while it votes, it has none.
ToldFirst(c) == bucket[c] = "first" /\ node[c] # "vote"

\* A call is told that its pick "just received its very first vote" only if it
\* cast that vote, or a reset came after its own: two calls that voted in the
\* same tally never both are.
FirstIsFirst ==
  /\ \A c \in Callers : ToldFirst(c) => place[c] \in {0, 1}
  /\ \A c, d \in Callers :
       /\ ToldFirst(c) /\ ToldFirst(d) /\ pick[c] = pick[d]
       /\ place[c] > 0 /\ place[d] > 0
       => c = d

\* The caller is counted before the standing is read: no count ever falls back
\* behind a vote it has taken, but for a reset.
OwnVoteCounts ==
  \A c \in Callers : place[c] > 0 => tally[pick[c]] >= place[c]

\* The history behind both.  A vote of some place has made its option's count
\* reach that place, and is forgotten when the next ballot opens; no two votes
\* for an option have the same place; and who was told "first" had no other.
PlaceInv ==
  /\ \A c \in Callers : place[c] > 0 =>
       /\ pick[c] \in Options /\ node[c] \notin {"ballot", "empty"}
       /\ tally[pick[c]] >= place[c]
  /\ \A c, d \in Callers :
       place[c] > 0 /\ place[d] = place[c] /\ pick[d] = pick[c] => c = d
  /\ \A c \in Callers : ToldFirst(c) => place[c] \in {0, 1}

\* "a brand-new pick reads as first".
BrandNewReadsFirst ==
  \A c \in Callers :
    node[c] = "stats" /\ pc[c] = "idle" /\ place[c] = 1 => bucket[c] = "first"

\* A call that has given its vote comes back to the menu.
VoterReturns == \A c \in Callers : node[c] = "vote" ~> node[c] = "menu"
=============================================================================
