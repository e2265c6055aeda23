-------------------------- MODULE SurveyTallyProofs --------------------------
(***************************************************************************)
(* Proofs about the survey tally: the lock makes every vote and reset a    *)
(* single step of the abstract tally, and what a caller is told of its     *)
(* vote is true of it, for any number of calls and options and whatever    *)
(* scripts die.                                                            *)
(***************************************************************************)
EXTENDS SurveyTally, TLAPS

\* Before any command has run the invariant holds.
LEMMA SurveyInit == Init => IInv
<1> SUFFICES ASSUME Init PROVE IInv
  OBVIOUS
<1>1. TypeOK
  BY DEF Init, TypeOK, Zero, Nodes, Stages
<1>2. LockInv /\ SaveInv
  BY DEF Init, LockInv, SaveInv
<1>3. QED BY <1>1, <1>2 DEF IInv

\* A step that leaves the tally alone and takes nobody into save_counts keeps
\* what the writers are about to save.
LEMMA SaveKept ==
  ASSUME SaveInv, tally' = tally,
         \A c \in Callers : pc'[c] = "save" =>
           pc[c] = "save" /\ node'[c] = node[c] /\ pick'[c] = pick[c] /\ count'[c] = count[c]
  PROVE  SaveInv'
  BY DEF SaveInv, ToSave

\* A place that is kept or forgotten stays a number.
LEMMA ForgetTyped ==
  ASSUME place \in [Callers -> Nat], NEW c \in Callers,
         place' = place \/ place' = [place EXCEPT ![c] = 0]
  PROVE  place' \in [Callers -> Nat]
  OBVIOUS

\* The steps of the dialplan run outside the lock.
LEMMA DialplanSteps ==
  ASSUME IInv, NEW c \in Callers,
         \/ SurveyStart(c) \/ SurveyEvalEmpty(c) \/ ResetDialled(c)
         \/ \E o \in Options : SurveyEval(c, o)
         \/ SurveyResult(c) \/ SurveyStats(c) \/ ResetDone(c)
  PROVE  IInv'
<1> USE DEF SurveyStart, SurveyEvalEmpty, ResetDialled, SurveyEval,
            SurveyResult, SurveyStats, ResetDone, System, command
<1>1. /\ node \in [Callers -> Nodes] /\ pick \in [Callers -> Options \cup {Nobody}]
      /\ bucket \in [Callers -> Buckets \cup {""}] /\ pc \in [Callers -> Stages]
      /\ place \in [Callers -> Nat]
  BY DEF IInv, TypeOK
<1>2. /\ node[c] \in {"menu", "empty", "ballot"} => pc[c] = "idle"
      /\ node[c] \in {"vote", "stats"} => pick[c] \in Options
  BY DEF IInv, LockInv
<1>3. /\ UNCHANGED <<tally, flock, count, temp>>
      /\ pc[c] = "idle"
      /\ \A d \in Callers : d # c => pc'[d] = pc[d] /\ node'[d] = node[d] /\ pick'[d] = pick[d]
  BY <1>1, <1>2
<1>4. /\ pc'[c] \in {"idle", "flock"}
      /\ pc'[c] = "flock" => node'[c] \in {"vote", "stats", "reset"}
      /\ node'[c] \in {"vote", "stats"} => pick'[c] \in Options
  BY <1>1, <1>2
<1>5. /\ node' \in [Callers -> Nodes] /\ pc' \in [Callers -> Stages]
  BY <1>1 DEF Nodes, Stages
<1>6. /\ pick' \in [Callers -> Options \cup {Nobody}] /\ place' \in [Callers -> Nat]
      /\ bucket' \in [Callers -> Buckets \cup {""}]
  <2>1. pick' \in [Callers -> Options \cup {Nobody}]
    <3>1. \/ pick' = pick
          \/ \E o \in Options \cup {Nobody} : pick' = [pick EXCEPT ![c] = o]
      OBVIOUS
    <3>2. QED BY <1>1, <3>1
  <2>2. place' \in [Callers -> Nat]
    <3>1. place' = place \/ place' = [place EXCEPT ![c] = 0]
      OBVIOUS
    <3>2. QED BY <1>1, <3>1, ForgetTyped
  <2>3. bucket' \in [Callers -> Buckets \cup {""}]
    BY <1>1
  <2>4. QED BY <2>1, <2>2, <2>3
<1>7. TypeOK'
  BY <1>3, <1>5, <1>6 DEF IInv, TypeOK
<1>8. LockInv'
  BY <1>3, <1>4 DEF IInv, LockInv
<1>9. SaveInv'
  BY <1>3, <1>4, SaveKept DEF IInv
<1>10. QED BY <1>7, <1>8, <1>9 DEF IInv

\* Taking the lock.
LEMMA LockStep ==
  ASSUME IInv, NEW c \in Callers, with_lock(c)
  PROVE  IInv'
<1>1. pc \in [Callers -> Stages]
  BY DEF IInv, TypeOK
<1>2. /\ UNCHANGED <<tally, node, pick, bucket, count, temp, place>>
      /\ flock = Nobody /\ flock' = c
      /\ pc' = [pc EXCEPT ![c] = "load"] /\ pc[c] = "flock"
  BY DEF with_lock, dialplan
<1>3. TypeOK'
  BY <1>2 DEF IInv, TypeOK, Stages
<1>4. LockInv'
  <2>1. \A d \in Callers : pc[d] \notin {"load", "save", "print"}
    BY <1>2, NobodyIsNobody DEF IInv, LockInv
  <2>2. QED BY <1>1, <1>2, <2>1 DEF IInv, LockInv
<1>5. SaveInv'
  BY <1>1, <1>2, SaveKept DEF IInv
<1>6. QED BY <1>3, <1>4, <1>5 DEF IInv

\* The end of a command, however it comes.
LEMMA ExitStep ==
  ASSUME IInv, NEW c \in Callers, pc[c] # "idle", Exit(c),
         UNCHANGED <<tally, node, pick, place>>,
         bucket' \in [Callers -> Buckets \cup {""}]
  PROVE  IInv'
<1>1. /\ pc \in [Callers -> Stages] /\ count \in [Callers -> [Options -> Nat]]
      /\ temp \in [Callers -> SUBSET Options] /\ flock \in Callers \cup {Nobody}
  BY DEF IInv, TypeOK
<1>2. /\ pc' \in [Callers -> Stages] /\ temp' \in [Callers -> SUBSET Options]
      /\ flock' \in Callers \cup {Nobody}
  BY <1>1 DEF Exit, Stages
<1>3. count' \in [Callers -> [Options -> Nat]]
  <2>1. Zero \in [Options -> Nat]
    BY DEF Zero
  <2>2. QED BY <1>1, <2>1 DEF Exit
<1>4. TypeOK'
  BY <1>2, <1>3 DEF IInv, TypeOK
<1>5. LockInv'
  BY <1>1 DEF IInv, LockInv, Exit
<1>6. SaveInv'
  <2>1. \A d \in Callers : pc'[d] = "save" => d # c
    BY <1>1 DEF Exit
  <2>2. \A d \in Callers : d # c => pc'[d] = pc[d] /\ count'[d] = count[d]
    BY <1>1 DEF Exit
  <2>3. QED BY <2>1, <2>2, SaveKept DEF IInv
<1>7. QED BY <1>4, <1>5, <1>6 DEF IInv

\* What a standing is.
LEMMA StandingTyped == \A cnt, o : Standing(cnt, o) \in Buckets
  BY DEF Standing, Buckets

\* An array that is about to be saved is a full one.
LEMMA ToSaveTyped ==
  ASSUME IInv, NEW c \in Callers, node[c] \in {"vote", "reset"}
  PROVE  ToSave(c) \in [Options -> Nat]
<1>1. node[c] = "vote" => pick[c] \in Options
  BY DEF IInv, LockInv
<1>2. tally \in [Options -> Nat]
  BY DEF IInv, TypeOK
<1>3. QED BY <1>1, <1>2 DEF ToSave, Zero

\* Reading the tally, up to the array that is to be saved.
LEMMA LoadStep ==
  ASSUME IInv, NEW c \in Callers, LoadToSave(c)
  PROVE  IInv'
<1>1. /\ pc \in [Callers -> Stages] /\ count \in [Callers -> [Options -> Nat]]
  BY DEF IInv, TypeOK
<1>2. /\ UNCHANGED <<tally, flock, node, pick, bucket, temp, place>>
      /\ pc' = [pc EXCEPT ![c] = "save"] /\ pc[c] = "load"
      /\ count' = [count EXCEPT ![c] = ToSave(c)] /\ node[c] \in {"vote", "reset"}
  BY DEF LoadToSave, dialplan
<1>3. pc' \in [Callers -> Stages] /\ count' \in [Callers -> [Options -> Nat]]
  BY <1>1, <1>2, ToSaveTyped DEF Stages
<1>4. TypeOK'
  BY <1>2, <1>3 DEF IInv, TypeOK
<1>5. LockInv'
  BY <1>1, <1>2 DEF IInv, LockInv
<1>6. SaveInv'
  <2>1. \A d \in Callers : ToSave(d)' = ToSave(d)
    BY <1>2 DEF ToSave
  <2>2. count'[c] = ToSave(c) /\ pc'[c] = "save" /\ node'[c] \in {"vote", "reset"}
    BY <1>1, <1>2
  <2>3. \A d \in Callers : d # c => pc'[d] = pc[d] /\ count'[d] = count[d]
    BY <1>1, <1>2
  <2>4. QED BY <1>2, <2>1, <2>2, <2>3 DEF IInv, SaveInv
<1>7. QED BY <1>4, <1>5, <1>6 DEF IInv

\* A line of the temporary file.
LEMMA AppendStep ==
  ASSUME IInv, NEW c \in Callers, Append(c)
  PROVE  IInv'
<1>1. UNCHANGED <<tally, flock, node, pick, bucket, pc, count, place>>
  BY DEF Append, dialplan
<1>2. temp' \in [Callers -> SUBSET Options]
  <2>1. PICK o \in Options : temp' = [temp EXCEPT ![c] = temp[c] \cup {o}]
    BY DEF Append
  <2>2. temp \in [Callers -> SUBSET Options]
    BY DEF IInv, TypeOK
  <2>3. QED BY <2>1, <2>2
<1>3. TypeOK'
  BY <1>1, <1>2 DEF IInv, TypeOK
<1>4. LockInv'
  BY <1>1 DEF IInv, LockInv
<1>5. SaveInv'
  BY <1>1, SaveKept DEF IInv
<1>6. QED BY <1>3, <1>4, <1>5 DEF IInv

\* The rename: nobody else is between reading the tally and writing it.
LEMMA RenameStep ==
  ASSUME IInv, NEW c \in Callers, Rename(c)
  PROVE  IInv'
<1>1. /\ pc \in [Callers -> Stages] /\ count \in [Callers -> [Options -> Nat]]
      /\ place \in [Callers -> Nat]
  BY DEF IInv, TypeOK
<1>2. /\ UNCHANGED <<flock, node, pick, bucket, count, temp>>
      /\ tally' = count[c] /\ pc[c] = "save" /\ pc' = [pc EXCEPT ![c] = "print"]
  BY DEF Rename, dialplan
<1>3. node[c] = "vote" \/ node[c] = "reset"
  BY <1>2 DEF IInv, SaveInv
<1>4. pc' \in [Callers -> Stages] /\ tally' \in [Options -> Nat]
  BY <1>1, <1>2 DEF Stages
<1>5. place' \in [Callers -> Nat]
  <2>1. node[c] = "vote" => count[c][pick[c]] \in Nat
    BY <1>1 DEF IInv, LockInv
  <2>2. QED BY <1>1, <1>3, <2>1 DEF Rename
<1>6. TypeOK'
  BY <1>2, <1>4, <1>5 DEF IInv, TypeOK
<1>7. LockInv'
  BY <1>1, <1>2 DEF IInv, LockInv
<1>8. SaveInv'
  <2>1. \A d \in Callers : pc'[d] # "save"
    BY <1>1, <1>2 DEF IInv, LockInv
  <2>2. QED BY <2>1 DEF SaveInv
<1>9. QED BY <1>6, <1>7, <1>8 DEF IInv

\* Every step keeps the invariant.
LEMMA SurveyNext == IInv /\ [Next]_vars => IInv'
<1> SUFFICES ASSUME IInv, [Next]_vars PROVE IInv'
  OBVIOUS
<1>1. CASE UNCHANGED vars
  BY <1>1 DEF vars, dialplan, command, IInv, TypeOK, LockInv, SaveInv, ToSave
<1>2. ASSUME NEW c \in Callers, cmd_stats(c) PROVE IInv'
  <2>1. bucket' \in [Callers -> Buckets \cup {""}]
    BY <1>2, StandingTyped DEF cmd_stats, IInv, TypeOK
  <2>2. QED BY <1>2, <2>1, ExitStep DEF cmd_stats
<1>3. ASSUME NEW c \in Callers, PrintTotal(c) \/ Die(c) PROVE IInv'
  <2>1. /\ pc[c] # "idle" /\ Exit(c)
        /\ UNCHANGED <<tally, node, pick, bucket, place>>
    BY <1>3 DEF PrintTotal, Die, dialplan
  <2>2. bucket' \in [Callers -> Buckets \cup {""}]
    BY <2>1 DEF IInv, TypeOK
  <2>3. QED BY <2>1, <2>2, ExitStep
<1>4. QED
  BY <1>1, <1>2, <1>3, DialplanSteps, LockStep, LoadStep, AppendStep, RenameStep
     DEF Next, Progress, bella_survey

\* The tally is well typed, its lock excludes, and a writer never saves a
\* stale array.
THEOREM SurveyInductive == Spec => []IInv
  BY SurveyInit, SurveyNext, PTL DEF Spec

-----------------------------------------------------------------------------
(* The refinement: a rename is a vote or a reset of the abstract tally, and *)
(* nothing else touches it.                                                *)

\* The survey starts as the abstract tally does.
LEMMA RefinesInit == Init => Abstract!Init
  BY DEF Init, Abstract!Init, Zero

\* The rename is a vote or a reset.
LEMMA RefinesRename ==
  ASSUME IInv, NEW c \in Callers, Rename(c)
  PROVE  Abstract!Next
<1>1. tally' = ToSave(c) /\ node[c] \in {"vote", "reset"} /\ tally \in [Options -> Nat]
  BY DEF Rename, IInv, SaveInv, TypeOK
<1>2. CASE node[c] = "reset"
  <2>1. Abstract!Reset
    BY <1>1, <1>2 DEF Abstract!Reset, Rename, ToSave, Zero
  <2>2. QED BY <2>1 DEF Abstract!Next
<1>3. CASE node[c] = "vote"
  <2>1. pick[c] \in Options
    BY <1>3 DEF IInv, LockInv
  <2>2. tally' = [tally EXCEPT ![pick[c]] = @ + 1]
    BY <1>1, <1>3 DEF ToSave
  <2>3. place' = [place EXCEPT ![c] = tally'[pick[c]]]
    BY <1>3 DEF Rename
  <2>4. tally'[pick[c]] = tally[pick[c]] + 1
    BY <1>1, <2>1, <2>2
  <2>5. Abstract!Vote(c, pick[c])
    BY <2>2, <2>3, <2>4 DEF Abstract!Vote
  <2>6. QED BY <2>1, <2>5 DEF Abstract!Next
<1>4. QED BY <1>1, <1>2, <1>3

\* Every other step forgets a place or changes nothing of the tally.
LEMMA RefinesNext ==
  IInv /\ [Next]_vars => [Abstract!Next]_<<tally, place>>
<1> SUFFICES ASSUME IInv, Next PROVE Abstract!Next \/ UNCHANGED <<tally, place>>
  BY DEF vars
<1> PICK c \in Callers :
      \/ SurveyStart(c) \/ SurveyEvalEmpty(c) \/ ResetDialled(c)
      \/ \E o \in Options : SurveyEval(c, o)
      \/ Progress(c) \/ Die(c)
  BY DEF Next
<1>1. CASE SurveyStart(c)
  <2>1. Abstract!Forget(c)
    BY <1>1 DEF SurveyStart, Abstract!Forget
  <2>2. QED BY <2>1 DEF Abstract!Next
<1>2. CASE Rename(c)
  BY <1>2, RefinesRename
<1>3. CASE \/ SurveyEvalEmpty(c) \/ ResetDialled(c)
           \/ \E o \in Options : SurveyEval(c, o)
           \/ SurveyResult(c) \/ SurveyStats(c) \/ ResetDone(c)
  BY <1>3 DEF SurveyEvalEmpty, ResetDialled, SurveyEval, SurveyResult, SurveyStats, ResetDone
<1>4. CASE with_lock(c) \/ LoadToSave(c) \/ cmd_stats(c) \/ Append(c) \/ PrintTotal(c) \/ Die(c)
  BY <1>4 DEF with_lock, LoadToSave, cmd_stats, Append, PrintTotal, Die
<1>5. QED BY <1>1, <1>2, <1>3, <1>4 DEF Progress, bella_survey

\* bella-survey implements the abstract tally: a vote adds exactly one to the
\* count the vote before it left, and no script that dies leaves half a change.
THEOREM ImplementsTally == Spec => TallySpec
<1>1. Init => Abstract!Init
  BY RefinesInit
<1>2. IInv /\ [Next]_vars => [Abstract!Next]_<<tally, place>>
  BY RefinesNext
<1>3. QED BY <1>1, <1>2, SurveyInductive, PTL DEF Spec, TallySpec, Abstract!Spec

-----------------------------------------------------------------------------
(* The standing: what a caller is told of the vote it has cast.            *)

\* A step after which nobody has another place than before, but for those who
\* have forgotten theirs, and nobody who keeps one has lost its standing.
LEMMA PlaceKept ==
  ASSUME IInv, PlaceInv, tally' = tally,
         \A c \in Callers :
           \/ place'[c] = 0
           \/ /\ place'[c] = place[c] /\ pick'[c] = pick[c]
              /\ node'[c] \notin {"ballot", "empty"}
              /\ ToldFirst(c)' => ToldFirst(c) \/ place[c] \in {0, 1}
  PROVE  PlaceInv'
<1>1. \A c \in Callers : place[c] \in Nat
  BY DEF IInv, TypeOK
<1>2. ASSUME NEW c \in Callers, place'[c] > 0
      PROVE  /\ place'[c] = place[c] /\ pick'[c] = pick[c]
             /\ node'[c] \notin {"ballot", "empty"}
  BY <1>2
<1>3. ASSUME NEW c \in Callers, place'[c] > 0
      PROVE  /\ pick'[c] \in Options /\ node'[c] \notin {"ballot", "empty"}
             /\ tally'[pick'[c]] >= place'[c]
  BY <1>2, <1>3 DEF PlaceInv
<1>4. ASSUME NEW c \in Callers, NEW d \in Callers,
             place'[c] > 0, place'[d] = place'[c], pick'[d] = pick'[c]
      PROVE  c = d
  <2>1. place[c] > 0 /\ place[d] = place[c] /\ pick[d] = pick[c]
    BY <1>2, <1>4
  <2>2. QED BY <2>1 DEF PlaceInv
<1>5. ASSUME NEW c \in Callers, ToldFirst(c)'
      PROVE  place'[c] \in {0, 1}
  BY <1>5 DEF PlaceInv
<1>6. QED BY <1>3, <1>4, <1>5 DEF PlaceInv

\* The count a new vote takes is above every place that was given for its
\* option, and a reset takes all places back.
LEMMA RenamePlaces ==
  ASSUME IInv, PlaceInv, NEW c \in Callers, Rename(c)
  PROVE  PlaceInv'
<1>1. /\ tally \in [Options -> Nat] /\ place \in [Callers -> Nat]
      /\ node \in [Callers -> Nodes]
  BY DEF IInv, TypeOK
<1>2. /\ UNCHANGED <<node, pick, bucket>>
      /\ tally' = ToSave(c) /\ node[c] \in {"vote", "reset"}
      /\ count[c] = ToSave(c)
  BY DEF Rename, dialplan, IInv, SaveInv
<1>3. CASE node[c] = "reset"
  <2>1. \A d \in Callers : place'[d] = 0
    BY <1>3 DEF Rename
  <2>2. QED BY <2>1 DEF PlaceInv
<1>4. CASE node[c] = "vote"
  <2> DEFINE o == pick[c]
  <2>1. o \in Options
    BY <1>4 DEF IInv, LockInv
  <2>2. tally' = [tally EXCEPT ![o] = @ + 1]
    BY <1>2, <1>4 DEF ToSave
  <2>3. /\ tally'[o] = tally[o] + 1
        /\ \A i \in Options : i # o => tally'[i] = tally[i]
        /\ \A i \in Options : tally[i] \in Nat
    BY <1>1, <2>1, <2>2
  <2>4. place' = [place EXCEPT ![c] = tally[o] + 1]
    BY <1>2, <1>4, <2>3 DEF Rename
  <2>5. /\ place'[c] = tally[o] + 1
        /\ \A d \in Callers : d # c => place'[d] = place[d]
        /\ \A d \in Callers : place[d] \in Nat
    BY <1>1, <2>4
  <2>6. ASSUME NEW d \in Callers, place'[d] > 0
        PROVE  /\ pick'[d] \in Options /\ node'[d] \notin {"ballot", "empty"}
               /\ tally'[pick'[d]] >= place'[d]
    <3>1. CASE d = c
      BY <1>2, <1>4, <2>1, <2>3, <2>5, <3>1
    <3>2. CASE d # c
      <4>1. /\ pick[d] \in Options /\ node[d] \notin {"ballot", "empty"}
            /\ tally[pick[d]] >= place[d]
        BY <2>5, <2>6, <3>2 DEF PlaceInv
      <4>2. tally'[pick[d]] >= tally[pick[d]] /\ tally'[pick[d]] \in Nat
        BY <2>3, <4>1
      <4>3. QED BY <1>2, <2>3, <2>5, <3>2, <4>1, <4>2
    <3>3. QED BY <3>1, <3>2
  <2>7. \A d \in Callers : d # c /\ pick[d] = o => place[d] <= tally[o]
    BY <2>1, <2>3, <2>5 DEF PlaceInv
  <2>8. ASSUME NEW d \in Callers, NEW e \in Callers,
               place'[d] > 0, place'[e] = place'[d], pick'[e] = pick'[d]
        PROVE  d = e
    <3>1. CASE d # c /\ e # c
      BY <1>2, <2>5, <2>8, <3>1 DEF PlaceInv
    <3>2. CASE d = c /\ e # c
      BY <1>2, <2>3, <2>5, <2>1, <2>7, <2>8, <3>2
    <3>3. CASE d # c /\ e = c
      BY <1>2, <2>3, <2>5, <2>1, <2>7, <2>8, <3>3
    <3>4. QED BY <3>1, <3>2, <3>3
  <2>9. ASSUME NEW d \in Callers, ToldFirst(d)'
        PROVE  place'[d] \in {0, 1}
    <3>1. d # c /\ ToldFirst(d)
      BY <1>2, <1>4, <2>9 DEF ToldFirst
    <3>2. QED BY <2>5, <3>1 DEF PlaceInv
  <2>10. QED BY <2>6, <2>8, <2>9 DEF PlaceInv
<1>5. QED BY <1>2, <1>3, <1>4

\* "first" is the standing of an option with a single vote.
LEMMA FirstIsOne ==
  ASSUME NEW cnt, NEW o, Standing(cnt, o) = "first"
  PROVE  cnt[o] = 1
  BY DEF Standing

\* A caller asks for its standing when its vote, if it was cast, has been
\* counted: told "first", it had the first place or none.
LEMMA StatsPlaces ==
  ASSUME IInv, PlaceInv, NEW c \in Callers, cmd_stats(c)
  PROVE  PlaceInv'
<1>1. /\ UNCHANGED <<tally, node, pick, place>>
      /\ bucket' = [bucket EXCEPT ![c] = Standing(tally, pick[c])]
      /\ bucket \in [Callers -> Buckets \cup {""}] /\ place \in [Callers -> Nat]
  BY DEF cmd_stats, IInv, TypeOK
<1>2. ASSUME ToldFirst(c)' PROVE place[c] \in {0, 1}
  <2>1. tally[pick[c]] = 1
    BY <1>1, <1>2, FirstIsOne DEF ToldFirst
  <2>2. place[c] > 0 => tally[pick[c]] >= place[c]
    BY DEF PlaceInv
  <2>3. place[c] \in Nat
    BY <1>1
  <2>4. QED BY <2>1, <2>2, <2>3
<1>3. \A d \in Callers : d # c => (ToldFirst(d)' => ToldFirst(d))
  BY <1>1 DEF ToldFirst
<1>4. ASSUME NEW d \in Callers
      PROVE  node[d] \notin {"ballot", "empty"} \/ place'[d] = 0
  <2>1. place[d] \in Nat /\ place'[d] = place[d]
    BY <1>1
  <2>2. QED BY <2>1 DEF PlaceInv
<1>5. QED BY <1>1, <1>2, <1>3, <1>4, PlaceKept

\* Nobody has voted at the start.
LEMMA PlaceInit == Init => PlaceInv
<1> SUFFICES ASSUME Init PROVE PlaceInv
  OBVIOUS
<1>1. \A c \in Callers : place[c] = 0
  BY DEF Init
<1>2. QED BY <1>1 DEF PlaceInv

\* Every step keeps the history: only a rename gives a place.
LEMMA PlaceNext == IInv /\ PlaceInv /\ [Next]_vars => PlaceInv'
<1> SUFFICES ASSUME IInv, PlaceInv, [Next]_vars PROVE PlaceInv'
  OBVIOUS
<1>0. /\ node \in [Callers -> Nodes] /\ pick \in [Callers -> Options \cup {Nobody}]
      /\ bucket \in [Callers -> Buckets \cup {""}] /\ place \in [Callers -> Nat]
  BY DEF IInv, TypeOK
<1>1. ASSUME NEW c \in Callers, node[c] \in {"ballot", "empty"}
      PROVE  place[c] = 0
  <2>1. place[c] \in Nat
    BY <1>0
  <2>2. QED BY <1>1, <2>1 DEF PlaceInv
<1>2. CASE UNCHANGED <<tally, node, pick, bucket, place>>
  BY <1>1, <1>2, PlaceKept DEF ToldFirst
<1>3. ASSUME NEW c \in Callers, SurveyStart(c) PROVE PlaceInv'
  <2>1. tally' = tally /\ bucket' = bucket /\ place'[c] = 0
    BY <1>0, <1>3 DEF SurveyStart
  <2>2. \A d \in Callers : d # c =>
          node'[d] = node[d] /\ pick'[d] = pick[d] /\ place'[d] = place[d]
    BY <1>0, <1>3 DEF SurveyStart
  <2>3. QED BY <1>1, <2>1, <2>2, PlaceKept DEF ToldFirst
<1>4. ASSUME NEW c \in Callers, SurveyEvalEmpty(c) \/ \E o \in Options : SurveyEval(c, o)
      PROVE  PlaceInv'
  <2>1. tally' = tally /\ bucket' = bucket /\ place' = place /\ place[c] = 0
    BY <1>1, <1>4 DEF SurveyEvalEmpty, SurveyEval
  <2>2. \A d \in Callers : d # c => node'[d] = node[d] /\ pick'[d] = pick[d]
    BY <1>0, <1>4 DEF SurveyEvalEmpty, SurveyEval, System
  <2>3. QED BY <1>1, <2>1, <2>2, PlaceKept DEF ToldFirst
<1>5. ASSUME NEW c \in Callers, SurveyResult(c) PROVE PlaceInv'
  <2>1. /\ UNCHANGED <<tally, pick, place>>
        /\ node'[c] = "stats" /\ bucket'[c] = ""
        /\ \A d \in Callers : d # c => node'[d] = node[d] /\ bucket'[d] = bucket[d]
    BY <1>0, <1>5 DEF SurveyResult, System
  <2>2. QED BY <1>1, <2>1, PlaceKept DEF ToldFirst
<1>6. ASSUME NEW c \in Callers, SurveyStats(c) \/ ResetDialled(c) \/ ResetDone(c)
      PROVE  PlaceInv'
  <2>1. /\ UNCHANGED <<tally, pick, bucket, place>>
        /\ node[c] # "vote" /\ node'[c] \in {"menu", "reset"}
        /\ \A d \in Callers : d # c => node'[d] = node[d]
    BY <1>0, <1>6 DEF SurveyStats, ResetDialled, ResetDone, System
  <2>2. QED BY <1>1, <2>1, PlaceKept DEF ToldFirst
<1>7. ASSUME NEW c \in Callers,
             with_lock(c) \/ LoadToSave(c) \/ Append(c) \/ PrintTotal(c) \/ Die(c)
      PROVE  UNCHANGED <<tally, node, pick, bucket, place>>
  BY <1>7 DEF with_lock, LoadToSave, Append, PrintTotal, Die, dialplan
<1>8. CASE UNCHANGED vars
  BY <1>2, <1>8 DEF vars, dialplan
<1>9. QED
  BY <1>2, <1>3, <1>4, <1>5, <1>6, <1>7, <1>8, RenamePlaces, StatsPlaces
     DEF Next, Progress, bella_survey

\* The history of votes, for any number of calls and options.
LEMMA PlacesKept == Spec => [](IInv /\ PlaceInv)
<1>1. Init => IInv /\ PlaceInv
  BY SurveyInit, PlaceInit
<1>2. IInv /\ PlaceInv /\ [Next]_vars => (IInv /\ PlaceInv)'
  BY SurveyNext, PlaceNext
<1>3. QED BY <1>1, <1>2, PTL DEF Spec

\* Two callers who voted for the same option since the last reset are never
\* both told that they were its first.
THEOREM FirstForOne == Spec => []FirstIsFirst
<1>1. IInv /\ PlaceInv => FirstIsFirst
  <2> SUFFICES ASSUME IInv, PlaceInv PROVE FirstIsFirst
    OBVIOUS
  <2>1. \A c \in Callers : ToldFirst(c) => place[c] \in {0, 1}
    BY DEF PlaceInv
  <2>2. ASSUME NEW c \in Callers, NEW d \in Callers,
               ToldFirst(c), ToldFirst(d), pick[c] = pick[d], place[c] > 0, place[d] > 0
        PROVE  c = d
    <3>1. place[c] = 1 /\ place[d] = 1
      BY <2>1, <2>2
    <3>2. QED BY <2>2, <3>1 DEF PlaceInv
  <2>3. QED BY <2>1, <2>2 DEF FirstIsFirst
<1>2. QED BY <1>1, PlacesKept, PTL

\* No vote that a caller has been given a place for is ever lost, other than
\* by a reset.
THEOREM VotesStand == Spec => []OwnVoteCounts
<1>1. PlaceInv => OwnVoteCounts
  BY DEF PlaceInv, OwnVoteCounts
<1>2. QED BY <1>1, PlacesKept, PTL
=============================================================================
