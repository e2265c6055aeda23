------------------------ MODULE ListenSessionProofs ------------------------
(***************************************************************************)
(* A listening session is nothing new to the message store: all it does to *)
(* it are MessageStore's own steps, so what is proved there holds for any  *)
(* number of sessions beside any number of other calls.                    *)
(***************************************************************************)
EXTENDS ListenSession, MessageStoreProofs, FiniteSetTheorems, TLAPS

\* No listing is longer than the messages there are.
LEMMA ListingsAreShort ==
  ASSUME TypeOK, NEW S \in SUBSET live
  PROVE  Cardinality(S) \in 0..MaxMessages /\ IsFiniteSet(S)
<1>1. IsFiniteSet(Messages) /\ Cardinality(Messages) \in 0..MaxMessages
  BY FS_Interval, BoundsAreNumbers DEF Messages
<1>2. S \in SUBSET Messages
  BY DEF TypeOK
<1>3. IsFiniteSet(S) /\ Cardinality(S) <= Cardinality(Messages)
  BY <1>1, <1>2, FS_Subset
<1>4. Cardinality(S) \in Nat
  BY <1>3, FS_CardinalityType
<1> QED
  BY <1>1, <1>3, <1>4, BoundsAreNumbers

\* An index that resolves to a message is one that delete-all is called with.
LEMMA ResolvedIndexIsMessage ==
  ASSUME TypeOK, NEW i, resolve_all(i) # {}
  PROVE  i \in Messages
<1>1. PICK m \in live : Cardinality({n \in live : n >= m}) = i
  BY DEF resolve_all
<1> DEFINE S == {n \in live : n >= m}
<1>2. Cardinality(S) \in 0..MaxMessages /\ IsFiniteSet(S)
  BY ListingsAreShort
<1>3. m \in S
  BY DEF TypeOK, Messages
<1>4. Cardinality(S) # 0
  BY <1>2, <1>3, FS_EmptySet
<1> QED
  BY <1>1, <1>2, <1>4, BoundsAreNumbers DEF Messages

\* Each step of a session or of another call is a step of the store or leaves
\* it alone.
LEMMA SessionStepsAreStoreSteps ==
  ASSUME TypeOK, [LNext]_lvars
  PROVE  [Next]_vars
<1>1. CASE UNCHANGED lvars
  BY <1>1 DEF lvars
<1>2. ASSUME NEW c \in Listeners, ListenMessages(c) \/ Announce(c) \/ Resolve(c)
      PROVE  UNCHANGED vars
  BY <1>2 DEF ListenMessages, Announce, Resolve, Stay, Open
<1>3. ASSUME NEW c \in Listeners,
             \/ Previous(c) \/ Forward(c) \/ AutoAdvance(c) \/ OpenDrawer(c)
             \/ Replay(c) \/ Deleted(c) \/ DrawerOpen(c) \/ End(c)
      PROVE  UNCHANGED vars
  BY <1>3 DEF Previous, Forward, AutoAdvance, OpenDrawer, Replay, Deleted, DrawerOpen,
              End, Stay, Open
<1>4. ASSUME NEW c \in Listeners, NEW n \in {"play", "intro"}, Delete(c, n)
      PROVE  [Next]_vars
  <2>1. CASE resolve_all(idx[c]) = {}
    BY <1>4, <2>1 DEF Delete
  <2>2. CASE resolve_all(idx[c]) # {}
    <3>1. DeleteAll(c, idx[c])
      BY <1>4, <2>2 DEF Delete
    <3>2. idx[c] \in Messages /\ c \in Callers
      BY <2>2, ResolvedIndexIsMessage, ListenersAreCallers
    <3> QED
      BY <3>1, <3>2 DEF Next
  <2> QED
    BY <2>1, <2>2
<1>5. ASSUME NEW c \in Callers, InStore(c)
      PROVE  Next
  BY <1>5 DEF InStore, Next
<1> QED
  BY <1>1, <1>2, <1>3, <1>4, <1>5 DEF LNext, Session

\* With sessions, too, the store is well typed and conserved at every step.
LEMMA SessionInvariant == LSpec => [](TypeOK /\ Conserved)
<1>1. LInit => TypeOK /\ Conserved
  BY StoreInit DEF LInit
<1>2. TypeOK /\ Conserved /\ [LNext]_lvars => (TypeOK /\ Conserved)'
  BY SessionStepsAreStoreSteps, StoreNext
<1> QED
  BY <1>1, <1>2, PTL DEF LSpec

\* No message is lost, doubled or revived by callers who delete by an index
\* they counted in another listing, however many listen at a time.
THEOREM SessionsLoseNoMessage == LSpec => []Conserved
  BY SessionInvariant, PTL

\* Option 2 beside options 3 and the codes 000 and 003 is a behaviour of the
\* store.
THEOREM SessionImplementsStore == LSpec => Spec
<1>1. LInit => Init
  BY DEF LInit
<1>2. TypeOK /\ [LNext]_lvars => [Next]_vars
  BY SessionStepsAreStoreSteps
<1> QED
  BY <1>1, <1>2, SessionInvariant, PTL DEF LSpec, Spec

\* Sessions leave the guarantees of rotate alone: beside any number of them it
\* spares the window and erases for room only.
COROLLARY SessionsLeaveRotateAlone == LSpec => SparesWindow /\ ErasesForRoom
BY SessionImplementsStore, RotateSparesWindow, RotateErasesForRoom, PTL

\* Before the first, the message played last counts as newer than any.
LEMMA NoneYetAbove == NoneYet \in 1..NoneYet /\ 1..MaxMessages \subseteq 1..NoneYet
  BY BoundsAreNumbers DEF NoneYet

\* What the listing commands answer with: an index of a message, 0 past the
\* end, or 1.
LEMMA StepsAreIndices ==
  ASSUME LTypeOK, NEW c \in Listeners
  PROVE  /\ StepNext(c) \in 0..MaxMessages
         /\ StepPrev(c) \in {1} \cup 0..MaxMessages
         /\ drawer_start \in 0..MaxMessages
<1> USE BoundsAreNumbers
<1>1. cmd_count_all \in 0..MaxMessages
  BY ListingsAreShort DEF LTypeOK, cmd_count_all
<1>2. cmd_count \in 0..MaxMessages
  BY <1>1 DEF cmd_count
<1>3. idx[c] \in {1} \cup 0..MaxMessages
  BY DEF LTypeOK
<1> QED
  BY <1>1, <1>2, <1>3 DEF StepNext, StepPrev, drawer_start

\* A key press keeps the types of the session's variables.
LEMMA KeyTyped ==
  ASSUME LTypeOK, NEW c \in Listeners, NEW n, NEW k \in {"", "1", "2", "7", "9"},
         NEW m \in {"menu", "announce", "resolve", "play", "intro", "delete", "end"},
         NEW i \in {1} \cup 0..MaxMessages, Key(c, n, k, m, i),
         UNCHANGED drawer \/ Open(c), TypeOK'
  PROVE  LTypeOK'
<1>1. drawer' \in [Listeners -> BOOLEAN]
  BY DEF LTypeOK, Open
<1> QED
  BY <1>1 DEF LTypeOK, Key

\* Each step keeps the types.
LEMMA SessionStepTyped ==
  ASSUME LTypeOK, TypeOK', [LNext]_lvars
  PROVE  LTypeOK'
<1> USE BoundsAreNumbers
<1>0. 0 \in 0..MaxMessages
  OBVIOUS
<1>1. CASE UNCHANGED lvars
  BY <1>1 DEF lvars, session, LTypeOK
<1>2. ASSUME NEW c \in Listeners, ListenMessages(c)
      PROVE  LTypeOK'
  <2>1. last' \in [Listeners -> 1..NoneYet]
    BY <1>2, NoneYetAbove DEF ListenMessages, LTypeOK
  <2>2. drawer' \in [Listeners -> BOOLEAN] /\ thinned' \in [Listeners -> BOOLEAN]
    BY <1>2 DEF ListenMessages, LTypeOK
  <2>3. idx' \in [Listeners -> {1} \cup 0..MaxMessages]
    BY <1>2 DEF ListenMessages, LTypeOK
  <2>4. file' \in [Listeners -> 0..MaxMessages]
    BY <1>0, <1>2, Zenon DEF ListenMessages, LTypeOK
  <2>5. node' \in [Listeners -> {"menu", "announce", "resolve", "play", "intro",
                                "delete", "end"}]
    BY <1>2 DEF ListenMessages, LTypeOK
  <2>6. nav' \in [Listeners -> {"", "1", "2", "7", "9"}]
    BY <1>2 DEF ListenMessages, LTypeOK
  <2> QED
    BY <2>1, <2>2, <2>3, <2>4, <2>5, <2>6 DEF LTypeOK
<1>3. ASSUME NEW c \in Listeners, Resolve(c)
      PROVE  LTypeOK'
  <2>1. Resolved(c) \subseteq 1..MaxMessages
    BY DEF Resolved, resolve_all, LTypeOK, TypeOK, Messages
  <2>2. CASE /\ file' = [file EXCEPT ![c] = 0]
             /\ node' = [node EXCEPT ![c] = "end"]
             /\ UNCHANGED <<last, thinned>>
    <3>1. file' \in [Listeners -> 0..MaxMessages]
      BY <1>0, <2>2, Zenon DEF LTypeOK
    <3> QED
      BY <1>3, <2>2, <3>1 DEF Resolve, LTypeOK
  <2>3. ASSUME NEW f \in Resolved(c),
               /\ file' = [file EXCEPT ![c] = f]
               /\ node' = [node EXCEPT ![c] = "play"]
               /\ last' = [last EXCEPT ![c] = f]
               /\ thinned' = [thinned EXCEPT ![c] = FALSE]
        PROVE  LTypeOK'
    <3>1. f \in 0..MaxMessages /\ f \in 1..NoneYet
      BY <2>1, <2>3, NoneYetAbove DEF NoneYet
    <3>2. file' \in [Listeners -> 0..MaxMessages] /\ last' \in [Listeners -> 1..NoneYet]
      BY <2>3, <3>1 DEF LTypeOK
    <3>3. thinned' \in [Listeners -> BOOLEAN]
      BY <2>3 DEF LTypeOK
    <3> QED
      BY <1>3, <2>3, <3>2, <3>3 DEF Resolve, LTypeOK
  <2> QED
    BY <1>3, <2>2, <2>3 DEF Resolve
<1>4. ASSUME NEW c \in Listeners,
             \/ Announce(c) \/ Previous(c) \/ Forward(c) \/ AutoAdvance(c)
             \/ OpenDrawer(c) \/ Replay(c) \/ Deleted(c) \/ DrawerOpen(c) \/ End(c)
             \/ \E n \in {"play", "intro"} : Delete(c, n)
      PROVE  LTypeOK'
  <2>1. /\ StepNext(c) \in {1} \cup 0..MaxMessages
        /\ StepPrev(c) \in {1} \cup 0..MaxMessages
        /\ drawer_start \in {1} \cup 0..MaxMessages
    BY StepsAreIndices
  <2>2. idx[c] \in {1} \cup 0..MaxMessages /\ nav[c] \in {"", "1", "2", "7", "9"}
    BY DEF LTypeOK
  <2>3. CASE Announce(c)
    BY <2>2, <2>3, KeyTyped DEF Announce, Stay
  <2>4. CASE Previous(c) \/ Forward(c) \/ AutoAdvance(c)
    BY <2>1, <2>4, KeyTyped DEF Previous, Forward, AutoAdvance, Stay
  <2>5. CASE OpenDrawer(c) \/ Replay(c)
    BY <2>2, <2>5, KeyTyped DEF OpenDrawer, Replay, Stay
  <2>6. CASE Deleted(c) \/ DrawerOpen(c)
    BY <2>1, <2>2, <2>6, KeyTyped DEF Deleted, DrawerOpen, Stay
  <2>7. CASE End(c)
    BY <2>1, <2>2, <2>7, KeyTyped DEF End, Stay
  <2>8. CASE \E n \in {"play", "intro"} : Delete(c, n)
    BY <2>2, <2>8, KeyTyped DEF Delete
  <2> QED
    BY <1>4, <2>3, <2>4, <2>5, <2>6, <2>7, <2>8
<1>5. ASSUME NEW c \in Callers, InStore(c)
      PROVE  LTypeOK'
  BY <1>5 DEF InStore, LTypeOK, session
<1> QED
  BY <1>1, <1>2, <1>3, <1>4, <1>5 DEF LNext, Session

\* Every variable of a session keeps its type; in particular no index ever
\* points past the messages there can be.
THEOREM SessionTyped == LSpec => []LTypeOK
<1>1. LInit /\ TypeOK => LTypeOK
  <2>1. 0 \in 0..MaxMessages /\ 0 \in {1} \cup 0..MaxMessages
    BY BoundsAreNumbers
  <2>2. LInit => last \in [Listeners -> 1..NoneYet]
    BY NoneYetAbove DEF LInit
  <2> QED
    BY <2>1, <2>2 DEF LInit, LTypeOK
<1>2. TypeOK' /\ LTypeOK /\ [LNext]_lvars => LTypeOK'
  BY SessionStepTyped
<1> QED
  BY <1>1, <1>2, SessionInvariant, PTL DEF LSpec

-----------------------------------------------------------------------------
(* Indices and the messages they have passed.                              *)

\* Sets of live messages, and their sizes.
LEMMA LiveSets ==
  ASSUME TypeOK, NEW S \in SUBSET live
  PROVE  IsFiniteSet(S) /\ Cardinality(S) \in Nat
BY ListingsAreShort, BoundsAreNumbers

\* Messages that one can tell from one another by their names.
LEMMA NamesAreNumbers == TypeOK => live \subseteq Nat
BY BoundsAreNumbers DEF TypeOK, Messages

\* Above a message that is resolved from index i are i - 1 live messages.
LEMMA AboveResolved ==
  ASSUME TypeOK, NEW i, NEW f \in resolve_all(i)
  PROVE  /\ f \in live /\ i \in Nat
         /\ Cardinality({n \in live : n > f}) = i - 1
<1> DEFINE From == {n \in live : n >= f}
           Above == {n \in live : n > f}
<1>1. f \in live /\ Cardinality(From) = i
  BY DEF resolve_all
<1>2. IsFiniteSet(From) /\ Cardinality(From) \in Nat
  BY LiveSets
<1>3. Above = From \ {f} /\ f \in From
  BY <1>1, NamesAreNumbers
<1>4. Cardinality(Above) = Cardinality(From) - 1
  BY <1>2, <1>3, FS_RemoveElement
<1> QED
  BY <1>1, <1>2, <1>4

\* An index resolves to one message.
LEMMA ResolvedIsOne ==
  ASSUME TypeOK, NEW i, NEW f \in resolve_all(i), NEW g \in resolve_all(i)
  PROVE  f = g
<1>1. SUFFICES ASSUME NEW a \in resolve_all(i), NEW b \in resolve_all(i), a < b
               PROVE  FALSE
  <2>1. f \in Nat /\ g \in Nat
    BY AboveResolved, NamesAreNumbers
  <2> QED
    BY <1>1, <2>1
<1> DEFINE A == {n \in live : n > a}
           B == {n \in live : n > b}
<1>2. a \in Nat /\ b \in Nat /\ b \in live /\ \A n \in live : n \in Nat
  BY AboveResolved, NamesAreNumbers
<1>3. B \in SUBSET A /\ b \in A /\ b \notin B
  <2>1. \A n \in live : n > b => n > a
    BY <1>1, <1>2
  <2>2. b > a /\ ~(b > b)
    BY <1>1, <1>2
  <2> QED
    BY <1>2, <2>1, <2>2
<1>4. Cardinality(A) = Cardinality(B)
  <2>1. Cardinality(A) = i - 1
    BY AboveResolved
  <2>2. Cardinality(B) = i - 1
    BY AboveResolved
  <2> QED
    BY <2>1, <2>2
<1>5. IsFiniteSet(A)
  BY LiveSets
<1> QED
  BY <1>3, <1>4, <1>5, FS_Subset

\* An index that is not more than one ahead of the messages from l up resolves
\* to none that leaves another live one between.
LEMMA NoneBetween ==
  ASSUME TypeOK, NEW l \in Nat, NEW i, NEW f \in resolve_all(i),
         i <= Cardinality({m \in live : m >= l}) + 1
  PROVE  ~\E m \in live : f < m /\ m < l
<1> SUFFICES ASSUME NEW m \in live, f < m, m < l PROVE FALSE
  OBVIOUS
<1> DEFINE A == {n \in live : n >= l}
           B == {n \in live : n > f}
<1>1. f \in live /\ i \in Nat /\ Cardinality(B) = i - 1 /\ \A n \in live : n \in Nat
  BY AboveResolved, NamesAreNumbers
<1>2. IsFiniteSet(A) /\ Cardinality(A) \in Nat /\ IsFiniteSet(B)
  BY LiveSets
<1>3. m \notin A /\ (A \cup {m}) \in SUBSET B
  <2>1. \A n \in live : n >= l => n > f
    BY <1>1
  <2>2. m > f /\ ~(m >= l)
    BY <1>1
  <2> QED
    BY <2>1, <2>2
<1>4. Cardinality(A \cup {m}) = Cardinality(A) + 1
  BY <1>2, <1>3, FS_AddElement
<1>5. Cardinality(A \cup {m}) <= Cardinality(B)
  BY <1>2, <1>3, FS_Subset
<1> QED
  BY <1>1, <1>2, <1>4, <1>5

\* An index that is not ahead of the messages from l up resolves to none below.
LEMMA NoneBelow ==
  ASSUME TypeOK, NEW l \in Nat, NEW i, NEW f \in resolve_all(i),
         i <= Cardinality({m \in live : m >= l})
  PROVE  f >= l
<1> DEFINE A == {n \in live : n >= l}
           B == {n \in live : n > f}
<1>1. f \in live /\ i \in Nat /\ Cardinality(B) = i - 1 /\ \A n \in live : n \in Nat
  BY AboveResolved, NamesAreNumbers
<1> SUFFICES ASSUME f < l PROVE FALSE
  BY <1>1
<1>2. IsFiniteSet(A) /\ Cardinality(A) \in Nat /\ IsFiniteSet(B)
  BY LiveSets
<1>3. A \in SUBSET B
  <2>1. \A n \in live : n >= l => n > f
    BY <1>1
  <2> QED
    BY <2>1
<1>4. Cardinality(A) <= Cardinality(B)
  BY <1>2, <1>3, FS_Subset
<1> QED
  BY <1>1, <1>2, <1>4

\* The messages a session has passed are some of the live ones; when it deletes
\* none, they are those from the one played last up.
LEMMA PassedSets ==
  ASSUME TypeOK, NEW c \in Listeners
  PROVE  /\ Passed(c) \in SUBSET live
         /\ IsFiniteSet(Passed(c)) /\ Cardinality(Passed(c)) \in Nat
         /\ pc[c] = "idle" => Passed(c) = {m \in live : m >= last[c]}
<1>1. Passed(c) \in SUBSET live
  BY DEF Passed
<1> QED
  BY <1>1, LiveSets DEF Passed, Going

\* The numbers a session compares.
LEMMA SessionNumbers ==
  ASSUME LTypeOK, NEW c \in Listeners
  PROVE  /\ idx[c] \in Nat /\ last[c] \in Nat /\ file[c] \in Nat /\ latest \in Nat
         /\ PLAYBACK_LIMIT \in Nat
<1>1. PLAYBACK_LIMIT \in Nat /\ MaxMessages \in Nat
  BY BoundsAreNumbers
<1>2. idx[c] \in {1} \cup 0..MaxMessages /\ file[c] \in 0..MaxMessages
  BY DEF LTypeOK
<1>3. last[c] \in 1..(MaxMessages + 1) /\ latest \in 0..MaxMessages
  BY DEF LTypeOK, TypeOK, NoneYet
<1> QED
  BY <1>1, <1>2, <1>3

\* What others do to the store leaves a session's index where it was in the
\* listing, or moves it to newer messages.
LEMMA OthersKeepIndex ==
  ASSUME LTypeOK, TypeOK', NEW d \in Listeners, IndexOK(d),
         node'[d] = node[d], drawer'[d] = drawer[d], idx'[d] = idx[d],
         file'[d] = file[d], last'[d] = last[d],
         pc'[d] = pc[d], todo'[d] = todo[d],
         latest' \in Nat, latest' >= latest,
         \A m \in live' \ live : m > latest,
         ~thinned'[d] => ~thinned[d] /\ \A m \in live \ live' : m < last[d]
  PROVE  IndexOK(d)'
<1>1. latest \in Nat /\ last[d] \in Nat /\ live \subseteq Messages /\ TypeOK
  BY SessionNumbers DEF LTypeOK, TypeOK
<1>2. \A m \in live \cup live' : m \in Nat
  BY <1>1, BoundsAreNumbers DEF TypeOK, Messages
<1>3. /\ pc'[d] = "idle" \/ (pc'[d] = "move" /\ node'[d] = "delete")
      /\ node'[d] \in {"intro", "delete"} => drawer'[d]
      /\ node'[d] = "play" => file'[d] = last'[d] /\ idx'[d] >= 1
      /\ node'[d] = "play" \/ idx'[d] = 0 => last'[d] <= latest'
  BY <1>1 DEF IndexOK
<1>4. ASSUME ~thinned'[d]
      PROVE  /\ idx'[d] <= Cardinality(Passed(d)') + 1
             /\ node'[d] = "play" => idx'[d] <= Cardinality(Passed(d)')
             /\ AtEnd(d)' => Cardinality(Passed(d)') >= PLAYBACK_LIMIT
                             \/ Passed(d)' = live'
  <2>1. ~thinned[d] /\ \A m \in live \ live' : m < last[d]
    BY <1>4
  <2>2. Passed(d)' = {m \in live' : m >= last[d]} \ Going(d)
    BY DEF Passed, Going
  <2>3. Passed(d) \in SUBSET Passed(d)'
    <3>1. \A m \in live : m >= last[d] => m \in live'
      BY <1>1, <1>2, <2>1
    <3> QED
      BY <2>2, <3>1 DEF Passed
  <2>4. /\ IsFiniteSet(Passed(d)') /\ Cardinality(Passed(d)') \in Nat
        /\ IsFiniteSet(Passed(d)) /\ Cardinality(Passed(d)) \in Nat
    <3>1. Passed(d)' \in SUBSET Messages
      BY <2>2 DEF TypeOK
    <3> QED
      BY <1>1, <3>1, PassedSets, MessagesAreFinite, FS_CardinalityType
  <2>5. Cardinality(Passed(d)) <= Cardinality(Passed(d)')
    BY <2>3, <2>4, FS_Subset
  <2>6. /\ idx[d] <= Cardinality(Passed(d)) + 1
        /\ node[d] = "play" => idx[d] <= Cardinality(Passed(d))
        /\ AtEnd(d) => Cardinality(Passed(d)) >= PLAYBACK_LIMIT \/ Passed(d) = live
    BY <2>1 DEF IndexOK
  <2>7. idx[d] \in Nat /\ PLAYBACK_LIMIT \in Nat
    BY SessionNumbers
  <2>8. ASSUME AtEnd(d), Passed(d) = live
        PROVE  Passed(d)' = live'
    <3>1. Going(d) = {} /\ last[d] <= latest
      BY <2>8 DEF AtEnd, IndexOK, Going
    <3>2. \A m \in live : m >= last[d]
      BY <2>8 DEF Passed
    <3>3. \A m \in live' : m >= last[d]
      <4>1. \A m \in live' \ live : m >= last[d]
        BY <1>1, <1>2, <3>1
      <4> QED
        BY <3>2, <4>1
    <3> QED
      BY <2>2, <3>1, <3>3
  <2>9. AtEnd(d)' => AtEnd(d)
    BY DEF AtEnd
  <2> QED
    BY <2>4, <2>5, <2>6, <2>7, <2>8, <2>9
<1> QED
  BY <1>3, <1>4 DEF IndexOK

\* A session that deletes has passed what it moves before and after.
LEMMA MoveKeepsIndex ==
  ASSUME LTypeOK, NEW c \in Listeners, IndexOK(c), Move(c),
         UNCHANGED session, UNCHANGED last, thinned'[c] = thinned[c]
  PROVE  IndexOK(c)'
<1>1. c \in Callers /\ pc[c] = "move" /\ node[c] = "delete"
  BY ListenersAreCallers DEF Move, IndexOK
<1>2. PICK f \in First(todo[c]) :
        /\ live' = live \ {f}
        /\ todo' = [todo EXCEPT ![c] = @ \ {f}]
        /\ Goto(c, IF todo[c] = {f} THEN "idle" ELSE "move")
  BY DEF Move
<1>3. f \in todo[c]
  BY FirstIsListed
<1>4. /\ todo'[c] = todo[c] \ {f}
      /\ pc'[c] = IF todo[c] = {f} THEN "idle" ELSE "move"
  BY <1>1, <1>2 DEF Goto, LTypeOK, TypeOK
<1>5. Passed(c)' = Passed(c)
  <2>1. Passed(c) = {m \in live : m >= last[c]} \ todo[c]
    BY <1>1 DEF Passed, Going
  <2>2. Going(c)' = todo[c] \ {f}
    BY <1>4 DEF Going
  <2>3. Passed(c)' = {m \in live' : m >= last[c]} \ Going(c)'
    BY DEF Passed
  <2> QED
    BY <1>2, <1>3, <2>1, <2>2, <2>3
<1>6. latest' = latest /\ ~AtEnd(c)'
  BY <1>1 DEF Move, AtEnd, session
<1> QED
  BY <1>1, <1>4, <1>5, <1>6 DEF IndexOK, session

\* A key press that goes on to an index the session has reached.
LEMMA KeyKeepsIndex ==
  ASSUME LTypeOK, NEW c \in Listeners, IndexOK(c),
         NEW n, NEW k, NEW m, NEW i, Key(c, n, k, m, i), UNCHANGED vars,
         m # "play",
         m \in {"intro", "delete"} => drawer'[c],
         i = 0 => last[c] <= latest,
         ~thinned[c] =>
           /\ i <= Cardinality(Passed(c)) + 1
           /\ i = 0 /\ ~drawer'[c] /\ m \in {"announce", "resolve", "end"} =>
                Cardinality(Passed(c)) >= PLAYBACK_LIMIT \/ Passed(c) = live
  PROVE  IndexOK(c)'
<1>1. node'[c] = m /\ idx'[c] = i /\ UNCHANGED <<file, last, thinned>>
  BY DEF Key, LTypeOK
<1>2. pc'[c] = "idle" /\ live' = live /\ latest' = latest
  BY DEF Key, vars, store, calls
<1>3. Passed(c)' = Passed(c)
  BY <1>1 DEF Passed, Going, vars, store, calls
<1>4. AtEnd(c)' => i = 0 /\ ~drawer'[c] /\ m \in {"announce", "resolve", "end"}
  BY <1>1 DEF AtEnd
<1> QED
  BY <1>1, <1>2, <1>3, <1>4 DEF IndexOK

\* One step on or back, and into the drawer, is at most one past what has been
\* passed; off the end of the window, a windowful or all messages have been.
LEMMA StepsReach ==
  ASSUME LTypeOK, NEW c \in Listeners, IndexOK(c), ~thinned[c]
  PROVE  /\ StepPrev(c) <= Cardinality(Passed(c)) + 1
         /\ node[c] = "play" => StepNext(c) <= Cardinality(Passed(c)) + 1
         /\ node[c] = "play" /\ StepNext(c) = 0 /\ ~drawer[c] =>
              Cardinality(Passed(c)) >= PLAYBACK_LIMIT \/ Passed(c) = live
         /\ AtEnd(c) => drawer_start <= Cardinality(Passed(c)) + 1
<1> DEFINE p == Cardinality(Passed(c))
<1>1. /\ Passed(c) \in SUBSET live /\ p \in Nat
      /\ IsFiniteSet(live) /\ cmd_count_all \in Nat
  BY PassedSets, LiveSets DEF LTypeOK, cmd_count_all
<1>2. idx[c] \in Nat /\ PLAYBACK_LIMIT \in Nat
  BY SessionNumbers
<1>3. /\ idx[c] <= p + 1
      /\ node[c] = "play" => idx[c] <= p /\ idx[c] >= 1
      /\ AtEnd(c) => p >= PLAYBACK_LIMIT \/ Passed(c) = live
  BY DEF IndexOK
<1>4. p >= cmd_count_all => Passed(c) = live
  BY <1>1, FS_Subset DEF cmd_count_all
<1>5. Passed(c) = live => p = cmd_count_all
  BY DEF cmd_count_all
<1> HIDE DEF p
<1>6. StepPrev(c) <= p + 1
  BY <1>1, <1>2, <1>3 DEF StepPrev
<1>7. node[c] = "play" => StepNext(c) <= p + 1
  BY <1>1, <1>2, <1>3 DEF StepNext
<1>8. ASSUME node[c] = "play", StepNext(c) = 0, ~drawer[c]
      PROVE  p >= PLAYBACK_LIMIT \/ Passed(c) = live
  <2>1. ~(idx[c] < cmd_count)
    BY <1>2, <1>8 DEF StepNext
  <2>2. p >= PLAYBACK_LIMIT \/ p >= cmd_count_all
    BY <1>1, <1>2, <1>3, <1>8, <2>1 DEF cmd_count
  <2> QED
    BY <1>4, <2>2
<1>9. AtEnd(c) => drawer_start <= p + 1
  BY <1>1, <1>2, <1>3, <1>5 DEF drawer_start
<1> QED
  BY <1>6, <1>7, <1>8, <1>9 DEF p

\* Paging keeps the index.
LEMMA PagingKeepsIndex ==
  ASSUME LTypeOK, NEW c \in Listeners, IndexOK(c),
         \/ Announce(c) \/ Previous(c) \/ Forward(c) \/ AutoAdvance(c)
         \/ OpenDrawer(c) \/ Replay(c) \/ Deleted(c) \/ DrawerOpen(c) \/ End(c)
  PROVE  IndexOK(c)' \/ node'[c] = "menu"
<1> DEFINE p == Cardinality(Passed(c))
<1>1. idx[c] \in Nat /\ p \in Nat /\ PLAYBACK_LIMIT \in Nat
  BY SessionNumbers, PassedSets DEF LTypeOK
<1>2. /\ node[c] \in {"intro", "delete"} => drawer[c]
      /\ node[c] = "play" => idx[c] >= 1
      /\ node[c] = "play" \/ idx[c] = 0 => last[c] <= latest
      /\ ~thinned[c] => idx[c] <= p + 1
      /\ ~thinned[c] /\ AtEnd(c) => p >= PLAYBACK_LIMIT \/ Passed(c) = live
  BY DEF IndexOK
<1>3. Open(c) => drawer'[c] = TRUE
  BY DEF Open, LTypeOK
<1>4. ASSUME Announce(c)
      PROVE  IndexOK(c)'
  <2>1. ASSUME NEW k, Key(c, "announce", k, "resolve", idx[c]), Stay
        PROVE  IndexOK(c)'
    <3>1. node[c] = "announce" /\ UNCHANGED <<vars, drawer>>
      BY <2>1 DEF Key, Stay
    <3>2. idx[c] = 0 /\ ~drawer'[c] => AtEnd(c)
      BY <3>1 DEF AtEnd
    <3> QED
      BY <1>2, <2>1, <3>1, <3>2, KeyKeepsIndex
  <2>2. ASSUME idx[c] > 0, Key(c, "announce", "9", "intro", idx[c]), Open(c)
        PROVE  IndexOK(c)'
    <3>1. UNCHANGED vars /\ drawer'[c] /\ idx[c] # 0
      BY <1>1, <1>3, <2>2 DEF Open
    <3> QED
      BY <1>2, <2>2, <3>1, KeyKeepsIndex
  <2> QED
    BY <1>4, <2>1, <2>2 DEF Announce
<1>5. ASSUME Previous(c) \/ DrawerOpen(c)
      PROVE  IndexOK(c)'
  <2>1. UNCHANGED <<vars, drawer>>
    BY <1>5 DEF Previous, DrawerOpen, Stay
  <2>2. StepPrev(c) >= 1 /\ (~thinned[c] => StepPrev(c) <= p + 1)
    BY <1>1, StepsReach DEF StepPrev
  <2>3. ASSUME NEW n, Key(c, n, "2", "resolve", StepPrev(c))
        PROVE  IndexOK(c)'
    BY <2>1, <2>2, <2>3, KeyKeepsIndex
  <2>4. ASSUME NEW k, Key(c, "intro", k, "resolve", idx[c])
        PROVE  IndexOK(c)'
    <3>1. drawer'[c]
      BY <1>2, <2>1, <2>4 DEF Key
    <3> QED
      BY <1>2, <2>1, <2>4, <3>1, KeyKeepsIndex
  <2> QED
    BY <1>5, <2>3, <2>4 DEF Previous, DrawerOpen
<1>6. ASSUME Forward(c) \/ AutoAdvance(c)
      PROVE  IndexOK(c)'
  <2>1. UNCHANGED <<vars, drawer>> /\ node[c] = "play"
    BY <1>6 DEF Forward, AutoAdvance, Stay, Key
  <2>2. PICK k, m : m \in {"resolve", "announce"} /\ Key(c, "play", k, m, StepNext(c))
    BY <1>6 DEF Forward, AutoAdvance
  <2>3. ~thinned[c] =>
          /\ StepNext(c) <= p + 1
          /\ StepNext(c) = 0 /\ ~drawer[c] => p >= PLAYBACK_LIMIT \/ Passed(c) = live
    BY <2>1, StepsReach
  <2> QED
    BY <1>2, <2>1, <2>2, <2>3, KeyKeepsIndex
<1>7. ASSUME OpenDrawer(c) \/ Replay(c)
      PROVE  IndexOK(c)'
  <2>1. UNCHANGED vars /\ node[c] = "play"
    BY <1>7 DEF OpenDrawer, Replay, Stay, Open, Key
  <2>2. PICK k, m : /\ Key(c, "play", k, m, idx[c])
                    /\ m = "resolve" \/ (m = "intro" /\ drawer'[c])
    BY <1>3, <1>7 DEF OpenDrawer, Replay
  <2>3. idx[c] # 0
    BY <1>1, <1>2, <2>1
  <2> QED
    BY <1>2, <2>1, <2>2, <2>3, KeyKeepsIndex
<1>8. ASSUME Deleted(c)
      PROVE  IndexOK(c)'
  <2>1. UNCHANGED <<vars, drawer>> /\ node[c] = "delete"
    BY <1>8 DEF Deleted, Stay, Key
  <2> QED
    BY <1>2, <1>8, <2>1, KeyKeepsIndex DEF Deleted
<1>9. ASSUME End(c)
      PROVE  IndexOK(c)' \/ node'[c] = "menu"
  <2>1. CASE Key(c, "end", "", "menu", idx[c])
    BY <2>1 DEF Key, LTypeOK
  <2>2. ASSUME ~drawer[c], idx[c] = 0, Key(c, "end", "9", "intro", drawer_start), Open(c)
        PROVE  IndexOK(c)'
    <3>1. UNCHANGED vars /\ drawer'[c] /\ AtEnd(c)
      BY <1>3, <2>2 DEF Open, AtEnd, Key
    <3>2. ~thinned[c] => drawer_start <= p + 1
      BY <3>1, StepsReach
    <3> QED
      BY <1>2, <2>2, <3>1, <3>2, KeyKeepsIndex
  <2> QED
    BY <1>9, <2>1, <2>2 DEF End
<1> QED
  BY <1>4, <1>5, <1>6, <1>7, <1>8, <1>9

\* A message that is played is the last of those passed, and has the index.
LEMMA ResolveKeepsIndex ==
  ASSUME LTypeOK, Conserved, NEW c \in Listeners, IndexOK(c), Resolve(c)
  PROVE  IndexOK(c)'
<1>1. /\ node[c] = "resolve" /\ pc[c] = "idle"
      /\ pc'[c] = "idle" /\ todo'[c] = todo[c] /\ live' = live /\ latest' = latest
      /\ drawer' = drawer /\ idx' = idx
  BY DEF Resolve, IndexOK, vars, store, calls
<1>2. idx[c] \in Nat /\ latest \in Nat /\ TypeOK
  BY SessionNumbers DEF LTypeOK
<1>3. Passed(c)' = {m \in live : m >= last'[c]}
  BY <1>1 DEF Passed, Going
<1>4. CASE node' = [node EXCEPT ![c] = "end"] /\ UNCHANGED <<last, thinned>>
  <2>1. node'[c] = "end" /\ last'[c] = last[c] /\ thinned'[c] = thinned[c]
    BY <1>4 DEF LTypeOK
  <2>2. Passed(c)' = Passed(c)
    BY <1>1, <1>3, <2>1 DEF Passed, Going
  <2>3. AtEnd(c)' => AtEnd(c)
    BY <1>1 DEF AtEnd
  <2> QED
    BY <1>1, <2>1, <2>2, <2>3 DEF IndexOK
<1>5. ASSUME NEW f \in Resolved(c),
             file' = [file EXCEPT ![c] = f], node' = [node EXCEPT ![c] = "play"],
             last' = [last EXCEPT ![c] = f]
      PROVE  IndexOK(c)'
  <2>1. node'[c] = "play" /\ last'[c] = f /\ file'[c] = f
    BY <1>5 DEF LTypeOK
  <2>2. f \in live /\ Cardinality({m \in live : m >= f}) = idx[c]
    BY DEF Resolved, resolve_all
  <2>3. idx[c] \in Messages
    <3>1. f \in resolve_all(idx[c])
      BY DEF Resolved
    <3> QED
      BY <1>2, <3>1, ResolvedIndexIsMessage
  <2>4. f <= latest
    BY <1>2, <2>2 DEF Conserved
  <2>5. Passed(c)' = {m \in live : m >= f}
    BY <1>3, <2>1
  <2>6. Cardinality(Passed(c)') = idx[c]
    BY <2>2, <2>5
  <2>7. idx[c] >= 1 /\ ~AtEnd(c)'
    BY <2>1, <2>3, BoundsAreNumbers DEF Messages, AtEnd
  <2> QED
    BY <1>1, <1>2, <2>1, <2>4, <2>6, <2>7 DEF IndexOK
<1> QED
  BY <1>4, <1>5 DEF Resolve

\* A deletion takes at most one message out of those passed, and only if the
\* index has not run past them.
LEMMA DeleteKeepsIndex ==
  ASSUME LTypeOK, NEW c \in Listeners, IndexOK(c), NEW n \in {"play", "intro"},
         Delete(c, n)
  PROVE  IndexOK(c)'
<1>1. /\ Key(c, n, "7", "delete", idx[c]) /\ drawer' = drawer /\ drawer[c]
      /\ node[c] = n /\ pc[c] = "idle"
  BY DEF Delete, Key, IndexOK
<1>2. /\ node'[c] = "delete" /\ idx'[c] = idx[c] /\ last'[c] = last[c]
      /\ file'[c] = file[c] /\ thinned'[c] = thinned[c]
  BY <1>1 DEF Key, LTypeOK
<1>3. /\ idx[c] \in Nat /\ TypeOK /\ c \in Callers
      /\ last[c] \in Nat /\ \A m \in live : m \in Nat
  BY SessionNumbers, NamesAreNumbers, ListenersAreCallers DEF LTypeOK
<1>4. /\ Passed(c) = {m \in live : m >= last[c]}
      /\ IsFiniteSet(Passed(c)) /\ Cardinality(Passed(c)) \in Nat
  BY <1>1, <1>3, PassedSets
<1>5. CASE resolve_all(idx[c]) = {}
  <2>1. UNCHANGED vars
    BY <1>5 DEF Delete
  <2> QED
    BY <1>1, <1>3, <2>1, KeyKeepsIndex DEF IndexOK
<1>6. CASE resolve_all(idx[c]) # {}
  <2>1. PICK f : f \in resolve_all(idx[c])
    BY <1>6
  <2>2. resolve_all(idx[c]) = {f}
    BY <1>3, <2>1, ResolvedIsOne
  <2>3. MoveAside(c, {f})
    BY <1>6, <2>2 DEF Delete, DeleteAll
  <2>4. /\ pc'[c] = "move" /\ todo'[c] = {f} /\ live' = live /\ latest' = latest
    BY <1>3, <2>3 DEF MoveAside, Goto, TypeOK
  <2>5. Passed(c)' = Passed(c) \ {f}
    BY <1>2, <1>4, <2>4 DEF Passed, Going
  <2>6. ~thinned[c] => idx[c] <= Cardinality(Passed(c)') + 1
    <3>1. CASE f \notin Passed(c)
      BY <2>5, <3>1 DEF IndexOK
    <3>2. CASE f \in Passed(c)
      <4> DEFINE From == {m \in live : m >= f}
      <4>1. Cardinality(From) = idx[c] /\ f \in live
        BY <2>1 DEF resolve_all
      <4>2. \A m \in live : m >= f => m >= last[c]
        BY <1>3, <1>4, <3>2
      <4>3. From \in SUBSET Passed(c)
        BY <1>4, <4>2
      <4>4. idx[c] <= Cardinality(Passed(c))
        BY <1>4, <4>1, <4>3, FS_Subset
      <4>5. Cardinality(Passed(c)') = Cardinality(Passed(c)) - 1
        BY <1>4, <2>5, <3>2, FS_RemoveElement
      <4> QED
        BY <1>3, <1>4, <4>4, <4>5
    <3> QED
      BY <3>1, <3>2
  <2> QED
    BY <1>1, <1>2, <2>4, <2>6 DEF IndexOK, AtEnd
<1> QED
  BY <1>5, <1>6

\* A listing that begins has passed nothing and stands on the first.
LEMMA ListeningBegins ==
  ASSUME LTypeOK, NEW c \in Listeners, ListenMessages(c)
  PROVE  IndexOK(c)' \/ node'[c] = "menu"
<1>1. CASE cmd_count = 0
  BY <1>1 DEF ListenMessages, LTypeOK
<1>2. CASE cmd_count # 0
  <2>1. /\ node'[c] = "announce" /\ idx'[c] = 1 /\ pc'[c] = "idle"
    BY <1>2 DEF ListenMessages, LTypeOK, vars, calls
  <2>2. Passed(c)' \in SUBSET live
    BY DEF ListenMessages, Passed, vars, store
  <2>3. Cardinality(Passed(c)') \in Nat
    BY <2>2, LiveSets DEF LTypeOK
  <2> QED
    BY <2>1, <2>3 DEF IndexOK, AtEnd
<1> QED
  BY <1>1, <1>2

\* What a step of a session leaves alone of the others.
LEMMA SessionsApart ==
  ASSUME LTypeOK, NEW c \in Listeners, ListenMessages(c) \/ Session(c),
         NEW d \in Listeners, d # c
  PROVE  /\ node'[d] = node[d] /\ drawer'[d] = drawer[d] /\ idx'[d] = idx[d]
         /\ file'[d] = file[d] /\ last'[d] = last[d] /\ thinned'[d] = thinned[d]
         /\ pc'[d] = pc[d] /\ todo'[d] = todo[d]
         /\ live' = live /\ latest' = latest
<1>1. d \in Callers /\ c \in Callers
  BY ListenersAreCallers
<1>2. CASE ListenMessages(c)
  BY <1>2 DEF ListenMessages, LTypeOK, vars, store, calls
<1>3. CASE Resolve(c)
  <2>1. file'[d] = file[d] /\ node'[d] = node[d] /\ last'[d] = last[d]
        /\ thinned'[d] = thinned[d]
    BY <1>3 DEF Resolve, LTypeOK
  <2> QED
    BY <1>3, <2>1 DEF Resolve, vars, store, calls
<1>4. ASSUME NEW n, NEW k, NEW m, NEW i, Key(c, n, k, m, i), UNCHANGED drawer \/ Open(c)
      PROVE  /\ node'[d] = node[d] /\ drawer'[d] = drawer[d] /\ idx'[d] = idx[d]
             /\ file'[d] = file[d] /\ last'[d] = last[d] /\ thinned'[d] = thinned[d]
  BY <1>4 DEF Key, Open, LTypeOK
<1>5. CASE Announce(c) \/ Previous(c) \/ Forward(c) \/ AutoAdvance(c) \/ OpenDrawer(c)
           \/ Replay(c) \/ Deleted(c) \/ DrawerOpen(c) \/ End(c)
  <2>1. UNCHANGED vars
    BY <1>5 DEF Announce, Previous, Forward, AutoAdvance, OpenDrawer, Replay, Deleted,
                DrawerOpen, End, Stay, Open
  <2>2. \E n, k, m, i : Key(c, n, k, m, i) /\ (UNCHANGED drawer \/ Open(c))
    BY <1>5 DEF Announce, Previous, Forward, AutoAdvance, OpenDrawer, Replay, Deleted,
                DrawerOpen, End, Stay
  <2> QED
    BY <1>4, <2>1, <2>2 DEF vars, store, calls
<1>6. ASSUME NEW n \in {"play", "intro"}, Delete(c, n)
      PROVE  /\ pc'[d] = pc[d] /\ todo'[d] = todo[d]
             /\ live' = live /\ latest' = latest
             /\ Key(c, n, "7", "delete", idx[c]) /\ UNCHANGED drawer
  BY <1>1, <1>6 DEF Delete, DeleteAll, MoveAside, Goto, LTypeOK, TypeOK, vars, store, calls
<1> QED
  BY <1>2, <1>3, <1>4, <1>5, <1>6 DEF Session

\* What a step of another call does to the store: its messages, if it adds any,
\* are newer than all.
LEMMA OthersAddNewer ==
  ASSUME TypeOK, NEW c \in Callers, RecordBegins(c) \/ Archive(c) \/ Step(c)
  PROVE  /\ latest' \in Nat /\ latest' >= latest /\ \A m \in live' \ live : m > latest
         /\ \A d \in Callers : d # c => pc'[d] = pc[d] /\ todo'[d] = todo[d]
<1>1. latest \in Nat
  BY BoundsAreNumbers DEF TypeOK
<1>2. \/ RecordBegins(c) \/ RecordEnds(c) \/ Move(c)
      \/ \E S \in SUBSET live : MoveAside(c, S)
      \/ TestArchive(c) \/ ListArchive(c) \/ RmArchive(c) \/ ListFails(c)
      \/ TestLive(c) \/ Count(c) \/ ListLive(c) \/ RmLive(c)
  BY DEF Archive, Step, cmd_rotate
<1>3. (latest' = latest /\ live' \subseteq live) \/ RecordBegins(c)
  BY <1>2 DEF RecordEnds, Move, MoveAside, TestArchive, ListArchive, RmArchive, ListFails,
              TestLive, TestDisk, Count, ListLive, RmLive, store
<1>4. RecordBegins(c) => latest' = latest + 1 /\ live' = live \cup {latest + 1}
  BY DEF RecordBegins, NextName
<1>5. latest' \in Nat /\ latest' >= latest /\ \A m \in live' \ live : m > latest
  BY <1>1, <1>3, <1>4
<1> QED
  BY <1>2, <1>5, OneCallSteps

\* Every step keeps the indices of all sessions.
LEMMA IndexNext ==
  ASSUME LTypeOK, LTypeOK', Conserved, IndexInv, [LNext]_lvars
  PROVE  IndexInv'
<1> SUFFICES ASSUME NEW d \in Listeners, node'[d] # "menu" PROVE IndexOK(d)'
  BY DEF IndexInv
<1>0. TypeOK /\ TypeOK' /\ latest \in Nat /\ d \in Callers
  BY SessionNumbers, ListenersAreCallers DEF LTypeOK
<1>1. CASE UNCHANGED lvars
  <2>1. node[d] # "menu" /\ IndexOK(d)
    BY <1>1 DEF lvars, session, IndexInv
  <2> QED
    BY <1>0, <1>1, <2>1, OthersKeepIndex DEF lvars, session, vars, store, calls
<1>2. ASSUME NEW c \in Listeners, ListenMessages(c) \/ Session(c), c = d
      PROVE  IndexOK(d)'
  <2>1. CASE ListenMessages(d)
    BY <2>1, ListeningBegins
  <2>2. CASE Session(d)
    <3>1. node[d] # "menu"
      BY <2>2 DEF Session, Announce, Resolve, Previous, Forward, AutoAdvance, OpenDrawer,
                  Replay, Delete, Deleted, DrawerOpen, End, Key
    <3>2. IndexOK(d)
      BY <3>1 DEF IndexInv
    <3> QED
      BY <2>2, <3>2, PagingKeepsIndex, ResolveKeepsIndex, DeleteKeepsIndex DEF Session
  <2> QED
    BY <1>2, <2>1, <2>2
<1>3. ASSUME NEW c \in Listeners, ListenMessages(c) \/ Session(c), c # d
      PROVE  IndexOK(d)'
  <2>1. /\ node'[d] = node[d] /\ drawer'[d] = drawer[d] /\ idx'[d] = idx[d]
        /\ file'[d] = file[d] /\ last'[d] = last[d] /\ thinned'[d] = thinned[d]
        /\ pc'[d] = pc[d] /\ todo'[d] = todo[d]
        /\ live' = live /\ latest' = latest
    BY <1>3, SessionsApart
  <2>2. IndexOK(d)
    BY <2>1 DEF IndexInv
  <2> QED
    BY <1>0, <2>1, <2>2, OthersKeepIndex
<1>4. ASSUME NEW c \in Callers, InStore(c)
      PROVE  IndexOK(d)'
  <2>1. /\ UNCHANGED session /\ UNCHANGED last
        /\ thinned'[d] = (thinned[d] \/ (d # c /\ \E m \in live \ live' : m >= last[d]))
    BY <1>4 DEF InStore
  <2>2. IndexOK(d) /\ node[d] # "menu"
    BY <2>1 DEF session, IndexInv
  <2>3. RecordBegins(c) \/ Archive(c) \/ Step(c)
    BY <1>4 DEF InStore
  <2>4. CASE c = d
    <3>1. Step(d)
      BY <1>4, <2>2, <2>4 DEF InStore
    <3>2. Move(d)
      BY <2>2, <3>1 DEF IndexOK, Step, RecordEnds, cmd_rotate, TestArchive, TestLive, TestDisk,
                        ListArchive, RmArchive, ListFails, Count, ListLive, RmLive
    <3>3. thinned'[d] = thinned[d]
      BY <2>1, <2>4 DEF LTypeOK
    <3> QED
      BY <2>1, <2>2, <3>2, <3>3, MoveKeepsIndex
  <2>5. CASE c # d
    <3>1. /\ latest' \in Nat /\ latest' >= latest /\ \A m \in live' \ live : m > latest
          /\ pc'[d] = pc[d] /\ todo'[d] = todo[d]
      BY <1>0, <2>3, <2>5, OthersAddNewer
    <3>2. last[d] \in Nat /\ \A m \in live : m \in Nat
      BY <1>0, SessionNumbers, NamesAreNumbers
    <3>3. ~thinned'[d] => ~thinned[d] /\ \A m \in live \ live' : m < last[d]
      <4>1. ~thinned'[d] => ~thinned[d] /\ \A m \in live \ live' : ~(m >= last[d])
        BY <2>1, <2>5, Zenon
      <4>2. \A m \in live \ live' : ~(m >= last[d]) => m < last[d]
        BY <3>2
      <4> QED
        BY <4>1, <4>2, Zenon
    <3> QED
      BY <1>0, <2>1, <2>2, <3>1, <3>3, OthersKeepIndex DEF session
  <2> QED
    BY <2>4, <2>5
<1> QED
  BY <1>1, <1>2, <1>3, <1>4 DEF LNext

\* The index of a session never runs ahead of the messages it has passed, for
\* any number of sessions and of other calls.
LEMMA IndicesKept == LSpec => []IndexInv
<1>1. LInit => IndexInv
  BY DEF LInit, IndexInv
<1>2. LTypeOK /\ LTypeOK' /\ Conserved /\ IndexInv /\ [LNext]_lvars => IndexInv'
  BY IndexNext
<1> QED
  BY <1>1, <1>2, SessionTyped, SessionInvariant, PTL DEF LSpec

\* Paging misses no message (MESSAGE_RESOLVE, cmd_step and cmd_resolve list the
\* store anew each time), in any number of sessions, whatever other calls record,
\* as long as they take none away.
THEOREM PagingSkipsNone == LSpec => NoneSkipped
<1>1. ASSUME LTypeOK, IndexInv, NEW c \in Listeners, Resolve(c), ~thinned[c],
             node'[c] = "play"
      PROVE  ~\E m \in live : file'[c] < m /\ m < last[c]
  <2>1. IndexOK(c) /\ node[c] = "resolve"
    BY <1>1 DEF Resolve, IndexInv
  <2>2. pc[c] = "idle" /\ idx[c] <= Cardinality(Passed(c)) + 1
    BY <1>1, <2>1 DEF IndexOK
  <2>3. idx[c] <= Cardinality({m \in live : m >= last[c]}) + 1 /\ TypeOK
    BY <1>1, <2>2, PassedSets DEF LTypeOK
  <2>4. PICK f \in Resolved(c) : file' = [file EXCEPT ![c] = f]
    BY <1>1 DEF Resolve, LTypeOK
  <2>5. file'[c] \in resolve_all(idx[c])
    BY <1>1, <2>4 DEF Resolved, LTypeOK
  <2>6. last[c] \in Nat
    BY <1>1, SessionNumbers
  <2> QED
    BY <2>3, <2>5, <2>6, NoneBetween
<1>2. LTypeOK /\ IndexInv /\ [LNext]_lvars =>
        [\A c \in Listeners :
           Resolve(c) /\ ~thinned[c] /\ node'[c] = "play" =>
             ~\E m \in live : file'[c] < m /\ m < last[c]]_lvars
  BY <1>1
<1> QED
  BY <1>2, SessionTyped, IndicesKept, PTL DEF LSpec, NoneSkipped

\* The 7 of a caller who has heard a message deletes that one or a newer one
\* (DRAWER_DELETE calls delete-all with an index that others may have shifted).
THEOREM SevenDeletesNoOlder == LSpec => DeletesNoOlder
<1>1. ASSUME LTypeOK, IndexInv, NEW c \in Listeners, Delete(c, "play"), ~thinned[c],
             NEW m \in resolve_all(idx[c])
      PROVE  m >= file[c]
  <2>1. IndexOK(c) /\ node[c] = "play" /\ pc[c] = "idle"
    BY <1>1 DEF Delete, Key, IndexInv
  <2>2. idx[c] <= Cardinality(Passed(c)) /\ file[c] = last[c]
    BY <1>1, <2>1 DEF IndexOK
  <2>3. idx[c] <= Cardinality({n \in live : n >= last[c]}) /\ TypeOK
    BY <1>1, <2>1, <2>2, PassedSets DEF LTypeOK
  <2>4. last[c] \in Nat
    BY <1>1, SessionNumbers
  <2> QED
    BY <1>1, <2>2, <2>3, <2>4, NoneBelow
<1>2. LTypeOK /\ IndexInv /\ [LNext]_lvars =>
        [\A c \in Listeners :
           Delete(c, "play") /\ ~thinned[c] =>
             \A m \in resolve_all(idx[c]) : m >= file[c]]_lvars
  BY <1>1
<1> QED
  BY <1>2, SessionTyped, IndicesKept, PTL DEF LSpec, DeletesNoOlder
=============================================================================
