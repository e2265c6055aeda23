------------------------- MODULE MessageStoreProofs -------------------------
(***************************************************************************)
(* Proofs about the message store: no interleaving of calls loses, doubles *)
(* or revives a message, and rotates that run side by side spare the       *)
(* window and erase for room but for one message each, however many calls  *)
(* and messages there are.                                                 *)
(***************************************************************************)
EXTENDS MessageStore, FiniteSetTheorems, TLAPS

\* The first line of a listing is one of its lines.
LEMMA FirstIsListed == \A S : First(S) \subseteq S
  BY DEF First

\* Where a command goes keeps to the labels there are.
LEMMA GotoTyped ==
  ASSUME pc \in [Callers -> Rotating \cup {"idle", "record", "move"}],
         NEW c \in Callers, NEW l \in Rotating \cup {"idle", "record", "move"},
         Goto(c, l)
  PROVE  pc' \in [Callers -> Rotating \cup {"idle", "record", "move"}]
  BY DEF Goto

\* The store as it is found at the start is well typed and conserved.
LEMMA StoreInit == Init => TypeOK /\ Conserved
  BY BoundsAreNumbers DEF Init, TypeOK, Conserved, Messages

\* A recording that begins adds one name, the next, and it is live.
LEMMA RecordBeginsKeeps ==
  ASSUME TypeOK, Conserved, NEW c \in Callers, RecordBegins(c)
  PROVE  TypeOK' /\ Conserved'
<1> USE BoundsAreNumbers DEF Messages
<1>1. latest \in 0..MaxMessages /\ latest + 1 \in Messages
  BY DEF RecordBegins, TypeOK
<1>2. 1..(latest + 1) = (1..latest) \cup {latest + 1} /\ latest + 1 \notin 1..latest
  BY <1>1
<1>3. TypeOK'
  <2>1. pc' \in [Callers -> Rotating \cup {"idle", "record", "move"}]
    BY GotoTyped DEF RecordBegins, TypeOK
  <2>2. live' \subseteq Messages /\ todo' \in [Callers -> SUBSET Messages]
    BY <1>1 DEF RecordBegins, TypeOK, NextName
  <2>3. QED BY <1>1, <2>1, <2>2 DEF RecordBegins, TypeOK
<1>4. Conserved'
  BY <1>1, <1>2 DEF RecordBegins, Conserved, NextName
<1>5. QED BY <1>3, <1>4

\* A recording that ends stays where it is, or leaves the live messages for
\* the discarded ones.
LEMMA RecordEndsKeeps ==
  ASSUME TypeOK, Conserved, NEW c \in Callers, RecordEnds(c)
  PROVE  TypeOK' /\ Conserved'
<1>1. pc' \in [Callers -> Rotating \cup {"idle", "record", "move"}]
  BY GotoTyped DEF RecordEnds, TypeOK, Rotating
<1>2. CASE UNCHANGED <<live, discarded, cleared>>
  BY <1>1, <1>2 DEF RecordEnds, TypeOK, Conserved
<1>3. CASE /\ live' = live \ todo[c]
           /\ discarded' = discarded \cup (todo[c] \cap live)
           /\ Clear(todo[c] \cap live)
  <2>1. TypeOK'
    BY <1>1, <1>3 DEF RecordEnds, TypeOK, Clear
  <2>2. Conserved'
    BY <1>3 DEF RecordEnds, Conserved
  <2>3. QED BY <2>1, <2>2
<1>4. QED BY <1>2, <1>3 DEF RecordEnds

\* A test, a listing, a count or a failure of rotate changes no message.
LEMMA LooksKeep ==
  ASSUME TypeOK, Conserved, NEW c \in Callers,
         \/ TestArchive(c) \/ TestLive(c) \/ Count(c)
         \/ ListArchive(c) \/ ListLive(c) \/ ListFails(c)
  PROVE  TypeOK' /\ Conserved'
<1>1. UNCHANGED store /\ \E l \in Rotating \cup {"idle"} : Goto(c, l)
  BY DEF TestArchive, TestLive, TestDisk, Count, ListArchive, ListLive,
         ListFails, Return, Rotating
<1>2. pc' \in [Callers -> Rotating \cup {"idle", "record", "move"}]
  BY <1>1, GotoTyped DEF TypeOK
<1>3. todo' \in [Callers -> SUBSET Messages]
  <2>1. First(archived) \subseteq Messages /\ First(live) \subseteq Messages
    BY FirstIsListed DEF TypeOK
  <2>2. QED
    BY <2>1 DEF TestArchive, TestLive, TestDisk, Count, ListArchive, ListLive,
                ListFails, Return, TypeOK
<1>4. cleared' \in [Callers -> BOOLEAN]
  BY DEF TestArchive, TestLive, TestDisk, Count, ListArchive, ListLive,
         ListFails, Return, TypeOK
<1>5. QED BY <1>1, <1>2, <1>3, <1>4 DEF TypeOK, Conserved, store

\* What rotate removes from the archive or the live messages is erased.
LEMMA PruningKeeps ==
  ASSUME TypeOK, Conserved, NEW c \in Callers, RmArchive(c) \/ RmLive(c)
  PROVE  TypeOK' /\ Conserved'
<1>1. pc' \in [Callers -> Rotating \cup {"idle", "record", "move"}]
  BY GotoTyped DEF RmArchive, RmLive, TypeOK, Rotating
<1>2. CASE RmArchive(c)
  BY <1>1, <1>2 DEF RmArchive, TypeOK, Conserved
<1>3. CASE RmLive(c)
  BY <1>1, <1>3 DEF RmLive, TypeOK, Conserved
<1>4. QED BY <1>2, <1>3

\* Beginning to archive or to delete changes no message.
LEMMA MoveAsideKeeps ==
  ASSUME TypeOK, Conserved, NEW c \in Callers, NEW S \in SUBSET live, MoveAside(c, S)
  PROVE  TypeOK' /\ Conserved'
<1>1. pc' \in [Callers -> Rotating \cup {"idle", "record", "move"}]
  BY GotoTyped DEF MoveAside, TypeOK
<1>2. QED BY <1>1 DEF MoveAside, TypeOK, Conserved

\* A move takes to the archive what is still live and nothing else.
LEMMA MoveKeeps ==
  ASSUME TypeOK, Conserved, NEW c \in Callers, Move(c)
  PROVE  TypeOK' /\ Conserved'
<1>1. PICK f \in First(todo[c]) :
        /\ live' = live \ {f}
        /\ archived' = archived \cup Moved(f)
        /\ Clear(Moved(f))
        /\ todo' = [todo EXCEPT ![c] = @ \ {f}]
        /\ Goto(c, IF todo[c] = {f} THEN "idle" ELSE "move")
  BY DEF Move
<1>2. f \in Messages
  BY FirstIsListed DEF TypeOK
<1>3. pc' \in [Callers -> Rotating \cup {"idle", "record", "move"}]
  BY <1>1, GotoTyped DEF TypeOK
<1>4. TypeOK'
  BY <1>1, <1>2, <1>3 DEF Move, TypeOK, Moved, Clear
<1>5. Conserved'
  BY <1>1 DEF Move, Conserved, Moved
<1>6. QED BY <1>4, <1>5

\* Every step of every call keeps the store well typed and conserved.
LEMMA StoreNext == TypeOK /\ Conserved /\ [Next]_vars => TypeOK' /\ Conserved'
<1> SUFFICES ASSUME TypeOK, Conserved, [Next]_vars PROVE TypeOK' /\ Conserved'
  OBVIOUS
<1>1. CASE UNCHANGED vars
  BY <1>1 DEF vars, store, calls, TypeOK, Conserved
<1>2. ASSUME NEW c \in Callers, RecordBegins(c) PROVE TypeOK' /\ Conserved'
  BY <1>2, RecordBeginsKeeps
<1>3. ASSUME NEW c \in Callers, Archive(c) \/ \E i \in Messages : DeleteAll(c, i)
      PROVE  TypeOK' /\ Conserved'
  <2>1. \A i \in Messages : resolve_all(i) \subseteq live
    BY DEF resolve_all
  <2>2. QED BY <1>3, <2>1, MoveAsideKeeps DEF Archive, DeleteAll
<1>4. ASSUME NEW c \in Callers, Step(c) PROVE TypeOK' /\ Conserved'
  BY <1>4, RecordEndsKeeps, LooksKeep, PruningKeeps, MoveKeeps
     DEF Step, cmd_rotate
<1>5. QED BY <1>1, <1>2, <1>3, <1>4 DEF Next

\* Every variable keeps its type: the files and shells of bella-messages.
THEOREM StoreTyped == Spec => []TypeOK
  BY StoreInit, StoreNext, PTL DEF Spec

\* No message is lost, doubled or revived by calls that record, prune,
\* archive and delete side by side without a lock.
THEOREM NoMessageLost == Spec => []Conserved
  BY StoreInit, StoreNext, PTL DEF Spec

-----------------------------------------------------------------------------
(* What rotate promises to spare, counted: how many messages can go while  *)
(* a rotate that has looked at the disk is about to erase one.             *)

\* The step of one call, by what it does.
LEMMA StoreSteps ==
  ASSUME Next
  PROVE  \E c \in Callers :
           \/ RecordBegins(c) \/ RecordEnds(c) \/ Move(c)
           \/ \E S \in SUBSET live : MoveAside(c, S)
           \/ TestArchive(c) \/ ListArchive(c) \/ RmArchive(c) \/ ListFails(c)
           \/ TestLive(c) \/ Count(c) \/ ListLive(c) \/ RmLive(c)
<1>1. \A i : resolve_all(i) \in SUBSET live
  BY DEF resolve_all
<1>2. QED BY <1>1 DEF Next, Step, cmd_rotate, Archive, DeleteAll

\* The first line of a listing is one line, and the oldest of them.
LEMMA FirstIsOldest ==
  ASSUME NEW S \in SUBSET Nat
  PROVE  /\ \A f, g \in First(S) : f = g
         /\ \A f \in First(S), m \in S : f <= m
<1>1. \A f, g \in First(S) : f \in Nat /\ g \in Nat /\ f <= g /\ g <= f
  BY DEF First
<1>2. QED BY <1>1 DEF First

\* Messages are finitely many.
LEMMA MessagesAreFinite == \A S \in SUBSET Messages : IsFiniteSet(S)
<1>1. IsFiniteSet(Messages)
  BY FS_Interval, BoundsAreNumbers DEF Messages
<1>2. QED BY <1>1, FS_Subset

\* Messages U, and the calls outside R, are more than n together.
Enough(U, R, n) == Cardinality(U) + Cardinality(Callers \ R) > n

\* They stay so when messages come and calls leave R.
LEMMA EnoughGrows ==
  ASSUME NEW U, NEW V, IsFiniteSet(V), U \subseteq V,
         NEW R, NEW Q, Q \subseteq R, NEW n \in Nat, Enough(U, R, n)
  PROVE  Enough(V, Q, n)
<1>1. IsFiniteSet(U) /\ Cardinality(U) <= Cardinality(V)
  BY FS_Subset
<1>2. /\ IsFiniteSet(Callers \ Q) /\ IsFiniteSet(Callers \ R)
      /\ Cardinality(Callers \ R) <= Cardinality(Callers \ Q)
  <2>1. IsFiniteSet(Callers \ Q)
    BY CallersAreFinite, FS_Difference
  <2>2. (Callers \ R) \in SUBSET (Callers \ Q)
    OBVIOUS
  <2>3. QED BY <2>1, <2>2, FS_Subset
<1>3. /\ Cardinality(U) \in Nat /\ Cardinality(V) \in Nat
      /\ Cardinality(Callers \ R) \in Nat /\ Cardinality(Callers \ Q) \in Nat
  BY <1>1, <1>2, FS_CardinalityType
<1>4. QED BY <1>1, <1>2, <1>3 DEF Enough

\* They stay so when one message goes by a call that leaves R.
LEMMA EnoughStays ==
  ASSUME NEW U, IsFiniteSet(U), NEW f, NEW V, V = U \ {f} \/ V = U,
         NEW R, R \subseteq Callers, NEW c \in R, NEW n \in Nat, Enough(U, R, n)
  PROVE  Enough(V, R \ {c}, n)
<1>1. /\ IsFiniteSet(V) /\ Cardinality(V) \in Nat /\ Cardinality(U) \in Nat
      /\ Cardinality(V) >= Cardinality(U) - 1
  <2>1. Cardinality(U) \in Nat
    BY FS_CardinalityType
  <2>2. CASE V = U
    BY <2>1, <2>2
  <2>3. CASE V = U \ {f}
    <3>1. /\ IsFiniteSet(V)
          /\ Cardinality(V) = IF f \in U THEN Cardinality(U) - 1 ELSE Cardinality(U)
      BY <2>3, FS_RemoveElement
    <3>2. QED BY <2>1, <3>1, FS_CardinalityType
  <2>4. QED BY <2>2, <2>3
<1>2. /\ Cardinality(Callers \ (R \ {c})) = Cardinality(Callers \ R) + 1
      /\ Cardinality(Callers \ R) \in Nat
  <2>1. IsFiniteSet(Callers \ R)
    BY CallersAreFinite, FS_Difference
  <2>2. Callers \ (R \ {c}) = (Callers \ R) \cup {c} /\ c \notin Callers \ R
    OBVIOUS
  <2>3. QED BY <2>1, <2>2, FS_AddElement, FS_CardinalityType
<1>3. QED BY <1>1, <1>2 DEF Enough

\* Outside R there are at most the others of any call in R.
LEMMA OthersAreEnough ==
  ASSUME NEW R, R \subseteq Callers, NEW c \in R
  PROVE  /\ Cardinality(Callers \ R) <= Others
         /\ Cardinality(Callers \ R) \in Nat /\ Others \in Nat
<1>1. /\ IsFiniteSet(Callers \ {c})
      /\ Cardinality(Callers \ {c}) = Others
  BY CallersAreFinite, FS_RemoveElement DEF Others
<1>2. (Callers \ R) \in SUBSET (Callers \ {c})
  OBVIOUS
<1>3. /\ IsFiniteSet(Callers \ R)
      /\ Cardinality(Callers \ R) <= Cardinality(Callers \ {c})
  BY <1>1, <1>2, FS_Subset
<1>4. QED BY <1>1, <1>3, FS_CardinalityType

-----------------------------------------------------------------------------
(* What a rotate has listed.                                               *)

\* A step that lists nothing new and stores at most the next recording keeps
\* what has been listed in its place.
LEMMA ListedKept ==
  ASSUME TypeOK, ListedInv, latest' \in {latest, latest + 1},
         live' \subseteq live \cup {latest + 1},
         \A c \in Callers : pc'[c] \in {"rmArchive", "rmLive"} =>
           pc'[c] = pc[c] /\ todo'[c] = todo[c]
  PROVE  ListedInv'
<1> SUFFICES ASSUME NEW c \in Callers, pc'[c] \in {"rmArchive", "rmLive"}
             PROVE  /\ \A f, g \in todo'[c] : f = g
                    /\ todo'[c] \subseteq 1..latest'
                    /\ pc'[c] = "rmArchive" => todo'[c] \cap live' = {}
                    /\ pc'[c] = "rmLive" => \A f \in todo'[c], m \in live' : f <= m
  BY DEF ListedInv
<1>1. pc'[c] = pc[c] /\ todo'[c] = todo[c] /\ latest \in Nat
  BY BoundsAreNumbers DEF TypeOK
<1>2. /\ \A f, g \in todo[c] : f = g
      /\ todo[c] \subseteq 1..latest
      /\ pc[c] = "rmArchive" => todo[c] \cap live = {}
      /\ pc[c] = "rmLive" => \A f \in todo[c], m \in live : f <= m
  BY <1>1 DEF ListedInv
<1>3. \A f \in 1..latest : f # latest + 1 /\ f <= latest + 1 /\ f \in 1..latest'
  BY <1>1
<1>4. QED BY <1>1, <1>2, <1>3

\* A listing is the first line of what is there.
LEMMA ListedNew ==
  ASSUME TypeOK, Conserved, ListedInv, NEW c \in Callers,
         UNCHANGED <<live, archived, latest>>,
         pc' = [pc EXCEPT ![c] = pc'[c]], todo' = [todo EXCEPT ![c] = todo'[c]],
         \/ pc'[c] = "rmArchive" /\ todo'[c] = First(archived)
         \/ pc'[c] = "rmLive" /\ todo'[c] = First(live)
  PROVE  ListedInv'
<1>1. /\ live \subseteq 1..latest /\ archived \subseteq 1..latest
      /\ live \cap archived = {} /\ latest \in Nat
  BY BoundsAreNumbers DEF TypeOK, Conserved
<1>2. /\ live \in SUBSET Nat /\ archived \in SUBSET Nat
  BY <1>1
<1>3. /\ \A f, g \in todo'[c] : f = g
      /\ todo'[c] \subseteq 1..latest
      /\ pc'[c] = "rmArchive" => todo'[c] \cap live = {}
      /\ pc'[c] = "rmLive" => \A f \in todo'[c], m \in live : f <= m
  <2>1. CASE pc'[c] = "rmArchive" /\ todo'[c] = First(archived)
    <3>1. /\ First(archived) \subseteq archived
          /\ \A f, g \in First(archived) : f = g
      BY <1>2, FirstIsListed, FirstIsOldest
    <3>2. QED BY <1>1, <2>1, <3>1
  <2>2. CASE pc'[c] = "rmLive" /\ todo'[c] = First(live)
    <3>1. /\ First(live) \subseteq live
          /\ \A f, g \in First(live) : f = g
          /\ \A f \in First(live), m \in live : f <= m
      BY <1>2, FirstIsListed, FirstIsOldest
    <3>2. QED BY <1>1, <2>2, <3>1
  <2>3. QED BY <2>1, <2>2
<1>4. \A d \in Callers : d # c => pc'[d] = pc[d] /\ todo'[d] = todo[d]
  BY DEF TypeOK
<1>5. QED BY <1>3, <1>4 DEF ListedInv

\* What a step does to the call that takes it, and to the others.
LEMMA OneCallSteps ==
  ASSUME TypeOK, NEW c \in Callers,
         \/ RecordBegins(c) \/ RecordEnds(c) \/ Move(c)
         \/ \E S \in SUBSET live : MoveAside(c, S)
         \/ TestArchive(c) \/ ListArchive(c) \/ RmArchive(c) \/ ListFails(c)
         \/ TestLive(c) \/ Count(c) \/ ListLive(c) \/ RmLive(c)
  PROVE  /\ pc' = [pc EXCEPT ![c] = pc'[c]]
         /\ todo' = [todo EXCEPT ![c] = todo'[c]]
         /\ \A d \in Callers : d # c => pc'[d] = pc[d] /\ todo'[d] = todo[d]
<1> USE DEF Goto
<1>1. CASE RecordBegins(c) \/ RecordEnds(c)
  BY <1>1 DEF RecordBegins, RecordEnds, TypeOK
<1>2. CASE Move(c)
  BY <1>2 DEF Move, TypeOK
<1>3. CASE \E S \in SUBSET live : MoveAside(c, S)
  BY <1>3 DEF MoveAside, TypeOK
<1>4. CASE TestArchive(c) \/ TestLive(c) \/ Count(c)
  BY <1>4 DEF TestArchive, TestLive, TestDisk, Count, TypeOK
<1>5. CASE ListArchive(c) \/ ListLive(c) \/ ListFails(c)
  BY <1>5 DEF ListArchive, ListLive, ListFails, Return, TypeOK
<1>6. CASE RmArchive(c) \/ RmLive(c)
  BY <1>6 DEF RmArchive, RmLive, TypeOK
<1>7. QED BY <1>1, <1>2, <1>3, <1>4, <1>5, <1>6

\* Every step keeps the listings right.
LEMMA ListedNext ==
  ASSUME TypeOK, Conserved, ListedInv, [Next]_vars
  PROVE  ListedInv'
<1>0. pc \in [Callers -> Rotating \cup {"idle", "record", "move"}]
  BY DEF TypeOK
<1>1. CASE UNCHANGED vars
  BY <1>1, ListedKept DEF vars, store, calls
<1>2. CASE Next
  <2> PICK c \in Callers :
        \/ RecordBegins(c) \/ RecordEnds(c) \/ Move(c)
        \/ \E S \in SUBSET live : MoveAside(c, S)
        \/ TestArchive(c) \/ ListArchive(c) \/ RmArchive(c) \/ ListFails(c)
        \/ TestLive(c) \/ Count(c) \/ ListLive(c) \/ RmLive(c)
    BY <1>2, StoreSteps
  <2>1. \A d \in Callers : d # c => pc'[d] = pc[d] /\ todo'[d] = todo[d]
    BY OneCallSteps
  <2>2. CASE RecordBegins(c)
    <3>1. pc'[c] = "record" /\ latest' = latest + 1 /\ live' = live \cup {latest + 1}
      BY <1>0, <2>2 DEF RecordBegins, Goto, NextName
    <3>2. QED BY <2>1, <3>1, ListedKept
  <2>3. CASE RecordEnds(c) \/ Move(c) \/ \E S \in SUBSET live : MoveAside(c, S)
    <3>1. pc'[c] \in {"testArchive", "idle", "move"} /\ latest' = latest /\ live' \subseteq live
      BY <1>0, <2>3 DEF RecordEnds, Move, MoveAside, Goto
    <3>2. QED BY <2>1, <3>1, ListedKept
  <2>4. CASE TestArchive(c) \/ TestLive(c) \/ Count(c) \/ ListFails(c)
    <3>1. /\ pc'[c] \notin {"rmArchive", "rmLive"} /\ latest' = latest /\ live' = live
      BY <1>0, <2>4 DEF TestArchive, TestLive, TestDisk, Count, ListFails, Return, Goto, store
    <3>2. QED BY <2>1, <3>1, ListedKept
  <2>5. CASE RmArchive(c) \/ RmLive(c)
    <3>1. /\ pc'[c] \notin {"rmArchive", "rmLive"} /\ latest' = latest /\ live' \subseteq live
      BY <1>0, <2>5 DEF RmArchive, RmLive, Goto
    <3>2. QED BY <2>1, <3>1, ListedKept
  <2>6. CASE ListArchive(c) \/ ListLive(c)
    <3>1. /\ UNCHANGED <<live, archived, latest>>
          /\ \/ pc'[c] \in {"testLive", "idle"}
             \/ pc'[c] = "rmArchive" /\ todo'[c] = First(archived)
             \/ pc'[c] = "rmLive" /\ todo'[c] = First(live)
      BY <1>0, <2>6 DEF ListArchive, ListLive, Goto, store, TypeOK
    <3>2. CASE pc'[c] \in {"testLive", "idle"}
      BY <2>1, <3>1, <3>2, ListedKept
    <3>3. CASE pc'[c] \notin {"testLive", "idle"}
      BY <3>1, <3>3, ListedNew, OneCallSteps
    <3>4. QED BY <3>2, <3>3
  <2>7. QED BY <2>2, <2>3, <2>4, <2>5, <2>6
<1>3. QED BY <1>1, <1>2

-----------------------------------------------------------------------------
(* The disk, for the calls that have seen it low.                          *)

\* Types and finiteness of the sets that are counted.
LEMMA CountedSets ==
  ASSUME TypeOK
  PROVE  /\ IsFiniteSet(live \cup archived) /\ IsFiniteSet(live)
         /\ Reclaiming \subseteq Callers /\ Pruning \subseteq Callers
         /\ Room \in Nat /\ PLAYBACK_LIMIT \in Nat
BY MessagesAreFinite, BoundsAreNumbers DEF TypeOK, Reclaiming, Pruning

\* A step that takes no message from the store and makes no call rely on an
\* earlier look at the disk.
LEMMA SpaceKept ==
  ASSUME TypeOK, TypeOK', SpaceInv,
         live \cup archived \subseteq (live \cup archived)',
         Reclaiming' \subseteq Reclaiming,
         \A c \in Reclaiming' : ~cleared'[c] => ~cleared[c]
  PROVE  SpaceInv'
<1> SUFFICES ASSUME NEW c \in Reclaiming', ~cleared'[c]
             PROVE  Enough((live \cup archived)', Reclaiming', Room)
  BY BoundsAreNumbers DEF SpaceInv, Enough
<1>1. IsFiniteSet((live \cup archived)') /\ Room \in Nat
  BY MessagesAreFinite, BoundsAreNumbers DEF TypeOK
<1>2. Enough(live \cup archived, Reclaiming, Room)
  BY DEF SpaceInv, Enough
<1>3. QED BY <1>1, <1>2, EnoughGrows

\* A step after which every call knows that live messages were cleared.
LEMMA AllCleared ==
  ASSUME \A c \in Callers : cleared'[c]
  PROVE  SpaceInv' /\ WindowInv'
BY DEF SpaceInv, WindowInv, Reclaiming, Pruning

\* A rotate erases the one message it has listed, or finds it gone.
LEMMA ErasesOne ==
  ASSUME TypeOK, Conserved, ListedInv, NEW c \in Callers, RmArchive(c) \/ RmLive(c)
  PROVE  /\ \E f : (live \cup archived)' \in {(live \cup archived) \ {f}, live \cup archived}
         /\ \E f : live' \in {live \ {f}, live}
<1>1. pc[c] \in {"rmArchive", "rmLive"}
  BY DEF RmArchive, RmLive
<1>2. (\E f : todo[c] = {f}) \/ todo[c] = {}
  <2>1. \A f, g \in todo[c] : f = g
    BY <1>1 DEF ListedInv
  <2>2. QED BY <2>1
<1>3. live \cap archived = {}
  BY DEF Conserved
<1>4. \/ archived' = archived \ todo[c] /\ live' = live /\ todo[c] \cap live = {}
      \/ live' = live \ todo[c] /\ archived' = archived
  BY DEF RmArchive, RmLive, ListedInv
<1>5. CASE todo[c] = {}
  BY <1>4, <1>5
<1>6. ASSUME NEW f, todo[c] = {f}
      PROVE  /\ (live \cup archived)' \in {(live \cup archived) \ {f}, live \cup archived}
             /\ live' \in {live \ {f}, live}
  <2>1. CASE f \in live
    BY <1>3, <1>4, <1>6, <2>1
  <2>2. CASE f \notin live
    BY <1>4, <1>6, <2>2
  <2>3. QED BY <2>1, <2>2
<1>7. QED BY <1>2, <1>5, <1>6

\* Every step keeps count of the disk.
LEMMA SpaceNext ==
  ASSUME TypeOK, TypeOK', Conserved, ListedInv, SpaceInv, [Next]_vars
  PROVE  SpaceInv'
<1>0. /\ pc \in [Callers -> Rotating \cup {"idle", "record", "move"}]
      /\ cleared \in [Callers -> BOOLEAN]
  BY DEF TypeOK
<1>1. CASE UNCHANGED vars
  BY <1>1, SpaceKept DEF vars, store, calls, Reclaiming
<1>2. CASE Next
  <2> PICK c \in Callers :
        \/ RecordBegins(c) \/ RecordEnds(c) \/ Move(c)
        \/ \E S \in SUBSET live : MoveAside(c, S)
        \/ TestArchive(c) \/ ListArchive(c) \/ RmArchive(c) \/ ListFails(c)
        \/ TestLive(c) \/ Count(c) \/ ListLive(c) \/ RmLive(c)
    BY <1>2, StoreSteps
  <2>1. \A d \in Callers : d # c => pc'[d] = pc[d]
    BY OneCallSteps
  <2>2. ASSUME pc'[c] \in Rotating \ {"testArchive", "testLive"} =>
                 pc[c] \in Rotating \ {"testArchive", "testLive"}
        PROVE  Reclaiming' \subseteq Reclaiming
    BY <2>1, <2>2 DEF Reclaiming
  <2>3. CASE RecordBegins(c) \/ \E S \in SUBSET live : MoveAside(c, S)
    <3>1. /\ pc'[c] \in {"record", "move"} /\ cleared' = cleared
          /\ live \cup archived \subseteq (live \cup archived)'
      BY <1>0, <2>3 DEF RecordBegins, MoveAside, Goto
    <3>2. Reclaiming' \subseteq Reclaiming
      BY <2>2, <3>1 DEF Rotating
    <3>3. QED BY <3>1, <3>2, SpaceKept
  <2>4. CASE RecordEnds(c)
    <3>1. /\ pc'[c] \in {"testArchive", "idle"} /\ archived' = archived
          /\ \/ UNCHANGED <<live, cleared>>
             \/ live' = live \ todo[c] /\ Clear(todo[c] \cap live)
      BY <1>0, <2>4 DEF RecordEnds, Goto
    <3>2. Reclaiming' \subseteq Reclaiming
      BY <2>2, <3>1 DEF Rotating
    <3>3. CASE UNCHANGED <<live, cleared>>
      BY <3>1, <3>2, <3>3, SpaceKept
    <3>4. CASE live' = live \ todo[c] /\ Clear(todo[c] \cap live)
      <4>1. CASE todo[c] \cap live = {}
        <5>1. /\ live' = live
              /\ \A d \in Callers : cleared'[d] = cleared[d]
          BY <1>0, <3>4, <4>1 DEF Clear
        <5>2. QED BY <3>1, <3>2, <5>1, SpaceKept DEF Reclaiming
      <4>2. CASE todo[c] \cap live # {}
        BY <3>4, <4>2, AllCleared DEF Clear
      <4>3. QED BY <4>1, <4>2
    <3>5. QED BY <3>1, <3>3, <3>4
  <2>5. CASE Move(c)
    <3>1. PICK f : /\ live' = live \ {f} /\ archived' = archived \cup Moved(f)
                   /\ Clear(Moved(f))
                   /\ Goto(c, IF todo[c] = {f} THEN "idle" ELSE "move")
      BY <2>5 DEF Move
    <3>2. live \cup archived \subseteq (live \cup archived)'
      BY <3>1 DEF Moved
    <3>3. Reclaiming' \subseteq Reclaiming
      BY <1>0, <2>2, <3>1 DEF Goto, Rotating
    <3>4. \A d \in Callers : ~cleared'[d] => ~cleared[d]
      BY <3>1 DEF Clear
    <3>5. QED BY <3>2, <3>3, <3>4, SpaceKept DEF Reclaiming
  <2>6. CASE TestArchive(c) \/ TestLive(c)
    <3>1. /\ UNCHANGED <<live, archived>>
          /\ cleared' = [cleared EXCEPT ![c] = FALSE]
          /\ disk_low \/ pc'[c] \in {"testLive", "idle"}
      BY <1>0, <2>6 DEF TestArchive, TestLive, TestDisk, Goto, store
    <3>2. CASE disk_low
      <4>1. Cardinality((live \cup archived)') > Room
        BY <3>1, <3>2 DEF disk_low
      <4>2. /\ Cardinality((live \cup archived)') \in Nat
            /\ Cardinality(Callers \ Reclaiming') \in Nat
        BY MessagesAreFinite, CallersAreFinite, FS_Difference, FS_CardinalityType DEF TypeOK
      <4>3. QED BY <4>1, <4>2, BoundsAreNumbers DEF SpaceInv
    <3>3. CASE pc'[c] \in {"testLive", "idle"}
      <4>1. Reclaiming' \subseteq Reclaiming /\ c \notin Reclaiming'
        BY <2>2, <3>3 DEF Rotating, Reclaiming
      <4>2. \A d \in Reclaiming' : cleared'[d] = cleared[d]
        BY <1>0, <3>1, <4>1 DEF Reclaiming
      <4>3. QED BY <3>1, <4>1, <4>2, SpaceKept
    <3>4. QED BY <3>1, <3>2, <3>3
  <2>7. CASE Count(c) \/ ListArchive(c) \/ ListLive(c) \/ ListFails(c)
    <3>1. /\ UNCHANGED <<live, archived, cleared>>
          /\ pc[c] \in Rotating \ {"testArchive", "testLive"}
      BY <1>0, <2>7 DEF Count, ListArchive, ListLive, ListFails, store, Rotating
    <3>2. Reclaiming' \subseteq Reclaiming
      BY <2>2, <3>1
    <3>3. QED BY <3>1, <3>2, SpaceKept
  <2>8. CASE RmArchive(c) \/ RmLive(c)
    <3>1. /\ pc[c] \in {"rmArchive", "rmLive"} /\ pc'[c] \in {"testArchive", "testLive"}
          /\ cleared' = cleared
      BY <1>0, <2>8 DEF RmArchive, RmLive, Goto
    <3>2. c \in Reclaiming /\ Reclaiming' = Reclaiming \ {c}
      BY <2>1, <3>1 DEF Reclaiming, Rotating
    <3>3. PICK f : (live \cup archived)' \in {(live \cup archived) \ {f}, live \cup archived}
      BY <2>8, ErasesOne
    <3>4. ASSUME NEW d \in Reclaiming', ~cleared'[d]
          PROVE  Enough((live \cup archived)', Reclaiming', Room)
      <4>1. Enough(live \cup archived, Reclaiming, Room)
        BY <3>1, <3>2, <3>4 DEF SpaceInv, Enough
      <4>2. QED BY <3>2, <3>3, <4>1, CountedSets, EnoughStays
    <3>5. QED BY <3>4, BoundsAreNumbers DEF SpaceInv, Enough
  <2>9. QED BY <2>3, <2>4, <2>5, <2>6, <2>7, <2>8
<1>3. QED BY <1>1, <1>2

-----------------------------------------------------------------------------
(* The window, for the calls that have seen a message beyond it.           *)

\* A step that takes no live message and makes no call rely on an earlier
\* count.
LEMMA WindowKept ==
  ASSUME TypeOK, TypeOK', WindowInv, live \subseteq live', Pruning' \subseteq Pruning,
         \A c \in Pruning' : ~cleared'[c] => ~cleared[c]
  PROVE  WindowInv'
<1> SUFFICES ASSUME NEW c \in Pruning', ~cleared'[c]
             PROVE  Enough(live', Pruning', PLAYBACK_LIMIT)
  BY BoundsAreNumbers DEF WindowInv, Enough
<1>1. IsFiniteSet(live') /\ PLAYBACK_LIMIT \in Nat
  BY MessagesAreFinite, BoundsAreNumbers DEF TypeOK
<1>2. Enough(live, Pruning, PLAYBACK_LIMIT)
  BY DEF WindowInv, Enough
<1>3. QED BY <1>1, <1>2, EnoughGrows

\* Every step keeps count of the window.
LEMMA WindowNext ==
  ASSUME TypeOK, TypeOK', Conserved, ListedInv, WindowInv, [Next]_vars
  PROVE  WindowInv'
<1>0. /\ pc \in [Callers -> Rotating \cup {"idle", "record", "move"}]
      /\ cleared \in [Callers -> BOOLEAN]
  BY DEF TypeOK
<1>1. CASE UNCHANGED vars
  BY <1>1, WindowKept DEF vars, store, calls, Pruning
<1>2. CASE Next
  <2> PICK c \in Callers :
        \/ RecordBegins(c) \/ RecordEnds(c) \/ Move(c)
        \/ \E S \in SUBSET live : MoveAside(c, S)
        \/ TestArchive(c) \/ ListArchive(c) \/ RmArchive(c) \/ ListFails(c)
        \/ TestLive(c) \/ Count(c) \/ ListLive(c) \/ RmLive(c)
    BY <1>2, StoreSteps
  <2>1. \A d \in Callers : d # c => pc'[d] = pc[d]
    BY OneCallSteps
  <2>2. ASSUME pc'[c] \in {"listLive", "rmLive"} => pc[c] \in {"listLive", "rmLive"}
        PROVE  Pruning' \subseteq Pruning
    BY <2>1, <2>2 DEF Pruning
  <2>3. CASE \/ RecordBegins(c) \/ \E S \in SUBSET live : MoveAside(c, S)
             \/ RmArchive(c) \/ ListArchive(c) \/ ListLive(c) \/ ListFails(c)
    <3>1. /\ live \subseteq live' /\ cleared' = cleared
          /\ pc'[c] \notin {"listLive", "rmLive"} \/ pc[c] = "listLive"
      BY <1>0, <2>3 DEF RecordBegins, MoveAside, RmArchive, ListArchive, ListLive, ListFails,
                        Return, Goto, store
    <3>2. Pruning' \subseteq Pruning
      BY <2>2, <3>1
    <3>3. QED BY <3>1, <3>2, WindowKept
  <2>4. CASE RecordEnds(c) \/ Move(c)
    <3>1. /\ pc'[c] \in {"testArchive", "idle", "move"}
          /\ \/ UNCHANGED <<live, cleared>>
             \/ \E S : live' = live \ S /\ Clear(S \cap live)
      <4>1. CASE RecordEnds(c)
        BY <1>0, <4>1 DEF RecordEnds, Goto
      <4>2. CASE Move(c)
        <5>1. PICK f : /\ live' = live \ {f} /\ Clear({f} \cap live)
                       /\ Goto(c, IF todo[c] = {f} THEN "idle" ELSE "move")
          BY <4>2 DEF Move, Moved
        <5>2. QED BY <1>0, <5>1 DEF Goto
      <4>3. QED BY <2>4, <4>1, <4>2
    <3>2. Pruning' \subseteq Pruning
      BY <2>2, <3>1
    <3>3. CASE UNCHANGED <<live, cleared>>
      BY <3>2, <3>3, WindowKept
    <3>4. ASSUME NEW S, live' = live \ S, Clear(S \cap live)
          PROVE  WindowInv'
      <4>1. CASE S \cap live = {}
        <5>1. live' = live /\ \A d \in Callers : cleared'[d] = cleared[d]
          BY <1>0, <3>4, <4>1 DEF Clear
        <5>2. QED BY <3>2, <5>1, WindowKept DEF Pruning
      <4>2. CASE S \cap live # {}
        BY <3>4, <4>2, AllCleared DEF Clear
      <4>3. QED BY <4>1, <4>2
    <3>5. QED BY <3>1, <3>3, <3>4
  <2>5. CASE TestArchive(c) \/ TestLive(c)
    <3>1. /\ live' = live /\ cleared' = [cleared EXCEPT ![c] = FALSE]
          /\ pc'[c] \notin {"listLive", "rmLive"}
      BY <1>0, <2>5 DEF TestArchive, TestLive, TestDisk, Goto, store
    <3>2. Pruning' \subseteq Pruning /\ c \notin Pruning'
      BY <2>2, <3>1 DEF Pruning
    <3>3. \A d \in Pruning' : cleared'[d] = cleared[d]
      BY <1>0, <3>1, <3>2 DEF Pruning
    <3>4. QED BY <3>1, <3>2, <3>3, WindowKept
  <2>6. CASE Count(c)
    <3>1. /\ live' = live /\ cleared' = cleared
          /\ beyond_window \/ pc'[c] = "idle"
      BY <1>0, <2>6 DEF Count, Goto, store
    <3>2. CASE beyond_window
      <4>1. Cardinality(live') > PLAYBACK_LIMIT
        BY <3>1, <3>2 DEF beyond_window
      <4>2. Cardinality(live') \in Nat /\ Cardinality(Callers \ Pruning') \in Nat
        BY MessagesAreFinite, CallersAreFinite, FS_Difference, FS_CardinalityType DEF TypeOK
      <4>3. QED BY <4>1, <4>2, BoundsAreNumbers DEF WindowInv
    <3>3. CASE pc'[c] = "idle"
      <4>1. Pruning' \subseteq Pruning
        BY <2>2, <3>3
      <4>2. QED BY <3>1, <4>1, WindowKept
    <3>4. QED BY <3>1, <3>2, <3>3
  <2>7. CASE RmLive(c)
    <3>1. pc[c] = "rmLive" /\ pc'[c] = "testLive" /\ cleared' = cleared
      BY <1>0, <2>7 DEF RmLive, Goto
    <3>2. c \in Pruning /\ Pruning' = Pruning \ {c}
      BY <2>1, <3>1 DEF Pruning
    <3>3. PICK f : live' \in {live \ {f}, live}
      BY <2>7, ErasesOne
    <3>4. ASSUME NEW d \in Pruning', ~cleared'[d]
          PROVE  Enough(live', Pruning', PLAYBACK_LIMIT)
      <4>1. Enough(live, Pruning, PLAYBACK_LIMIT)
        BY <3>1, <3>2, <3>4 DEF WindowInv, Enough
      <4>2. QED BY <3>2, <3>3, <4>1, CountedSets, EnoughStays
    <3>5. QED BY <3>4, BoundsAreNumbers DEF WindowInv, Enough
  <2>8. QED BY <2>3, <2>4, <2>5, <2>6, <2>7
<1>3. QED BY <1>1, <1>2

\* The invariant of the store with its counts.
CountInv == TypeOK /\ Conserved /\ ListedInv /\ SpaceInv /\ WindowInv

\* No rotate runs at the start.
LEMMA CountInit == Init => CountInv
<1> SUFFICES ASSUME Init PROVE CountInv
  OBVIOUS
<1>1. \A c \in Callers : pc[c] = "idle"
  BY DEF Init
<1>2. QED BY <1>1, StoreInit DEF CountInv, ListedInv, SpaceInv, WindowInv, Reclaiming, Pruning, Rotating

\* The counts hold at every step, for any number of calls and messages.
LEMMA CountsKept == Spec => []CountInv
<1>1. CountInv /\ [Next]_vars => CountInv'
  BY StoreNext, ListedNext, SpaceNext, WindowNext DEF CountInv
<1>2. QED BY <1>1, CountInit, PTL DEF Spec

\* When a rotate erases a live message, the window above it is short of at most
\* one message for each other call.
LEMMA ErasesBelowWindow ==
  ASSUME CountInv, NEW c \in Callers, Erases(c, live), ~cleared[c]
  PROVE  Cardinality(Newer(c)) + Others >= PLAYBACK_LIMIT
<1>1. pc[c] = "rmLive" /\ todo[c] \cap live # {}
  BY DEF Erases, RmArchive, RmLive, CountInv, ListedInv
<1>2. PICK f \in live : todo[c] = {f}
  BY <1>1 DEF CountInv, ListedInv
<1>3. Newer(c) = live \ {f}
  <2>1. \A m \in live : f <= m
    BY <1>1, <1>2 DEF CountInv, ListedInv
  <2>2. \A m \in live : m \in Nat
    BY DEF CountInv, TypeOK, Messages
  <2>3. \A m \in live : m # f <=> f < m
    BY <2>1, <2>2
  <2>4. QED BY <1>2, <2>3 DEF Newer
<1>4. /\ IsFiniteSet(live) /\ Cardinality(live) \in Nat
      /\ Cardinality(Newer(c)) = Cardinality(live) - 1
  <2>1. IsFiniteSet(live)
    BY CountedSets DEF CountInv
  <2>2. QED BY <1>2, <1>3, <2>1, FS_RemoveElement, FS_CardinalityType
<1>5. c \in Pruning /\ Pruning \subseteq Callers
  BY <1>1 DEF Pruning
<1>6. Cardinality(live) + Cardinality(Callers \ Pruning) > PLAYBACK_LIMIT
  BY <1>5 DEF CountInv, WindowInv
<1>7. /\ Cardinality(Callers \ Pruning) <= Others
      /\ Cardinality(Callers \ Pruning) \in Nat /\ Others \in Nat
  BY <1>5, OthersAreEnough
<1>8. QED BY <1>4, <1>6, <1>7, BoundsAreNumbers

\* When a rotate erases a message, the disk is short of being low by at most
\* one message for each other call.
LEMMA ErasesWhenLow ==
  ASSUME CountInv, NEW c \in Callers, Erases(c, live \cup archived), ~cleared[c]
  PROVE  Cardinality(live \cup archived) + Others > Room
<1>1. pc[c] \in {"rmArchive", "rmLive"}
  BY DEF Erases, RmArchive, RmLive
<1>2. c \in Reclaiming /\ Reclaiming \subseteq Callers
  BY <1>1 DEF Reclaiming, Rotating
<1>3. Cardinality(live \cup archived) + Cardinality(Callers \ Reclaiming) > Room
  BY <1>2 DEF CountInv, SpaceInv
<1>4. /\ Cardinality(Callers \ Reclaiming) <= Others
      /\ Cardinality(Callers \ Reclaiming) \in Nat /\ Others \in Nat
  BY <1>2, OthersAreEnough
<1>5. Cardinality(live \cup archived) \in Nat
  BY CountedSets, FS_CardinalityType DEF CountInv
<1>6. QED BY <1>3, <1>4, <1>5, BoundsAreNumbers

\* rotate spares the playable window, but for one message by each other call
\* that rotates at the same time: for any number of calls and messages and any
\* size of the window.
THEOREM RotateSparesWindow == Spec => SparesWindow
<1>1. CountInv /\ [Next]_vars =>
        [\A c \in Callers : Erases(c, live) /\ ~cleared[c] =>
           Cardinality(Newer(c)) + Others >= PLAYBACK_LIMIT]_vars
  BY ErasesBelowWindow
<1>2. QED BY <1>1, CountsKept, PTL DEF Spec, SparesWindow

\* rotate erases only to make room, but for one message by each other call that
\* rotates at the same time.
THEOREM RotateErasesForRoom == Spec => ErasesForRoom
<1>1. CountInv /\ [Next]_vars =>
        [\A c \in Callers : Erases(c, live \cup archived) /\ ~cleared[c] =>
           Cardinality(live \cup archived) + Others > Room]_vars
  BY ErasesWhenLow
<1>2. QED BY <1>1, CountsKept, PTL DEF Spec, ErasesForRoom
=============================================================================
