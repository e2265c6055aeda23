--------------------------- MODULE ShuffleBagProofs ---------------------------
(***************************************************************************)
(* Theorems about ShuffleBag: the bag that concurrent picks read and write *)
(* under the lock is dealt as the abstract dealer deals, and it deals a    *)
(* variant twice in a row only where a fault has lost the note of it, for  *)
(* any number of calls and variants.                                       *)
(***************************************************************************)
EXTENDS ShuffleBag, TLAPS

\* What a pick that is under way has printed and still knows.
BookInv ==
  \A c \in Calls :
    /\ pc[c] # "idle" => told[c] = Nothing
    /\ pc[c] \in {"last", "print"} => listing[c] = {}

BagInv == IInv /\ BookInv

-----------------------------------------------------------------------------
(* The invariant                                                           *)

LEMMA InitBagInv == Init => BagInv
BY DEF Init, BagInv, IInv, TypeOK, LockInv, DealInv, LastInv, LastDealt, BookInv, Stages

\* A pick begins, or its lock file is opened.
LEMMA OpenKeepsBagInv ==
  ASSUME BagInv, NEW c \in Calls, List(c) \/ OpenLock(c)
  PROVE  BagInv'
<1> USE DEF List, OpenLock, Goto, aux, BagInv, IInv
<1>1. TypeOK'
  BY DEF TypeOK, Stages
<1>2. LockInv'
  BY DEF TypeOK, LockInv
<1>3. DealInv'
  BY DEF TypeOK, DealInv, Several, Remaining, FirstOfNew
<1>4. LastInv' /\ BookInv'
  BY DEF TypeOK, LastInv, LastDealt, BookInv
<1>5. QED BY <1>1, <1>2, <1>3, <1>4

\* The lock is taken.
LEMMA FlockKeepsBagInv ==
  ASSUME BagInv, NEW c \in Calls, Flock(c)
  PROVE  BagInv'
<1> USE DEF Flock, Goto, aux, BagInv, IInv
<1>1. TypeOK'
  BY DEF TypeOK, Stages
<1>2. LockInv'
  BY NothingIsNothing DEF TypeOK, LockInv
<1>3. DealInv'
  BY DEF TypeOK, DealInv, Several, Remaining, FirstOfNew
<1>4. LastInv' /\ BookInv'
  BY NothingIsNothing DEF TypeOK, LastInv, LastDealt, BookInv
<1>5. QED BY <1>1, <1>2, <1>3, <1>4

\* The holder deals.
LEMMA DealKeepsBagInv ==
  ASSUME BagInv, NEW c \in Calls, Deal(c)
  PROVE  BagInv'
<1> USE DEF Deal, Goto, aux, BagInv, IInv
<1>1. Remaining(c) \subseteq Variants /\ FirstOfNew(c) \subseteq Variants
  BY DEF TypeOK, Remaining, FirstOfNew
<1>2. TypeOK'
  BY <1>1 DEF TypeOK, Stages, Remaining
<1>3. LockInv'
  BY DEF TypeOK, LockInv
<1>4. DealInv'
  <2> SUFFICES ASSUME NEW d \in Calls
               PROVE  DealInv!(d)'
    BY DEF DealInv
  <2>1. CASE d = c
    BY <2>1 DEF TypeOK, DealInv, Several, Remaining, FirstOfNew
  <2>2. CASE d # c
    BY <2>2 DEF TypeOK, DealInv, Several, Remaining, FirstOfNew
  <2>3. QED BY <2>1, <2>2
<1>5. LastInv' /\ BookInv'
  BY DEF TypeOK, LastInv, LastDealt, BookInv
<1>6. QED BY <1>2, <1>3, <1>4, <1>5

\* The bag is written back, without the variant dealt.
LEMMA WriteBagKeepsBagInv ==
  ASSUME BagInv, NEW c \in Calls, WriteBag(c)
  PROVE  BagInv'
<1> USE DEF WriteBag, Goto, BagInv, IInv
<1>1. choice[c] \in Variants /\ choice[c] \notin rest[c] /\ flock = c
  BY DEF TypeOK, LockInv, DealInv, Remaining, FirstOfNew
<1>2. TypeOK'
  BY DEF TypeOK, Stages
<1>3. LockInv'
  BY DEF TypeOK, LockInv
<1>4. DealInv'
  BY <1>1 DEF TypeOK, LockInv, DealInv, Several, Remaining, FirstOfNew
<1>5. LastInv' /\ BookInv'
  BY <1>1, NothingIsNothing DEF TypeOK, LastInv, LastDealt, BookInv
<1>6. QED BY <1>2, <1>3, <1>4, <1>5

\* The variant dealt is remembered.
LEMMA WriteLastKeepsBagInv ==
  ASSUME BagInv, NEW c \in Calls, WriteLast(c)
  PROVE  BagInv'
<1> USE DEF WriteLast, Goto, BagInv, IInv
<1>1. choice[c] \in Variants /\ flock = c
  BY DEF LockInv, DealInv
<1>2. TypeOK'
  BY <1>1 DEF TypeOK, Stages
<1>3. LockInv'
  BY DEF TypeOK, LockInv
<1>4. DealInv'
  BY <1>1 DEF TypeOK, LockInv, DealInv, Several, Remaining, FirstOfNew
<1>5. LastInv' /\ BookInv'
  BY <1>1, NothingIsNothing DEF TypeOK, LastInv, LastDealt, BookInv
<1>6. QED BY <1>2, <1>3, <1>4, <1>5

\* A pick ends.
LEMMA PrintKeepsBagInv ==
  ASSUME BagInv, NEW c \in Calls,
         cmd_pick_None(c) \/ cmd_pick_Only(c) \/ RandomDraw(c) \/ PrintChoice(c)
  PROVE  BagInv'
<1> USE DEF BagInv, IInv
<1>1. PICK v \in Variants \cup {Nothing} :
        /\ Printed(c, v) /\ pc[c] \in {"open", "deal", "print"}
        /\ flock' = flock \/ (flock = c /\ flock' = Nothing)
  BY DEF cmd_pick_None, cmd_pick_Only, RandomDraw, PrintChoice, TypeOK, LockInv
<1> USE DEF Printed, Goto, aux
<1>2. TypeOK'
  BY <1>1 DEF TypeOK, Stages
<1>3. LockInv'
  BY <1>1 DEF TypeOK, LockInv
<1>4. DealInv'
  BY <1>1 DEF TypeOK, DealInv, Several, Remaining, FirstOfNew
<1>5. LastInv' /\ BookInv'
  BY <1>1 DEF TypeOK, LastInv, LastDealt, BookInv
<1>6. QED BY <1>2, <1>3, <1>4, <1>5

\* Prompts are installed, the host fills, FreeSWITCH restarts.
LEMMA EnvironmentKeepsBagInv ==
  ASSUME BagInv, Install \/ FailOrMend \/ Restart \/ UNCHANGED vars
  PROVE  BagInv'
<1> USE DEF BagInv, IInv
<1>1. CASE Install
  BY <1>1 DEF Install, command, aux, TypeOK, LockInv, DealInv, Several, Remaining, FirstOfNew,
              LastInv, LastDealt, BookInv
<1>2. CASE FailOrMend
  <2>1. host # "unusable" /\ host' \in {"ok", "full", "bare"}
    BY <1>2, FaultsAreFaults DEF FailOrMend
  <2>2. UNCHANGED <<files, lockfile, bag, last, flock, pc, listing, choice, rest, told, dealt,
                    forgot>>
    BY <1>2 DEF FailOrMend, command, aux
  <2>3. TypeOK' /\ LockInv'
    BY <2>1, <2>2 DEF TypeOK, LockInv
  <2>4. DealInv'
    BY <2>1, <2>2 DEF DealInv, Several, Remaining, FirstOfNew
  <2>5. LastInv' /\ BookInv'
    BY <2>2 DEF LastInv, LastDealt, BookInv
  <2>6. QED BY <2>3, <2>4, <2>5
<1>3. CASE Restart
  BY <1>3, FaultsAreFaults DEF Restart, TypeOK, Stages, LockInv, DealInv, LastInv, LastDealt,
     BookInv
<1>4. CASE UNCHANGED vars
  BY <1>4 DEF vars, command, aux, TypeOK, LockInv, DealInv, Several, Remaining, FirstOfNew,
              LastInv, LastDealt, BookInv
<1>5. QED BY <1>1, <1>2, <1>3, <1>4

LEMMA NextKeepsBagInv == BagInv /\ [Next]_vars => BagInv'
BY OpenKeepsBagInv, FlockKeepsBagInv, DealKeepsBagInv, WriteBagKeepsBagInv,
   WriteLastKeepsBagInv, PrintKeepsBagInv, EnvironmentKeepsBagInv
   DEF Next, cmd_pick, pick_from_bag

LEMMA BagInvHolds == Spec => []BagInv
BY InitBagInv, NextKeepsBagInv, PTL DEF Spec

\* Only the holder of the lock is past it, and what it is about to write back
\* is one variant less of what remains (pick_from_bag).
THEOREM BagInductive == Spec => []IInv
<1>1. BagInv => IInv
  BY DEF BagInv
<1>2. QED BY <1>1, BagInvHolds, PTL

-----------------------------------------------------------------------------
(* What the callers hear                                                   *)

\* Two deals in a row, to whomever, are of different variants: the second is from
\* the bag, which never holds the first, or was nudged back in a new bag.  The
\* exception is a new bag after a full tmpfs or a restart has lost the first.
THEOREM EntriesDiffer == Spec => DistinctEntries
<1> DEFINE Excused(c) == forgot /\ Remaining(c) = {}
           Differ == \A c \in Calls : pc[c] = "bag" /\ pc'[c] = "last" /\ choice[c] = dealt =>
                       Excused(c)
<1>1. ASSUME BagInv, Next PROVE Differ
  <2> SUFFICES ASSUME NEW c \in Calls, pc[c] = "bag", pc'[c] = "last", choice[c] = dealt
               PROVE  Excused(c)
    OBVIOUS
  <2>1. LastDealt = last /\ choice[c] \in Variants
    BY <1>1 DEF BagInv, IInv, TypeOK, LockInv, DealInv, LastDealt, Remaining, FirstOfNew
  <2>2. choice[c] \notin bag
    BY <1>1 DEF BagInv, IInv, LastInv
  <2>3. Remaining(c) = {} /\ choice[c] \in listing[c] \ {last}
    BY <1>1, <2>2 DEF BagInv, IInv, DealInv, Remaining, FirstOfNew
  <2>4. forgot
    BY <1>1, <2>1, <2>3 DEF BagInv, IInv, LastInv
  <2>5. QED BY <2>3, <2>4
<1>2. ASSUME UNCHANGED vars PROVE Differ
  BY <1>2 DEF vars, command
<1>3. BagInv /\ [Next]_vars => [Differ]_vars
  BY <1>1, <1>2
<1>4. QED BY <1>3, BagInvHolds, PTL DEF Spec, DistinctEntries

-----------------------------------------------------------------------------
(* The refinement                                                          *)

avars == <<files, host, listing, bag, LastDealt, Told>>

LEMMA InitImplements == Init => Abstract!Init
BY DEF Init, Abstract!Init, LastDealt, Told

\* The write of the bag is the deal.
LEMMA WriteBagImplements ==
  ASSUME BagInv, NEW c \in Calls, WriteBag(c)
  PROVE  Abstract!Deal(c, choice[c])
<1> USE DEF BagInv, IInv, WriteBag, Goto
<1>1. flock = c /\ LastDealt = last /\ LastDealt' = choice[c]
  BY NothingIsNothing DEF LockInv, LastDealt, TypeOK
<1>2. Told' = [Told EXCEPT ![c] = choice[c]]
  BY DEF Told, TypeOK
<1>3. PICK r \in SUBSET Variants : r = rest[c]
  BY DEF TypeOK
<1>4. \/ choice[c] \in bag \cap listing[c] /\ r = (bag \cap listing[c]) \ {choice[c]}
      \/ /\ bag \cap listing[c] = {} /\ choice[c] \in listing[c] \ {LastDealt}
         /\ r = listing[c] \ {choice[c]}
  BY <1>1, <1>3 DEF DealInv, Remaining, FirstOfNew
<1>5. bag' = IF host = "full" THEN {} ELSE r
  BY <1>3
<1>6. QED BY <1>1, <1>2, <1>4, <1>5 DEF Abstract!Deal

\* The other steps of a pick.
LEMMA PickImplements ==
  ASSUME BagInv, NEW c \in Calls, List(c) \/ cmd_pick(c), ~WriteBag(c)
  PROVE  Abstract!Next \/ UNCHANGED avars
<1> USE DEF BagInv, IInv, Goto
<1>1. CASE List(c)
  <2>1. LastDealt' = LastDealt /\ Told' = [Told EXCEPT ![c] = Nothing]
    BY <1>1 DEF List, LastDealt, Told, TypeOK
  <2>2. Abstract!List(c)
    BY <1>1, <2>1 DEF List, Abstract!List
  <2>3. QED BY <2>2 DEF Abstract!Next
<1>2. CASE cmd_pick_None(c) \/ PrintChoice(c)
  <2>1. listing' = listing
    <3>1. listing[c] = {}
      BY <1>2 DEF cmd_pick_None, PrintChoice, BookInv
    <3>2. listing' = [listing EXCEPT ![c] = {}] /\ listing \in [Calls -> SUBSET Variants]
      BY <1>2 DEF cmd_pick_None, PrintChoice, Printed, TypeOK
    <3>3. QED BY <3>1, <3>2
  <2>2. LastDealt' = LastDealt
    BY <1>2 DEF cmd_pick_None, PrintChoice, Printed, LastDealt, LockInv, TypeOK
  <2>3. Told' = Told
    BY <1>2 DEF cmd_pick_None, PrintChoice, Printed, BookInv, Told, TypeOK
  <2>4. QED BY <1>2, <2>1, <2>2, <2>3 DEF cmd_pick_None, PrintChoice, Printed, avars
<1>3. CASE cmd_pick_Only(c) \/ RandomDraw(c)
  <2>1. PICK v \in listing[c] : /\ listing[c] = {v} \/ host # "ok"
                                /\ Printed(c, v) /\ pc[c] \in {"open", "deal"}
                                /\ flock' = flock \/ (flock = c /\ flock' = Nothing)
    BY <1>3 DEF cmd_pick_Only, RandomDraw, LockInv
  <2>2. v \in Variants
    BY <2>1 DEF TypeOK
  <2>3. LastDealt' = LastDealt
    BY <2>1, NothingIsNothing DEF Printed, LastDealt, TypeOK, LockInv
  <2>4. Told' = [Told EXCEPT ![c] = v]
    BY <2>1 DEF Printed, Told, TypeOK
  <2>5. Abstract!Draw(c, v)
    BY <2>1, <2>3, <2>4 DEF Printed, Abstract!Draw
  <2>6. QED BY <2>2, <2>5 DEF Abstract!Next
<1>4. CASE OpenLock(c) \/ Flock(c) \/ Deal(c)
  <2>1. LastDealt' = LastDealt
    BY <1>4, NothingIsNothing DEF OpenLock, Flock, Deal, LastDealt, LockInv, TypeOK
  <2>2. Told' = Told
    BY <1>4 DEF OpenLock, Flock, Deal, Told, TypeOK
  <2>3. QED BY <1>4, <2>1, <2>2 DEF OpenLock, Flock, Deal, avars
<1>5. CASE WriteLast(c)
  <2>1. flock = c /\ LastDealt = choice[c] /\ LastDealt' = last'
    BY <1>5, NothingIsNothing DEF WriteLast, LastDealt, LockInv, TypeOK
  <2>2. Told' = Told
    BY <1>5 DEF WriteLast, Told, TypeOK
  <2>3. CASE host = "full"
    BY <1>5, <2>1, <2>2, <2>3 DEF WriteLast, Abstract!Forget, Abstract!Next
  <2>4. CASE host # "full"
    BY <1>5, <2>1, <2>2, <2>4 DEF WriteLast, avars
  <2>5. QED BY <2>3, <2>4
<1>6. QED BY <1>1, <1>2, <1>3, <1>4, <1>5 DEF cmd_pick, pick_from_bag

\* The environment disturbs the dealer as it disturbs the code.
LEMMA EnvironmentImplements ==
  ASSUME BagInv, Install \/ FailOrMend \/ Restart \/ UNCHANGED vars
  PROVE  Abstract!Next \/ UNCHANGED avars
<1> USE DEF BagInv, IInv
<1>1. CASE Install
  BY <1>1 DEF Install, command, aux, LastDealt, Told, TypeOK, Abstract!Install, Abstract!Next
<1>2. CASE FailOrMend
  BY <1>2, FaultsAreFaults DEF FailOrMend, command, aux, LastDealt, Told, Abstract!Disturb,
     Abstract!Next
<1>3. CASE Restart
  BY <1>3, FaultsAreFaults DEF Restart, LastDealt, Told, Abstract!Restart, Abstract!Next
<1>4. CASE UNCHANGED vars
  BY <1>4 DEF vars, command, aux, LastDealt, Told, avars
<1>5. QED BY <1>1, <1>2, <1>3, <1>4

\* Every behaviour of the picks of concurrent calls is one of the dealer's:
\* "every variant is played once, in a random order, before any repeats".
THEOREM ImplementsDealer == Spec => DealerSpec
<1>1. ASSUME BagInv, [Next]_vars PROVE [Abstract!Next]_(Abstract!vars)
  <2>1. CASE \E c \in Calls : WriteBag(c)
    <3>1. PICK c \in Calls : WriteBag(c)
      BY <2>1
    <3>2. choice[c] \in Variants
      BY <1>1, <3>1 DEF BagInv, IInv, TypeOK, DealInv, WriteBag, Remaining, FirstOfNew
    <3>3. QED BY <1>1, <3>1, <3>2, WriteBagImplements DEF Abstract!Next
  <2>2. CASE \E c \in Calls : (List(c) \/ cmd_pick(c)) /\ ~WriteBag(c)
    BY <1>1, <2>2, PickImplements DEF avars, Abstract!vars
  <2>3. CASE Install \/ FailOrMend \/ Restart \/ UNCHANGED vars
    BY <1>1, <2>3, EnvironmentImplements DEF avars, Abstract!vars
  <2>4. QED BY <1>1, <2>1, <2>2, <2>3 DEF Next
<1>2. QED BY <1>1, InitImplements, BagInvHolds, PTL DEF Spec, DealerSpec, Abstract!Spec
=============================================================================
