------------------------------ MODULE MenuProofs ------------------------------
(***************************************************************************)
(* Theorems about Menu and BellaFlags: concurrent toggles are flips of one *)
(* switch, a caller's own toggle is obeyed, the game is fair, and no loop  *)
(* of the dialplan exhausts max_forwards, for any number of calls, any     *)
(* range of secrets and any number of tries.                               *)
(***************************************************************************)
EXTENDS Menu, TLAPS

-----------------------------------------------------------------------------
(* The flag                                                                *)

FlagsNext == FillOrFree \/ \E c \in Calls : StartToggle(c) \/ ToggleStep(c) \/ PrintNew(c)

\* All that the menu does to the flag is what bella-flags does.
LEMMA MenuStepsFlags ==
  ASSUME [Next]_vars
  PROVE  FlagsNext \/ UNCHANGED flags
<1>1. CASE Disk \/ UNCHANGED vars
  BY <1>1 DEF Disk, vars, FlagsNext
<1>2. CASE \E c \in Calls : CallStep(c) \/ OffHook(c) \/ HangUp(c)
  <2> PICK c \in Calls : CallStep(c) \/ OffHook(c) \/ HangUp(c)
    BY <1>2
  <2>1. CASE \/ Greet(c) \/ Choose(c) \/ Dispatch(c) \/ ToggleUnavailable(c)
             \/ AnnounceToggle(c) \/ Scolded(c) \/ AfterInvalid(c) \/ TransferElsewhere(c)
             \/ OffHook(c) \/ HangUp(c)
    BY <2>1 DEF Greet, Choose, Dispatch, ToggleUnavailable, AnnounceToggle, Scolded, Scold,
                AfterInvalid, TransferElsewhere, OffHook, HangUp, Fresh
  <2>2. CASE DispatchToggle(c) \/ Toggle(c) \/ Toggled(c)
    BY <2>2 DEF DispatchToggle, Toggle, Toggled, FlagsNext
  <2>3. CASE Game(c)
    BY <2>3 DEF Game, GameStart, GameAsk, GameNudge, GameEval, GameUnavailable, GameOver,
                GameClose, GameHint, GameOther, others
  <2>4. CASE Tale(c)
    BY <2>4 DEF Tale, TaleAsk, TaleAskAgain, TaleAfterInvalid, TaleBranch, TaleEnd, unused
  <2>5. QED BY <2>1, <2>2, <2>3, <2>4 DEF CallStep
<1>3. QED BY <1>1, <1>2 DEF Next

\* A toggle takes the lock, or goes on without one, and reads.
LEMMA LockKeepsFlagsInv ==
  ASSUME FlagsInv, NEW c \in Calls, StartToggle(c) \/ with_lock(c) \/ ReadFlag(c)
  PROVE  FlagsInv'
<1> USE DEF FlagsInv, StartToggle, with_lock, ReadFlag, Goto
<1>1. FlagsTypeOK'
  BY DEF FlagsTypeOK, Stages, Flipped, Values
<1>2. LockInv'
  BY NothingIsNothing DEF FlagsTypeOK, LockInv
<1>3. NewInv'
  BY NothingIsNothing DEF FlagsTypeOK, NewInv, Flipped, Get
<1>4. QED BY <1>1, <1>2, <1>3

\* It writes and prints; and the disk fills.
LEMMA WriteKeepsFlagsInv ==
  ASSUME FlagsInv, FillOrFree \/ \E c \in Calls : write_flag(c) \/ PrintNew(c)
  PROVE  FlagsInv'
<1> USE DEF FlagsInv, FillOrFree, write_flag, PrintNew, Goto
<1>1. FlagsTypeOK'
  BY DEF FlagsTypeOK, Stages, Values, NewInv
<1>2. LockInv'
  BY NothingIsNothing DEF FlagsTypeOK, LockInv
<1>3. NewInv'
  BY NothingIsNothing DEF FlagsTypeOK, NewInv, LockInv, Flipped, Get
<1>4. QED BY <1>1, <1>2, <1>3

LEMMA FlagsInvInit == MenuInit => FlagsInv
<1> SUFFICES ASSUME MenuInit PROVE FlagsInv
  OBVIOUS
<1> USE DEF MenuInit, FlagsInit
<1>1. FlagsTypeOK
  BY FaultsAreFaults DEF FlagsTypeOK, Stages
<1>2. LockInv
  BY DEF LockInv
<1>3. NewInv
  BY DEF NewInv
<1>4. QED BY <1>1, <1>2, <1>3 DEF FlagsInv

LEMMA FlagsInvStep == FlagsInv /\ [Next]_vars => FlagsInv'
<1> SUFFICES ASSUME FlagsInv, [Next]_vars PROVE FlagsInv'
  OBVIOUS
<1>1. CASE UNCHANGED flags
  BY <1>1 DEF flags, FlagsInv, FlagsTypeOK, LockInv, NewInv, Flipped, Get
<1>2. CASE FlagsNext
  BY <1>2, LockKeepsFlagsInv, WriteKeepsFlagsInv DEF FlagsNext, ToggleStep
<1>3. QED BY <1>1, <1>2, MenuStepsFlags

\* The flag is typed, only the holder of the lock is between its read and its
\* write, and what it is about to write is the opposite of what is there.
THEOREM FlagsInductive == Spec => []FlagsInv
BY FlagsInvInit, FlagsInvStep, PTL DEF Spec

\* A write of a toggle is a flip, a blanking or a failure of the switch.
LEMMA WriteImplements ==
  ASSUME FlagsInv, NEW c \in Calls, write_flag(c)
  PROVE  TheSwitch!Next
<1> USE DEF FlagsInv
<1>1. new[c] = Flipped /\ Flipped = TheSwitch!Other(State)
  BY DEF write_flag, NewInv, Flipped, Get, State, TheSwitch!Other, FlagsTypeOK, Values
<1>2. Told' = [Told EXCEPT ![c] = Flipped]
  BY <1>1 DEF write_flag, Goto, Told, FlagsTypeOK
<1>3. TheSwitch!Tell(c)
  BY <1>1, <1>2 DEF TheSwitch!Tell
<1>4. CASE disk = "ok"
  <2>1. State' = Flipped
    BY <1>1, <1>4 DEF write_flag, State, Flipped
  <2>2. TheSwitch!Flip(c)
    BY <1>1, <1>3, <1>4, <2>1 DEF write_flag, TheSwitch!Flip
  <2>3. QED BY <2>2 DEF TheSwitch!Next
<1>5. CASE disk = "full"
  BY <1>3, <1>5 DEF write_flag, State, TheSwitch!Blank, TheSwitch!Next
<1>6. CASE disk = "unwritable"
  BY <1>3, <1>6 DEF write_flag, State, TheSwitch!Fail, TheSwitch!Next
<1>7. QED BY <1>4, <1>5, <1>6 DEF FlagsTypeOK

\* Concurrent toggles of any number of calls are flips of one switch, one after
\* the other, each told the state that it left.
THEOREM ImplementsSwitch == Spec => SwitchSpec
<1>1. MenuInit => TheSwitch!Init
  BY FaultsAreFaults DEF MenuInit, FlagsInit, TheSwitch!Init, State, Told
<1>2. ASSUME FlagsInv, [Next]_vars PROVE [TheSwitch!Next]_(TheSwitch!vars)
  <2> USE DEF FlagsInv
  <2>1. CASE UNCHANGED flags
    BY <2>1 DEF flags, State, Told, TheSwitch!vars
  <2>2. CASE FillOrFree
    BY <2>2 DEF FillOrFree, State, Told, TheSwitch!FillOrFree, TheSwitch!Next
  <2>3. ASSUME NEW c \in Calls, StartToggle(c) \/ with_lock(c) \/ ReadFlag(c)
        PROVE  UNCHANGED TheSwitch!vars
    <3>1. Told' = Told
      BY <2>3, <1>2 DEF StartToggle, with_lock, ReadFlag, Goto, Told, FlagsTypeOK, NewInv
    <3>2. QED BY <2>3, <3>1 DEF StartToggle, with_lock, ReadFlag, State, TheSwitch!vars
  <2>4. ASSUME NEW c \in Calls, PrintNew(c) PROVE TheSwitch!Heard(c)
    <3>1. Told' = [Told EXCEPT ![c] = Nothing]
      BY <2>4, <1>2 DEF PrintNew, Goto, Told, FlagsTypeOK
    <3>2. QED BY <2>4, <3>1 DEF PrintNew, State, TheSwitch!Heard
  <2>5. QED BY <1>2, <2>1, <2>2, <2>3, <2>4, MenuStepsFlags, WriteImplements
            DEF FlagsNext, ToggleStep, TheSwitch!Next
<1>3. QED BY <1>1, <1>2, FlagsInductive, PTL DEF Spec, SwitchSpec, TheSwitch!Spec

-----------------------------------------------------------------------------
(* The budget of transfers                                                 *)

\* Forwards that a call at n uses up, at most, before max_forwards is set again,
\* one of them left over.
Need(n) ==
  CASE n = "MESSAGE_PLAY" -> 9
    [] n \in {"MENU", "DISPATCH_AFTER_INVALID", "MESSAGE_KEY_PREV"} -> 8
    [] n \in {"DISPATCH", "MESSAGE_KEY_NEXT"} -> 7
    [] n \in {"LISTEN_MESSAGES", "MESSAGE_KEY_DRAWER", "DRAWER_PLAY"} -> 6
    [] n \in {"LISTEN_START", "MESSAGE_KEY_DEFAULT", "DRAWER_KEY_PREV"} -> 5
    [] n \in {"GAME_EVAL", "TALE_AI", "MESSAGE_ANNOUNCE", "DRAWER_KEY_NEXT"} -> 4
    [] n \in {"TOGGLE", "GAME_VERDICT", "TALE_D", "CALL_OTHER", "MESSAGE_ANNOUNCE_PLAY",
              "MESSAGE_END", "DRAWER_OPEN_PREV", "DRAWER_KEY_DELETE", "DISCO_RAISE",
              "DISCO_LOWER"} -> 3
    [] n \in {"ADMIN_DISCO_ANNOUNCE", "GAME_START", "GAME_WIN", "GAME_LOSE", "TALE_END",
              "NUMBER", "DIAL", "LEAVE_MESSAGE", "MESSAGE_ANNOUNCE_KEY", "PLAYBACK_END_KEY",
              "DRAWER_OPEN_DELETE", "DRAWER_KEY_DEFAULT", "DRAWER_END", "DISCO_RAISE_GO",
              "DISCO_LOWER_GO", "DISCO_STOP", "SURVEY_EVAL", "SURVEY_STATS"} -> 2
    [] OTHER -> 1

LEMMA NeedTyped == \A n : Need(n) \in 1..9
BY DEF Need

LEMMA NeedOfMenu ==
  /\ Need("MENU") = 8 /\ Need("DISPATCH_AFTER_INVALID") = 8 /\ Need("DISPATCH") = 7
  /\ Need("TOGGLE") = 3 /\ Need("ADMIN_DISCO_ANNOUNCE") = 2
  /\ Need("700") = 1 /\ Need("unrouted") = 1 /\ Need("onhook") = 1
  /\ Need("NUMBER") = 2 /\ Need("DIAL") = 2
BY DEF Need

LEMMA NeedOfStories ==
  /\ Need("GAME_START") = 2 /\ Need("GAME_ASK") = 1 /\ Need("GAME_EVAL") = 4
  /\ Need("GAME_VERDICT") = 3 /\ Need("GAME_WIN") = 2 /\ Need("GAME_LOSE") = 2
  /\ Need("TALE_OPEN") = 1 /\ Need("TALE_SHIELD") = 1 /\ Need("TALE_FEED") = 1
  /\ Need("TALE_R") = 1 /\ Need("TALE_AI") = 4 /\ Need("TALE_D") = 3 /\ Need("TALE_END") = 2
BY DEF Need

\* Each transfer of the other options, but for those from an extension that
\* resets max_forwards, leads to where less is needed.
LEMMA NeedFalls ==
  ASSUME NEW n \in DOMAIN Elsewhere, n \notin Resets, NEW m \in Elsewhere[n]
  PROVE  Need(m) < Need(n)
BY DEF Elsewhere, Resets, Need

NeedInv == \A c \in Calls : node[c] # "dropped" /\ forwards[c] >= Need(node[c])

-----------------------------------------------------------------------------
(* The invariant                                                           *)

\* `node` has no type but its domain; a dropped call has no next transfer.
NodeInv ==
  /\ DOMAIN node = Calls
  /\ \A c \in Calls : node[c] # "dropped" => forwards[c] > 0

\* What a caller's toggle left is still in the file, and was read from it by the
\* greeting that precedes a dispatch.
OwnInv ==
  \A c \in Calls : owed[c] # "" =>
    /\ flag = owed[c]
    /\ node[c] \in {"MENU", "DISPATCH", "DISPATCH_AFTER_INVALID"} => disco_ok[c] \in {owed[c], ""}

\* What the game of a call at n has told, with the record g and the hints h:
\* between a verdict and its hint the tries are one behind the guesses.
FairAt(n, g, h) ==
  LET playing == /\ g.secret \in h.possible
                 /\ g.tries = h.guesses /\ h.guesses < TriesMax
  IN /\ n \in {"GAME_ASK", "GAME_EVAL"} /\ g.intact => playing
     /\ n = "GAME_LOSE" => g.secret \in h.possible /\ h.guesses = TriesMax
     /\ n = "GAME_WIN" => h.possible = {g.secret}
     /\ n = "GAME_VERDICT" =>
          CASE g.verdict = "hit"  -> h.possible = {g.secret}
            [] g.verdict = "lose" -> g.secret \in h.possible /\ h.guesses = TriesMax
            [] g.verdict = ""     -> g.intact => playing
            [] OTHER -> /\ g.secret \in h.possible
                        /\ g.tries + 1 = h.guesses /\ h.guesses < TriesMax

GameInv == \A c \in Calls : FairAt(node[c], game[c], hints[c])

\* A pick of the fable is one that its fork has.
TaleInv == \A c \in Calls : tale[c].pick \in Picks(c) \cup {0}

MenuInv == FlagsInv /\ MTypeOK /\ NodeInv /\ OwnInv /\ GameInv /\ TaleInv

-----------------------------------------------------------------------------
(* Types                                                                   *)

LEMMA BudgetPositive == Budget \in Nat /\ Budget > 0 /\ Budget \in 0..Budget
BY MenuBounds

\* A transfer keeps count.
LEMMA TransferTyped ==
  ASSUME MTypeOK, NodeInv, NEW c \in Calls, node[c] # "dropped", NEW n,
         Transfer(c, n) \/ ResetAndTransfer(c, n)
  PROVE  forwards' \in [Calls -> 0..Budget] /\ NodeInv'
<1>1. forwards[c] \in 1..Budget /\ Budget \in 1..Budget
  <2>1. Budget \in Nat /\ Budget > 0
    BY MenuBounds
  <2>2. forwards[c] \in 0..Budget /\ forwards[c] > 0
    BY DEF MTypeOK, NodeInv
  <2>3. QED BY <2>1, <2>2
<1>2. PICK left \in 1..Budget : TransferWith(c, left, n)
  BY <1>1 DEF Transfer, ResetAndTransfer
<1>3. forwards' = [forwards EXCEPT ![c] = left - 1] /\ left - 1 \in 0..Budget
  BY <1>2, MenuBounds DEF TransferWith
<1>4. forwards' \in [Calls -> 0..Budget]
  BY <1>3 DEF MTypeOK
<1>5. NodeInv'
  <2>1. DOMAIN node' = Calls
    BY <1>2 DEF NodeInv, TransferWith
  <2>2. \A d \in Calls \ {c} : node'[d] = node[d] /\ forwards'[d] = forwards[d]
    BY <1>2 DEF NodeInv, TransferWith, MTypeOK
  <2>3. node'[c] = "dropped" \/ forwards'[c] > 0
    <3>1. node'[c] = (IF left > 1 THEN n ELSE "dropped") /\ forwards'[c] = left - 1
      BY <1>2 DEF NodeInv, TransferWith, MTypeOK
    <3>2. left \in Nat /\ left >= 1
      BY MenuBounds
    <3>3. QED BY <3>1, <3>2
  <2>4. QED BY <2>1, <2>2, <2>3 DEF NodeInv
<1>6. QED BY <1>4, <1>5

LEMMA GetTyped == FlagsTypeOK => Replies \subseteq Values \cup {"", "empty"}
BY DEF FlagsTypeOK, Replies, Get, Values

LEMMA DispatchKeepsType ==
  ASSUME MenuInv, FlagsTypeOK', NEW c \in Calls,
         \/ Greet(c) \/ Choose(c) \/ Dispatch(c) \/ Scolded(c) \/ AfterInvalid(c)
         \/ TransferElsewhere(c)
  PROVE  MTypeOK' /\ NodeInv'
<1> USE DEF MenuInv, gate, game_tale
<1>1. CASE Greet(c)
  <2>1. PICK r \in Values \cup {"", "empty"} : disco_ok' = [disco_ok EXCEPT ![c] = r]
    BY <1>1, GetTyped DEF Greet, ReadGate, MTypeOK
  <2>2. Budget \in Nat /\ Budget > 0 /\ Budget \in 0..Budget
    BY BudgetPositive
  <2>3. NodeInv'
    BY <1>1, <2>2 DEF Greet, MTypeOK, NodeInv
  <2>4. forwards' \in [Calls -> 0..Budget]
    BY <1>1, <2>2 DEF Greet, MTypeOK
  <2>5. QED BY <1>1, <2>1, <2>3, <2>4 DEF Greet, MTypeOK
<1>2. CASE Choose(c)
  <2>1. PICK keys \in Options \cup {""} : bella_opt' = [bella_opt EXCEPT ![c] = keys]
    BY <1>2, MenuBounds DEF Choose
  <2>2. QED BY <1>2, <2>1, TransferTyped DEF Choose, MTypeOK
<1>3. CASE Dispatch(c)
  BY <1>3, TransferTyped DEF Dispatch, Spent, MTypeOK
<1>4. CASE Scolded(c)
  <2>1. PICK keys \in Options \cup {""} : Scold(c, keys)
    BY <1>4, MenuBounds DEF Scolded
  <2>2. QED BY <2>1, TransferTyped DEF Scold, MTypeOK
<1>5. CASE AfterInvalid(c)
  BY <1>5, TransferTyped DEF AfterInvalid, MTypeOK
<1>6. CASE TransferElsewhere(c)
  <2>1. node[c] # "dropped"
    BY <1>6 DEF TransferElsewhere, Elsewhere
  <2>2. PICK n : Transfer(c, n) \/ ResetAndTransfer(c, n)
    BY <1>6 DEF TransferElsewhere, Transfer, ResetAndTransfer
  <2>3. QED BY <1>6, <2>1, <2>2, TransferTyped DEF TransferElsewhere, MTypeOK
<1>7. QED BY <1>1, <1>2, <1>3, <1>4, <1>5, <1>6

LEMMA ToggleKeepsType ==
  ASSUME MenuInv, FlagsTypeOK', NEW c \in Calls,
         DispatchToggle(c) \/ ToggleUnavailable(c) \/ Toggle(c) \/ Toggled(c) \/ AnnounceToggle(c)
  PROVE  MTypeOK' /\ NodeInv'
<1> USE DEF MenuInv, game_tale
<1>1. CASE DispatchToggle(c)
  BY <1>1 DEF DispatchToggle, Spent, MTypeOK, NodeInv
<1>2. CASE ToggleUnavailable(c)
  BY <1>2, TransferTyped DEF ToggleUnavailable, Spent, MTypeOK
<1>3. CASE Toggle(c)
  <2>1. owed' \in [Calls -> Values \cup {""}]
    <3>1. new[c] \in Values \/ flag' = flag
      BY <1>3 DEF Toggle, ToggleStep, with_lock, ReadFlag, write_flag, FlagsInv, FlagsTypeOK, NewInv
    <3>2. CASE flag' = flag
      BY <1>3, <3>2 DEF Toggle, MTypeOK
    <3>3. CASE flag' # flag
      BY <1>3, <3>1, <3>3 DEF Toggle
    <3>4. QED BY <3>2, <3>3
  <2>2. QED BY <1>3, <2>1 DEF Toggle, MTypeOK, NodeInv
<1>4. CASE Toggled(c)
  <2>1. new[c] \in Values
    BY <1>4 DEF Toggled, PrintNew, FlagsInv, FlagsTypeOK, NewInv
  <2>2. QED BY <1>4, <2>1, TransferTyped DEF Toggled, MTypeOK
<1>5. CASE AnnounceToggle(c)
  <2>1. forwards' \in [Calls -> 0..Budget] /\ NodeInv'
    BY <1>5, TransferTyped DEF AnnounceToggle, MTypeOK, NodeInv
  <2>2. QED BY <1>5, <2>1 DEF AnnounceToggle, MTypeOK
<1>6. QED BY <1>1, <1>2, <1>3, <1>4, <1>5

LEMMA BranchInTale ==
  ASSUME MenuInv, NEW c \in Calls, TaleBranch(c)
  PROVE  Tree[tale[c].fork][tale[c].pick] \in {"TALE_SHIELD", "TALE_FEED", "TALE_END"}
<1>1. tale[c].fork \in DOMAIN Tree /\ tale[c].pick \in DOMAIN Tree[tale[c].fork]
  BY DEF TaleBranch, MenuInv, MTypeOK, TaleInv, Picks
<1>2. \A f \in DOMAIN Tree : \A p \in DOMAIN Tree[f] :
        Tree[f][p] \in {"TALE_SHIELD", "TALE_FEED", "TALE_END"}
  BY DEF Tree
<1>3. QED BY <1>1, <1>2

LEMMA TaleKeepsType ==
  ASSUME MenuInv, FlagsTypeOK', NEW c \in Calls, Tale(c)
  PROVE  MTypeOK' /\ NodeInv'
<1> USE DEF MenuInv, unused, gate
<1>1. ASSUME NEW f \in DOMAIN Tree, NEW p \in 0..3, TaleAsk(c, f, p)
      PROVE  MTypeOK' /\ NodeInv'
  <2>1. PICK n : node[c] # "dropped" /\ ResetAndTransfer(c, n)
    BY <1>1 DEF TaleAsk, Tree
  <2>2. QED BY <1>1, <2>1, TransferTyped DEF TaleAsk, MTypeOK
<1>2. ASSUME NEW p \in 0..3, TaleAskAgain(c, p)
      PROVE  MTypeOK' /\ NodeInv'
  BY <1>2, TransferTyped DEF TaleAskAgain, MTypeOK
<1>3. CASE TaleAfterInvalid(c)
  BY <1>3, TransferTyped DEF TaleAfterInvalid, MTypeOK
<1>4. CASE TaleBranch(c)
  BY <1>4, TransferTyped DEF TaleBranch, MTypeOK
<1>5. CASE TaleEnd(c)
  <2>1. NoTale \in [fork : DOMAIN Tree, pick : 0..3]
    BY DEF NoTale, Tree
  <2>2. QED BY <1>5, <2>1, TransferTyped DEF TaleEnd, MTypeOK
<1>6. QED BY <1>1, <1>2, <1>3, <1>4, <1>5 DEF Tale

LEMMA GameBounds ==
  Highest \in Nat /\ Highest > 0 /\ TriesMax \in Nat /\ TriesMax > 0
BY MenuBounds

LEMMA NoGameTyped ==
  /\ NoGame \in [secret : Secrets, tries : 0..TriesMax - 1, guess : Secrets \cup {0},
                 verdict : {"", "hit", "lose", "high", "low"}, intact : BOOLEAN]
  /\ NoReply \in [secret : Secrets, tries : 0..TriesMax - 1, guess : Secrets \cup {0},
                  verdict : {"", "hit", "lose", "high", "low"}, intact : BOOLEAN]
  /\ NoHints \in [guesses : 0..TriesMax, possible : SUBSET Secrets]
  /\ NoTale \in [fork : DOMAIN Tree, pick : 0..3]
<1>1. 1 \in Secrets /\ 0 \in 0..TriesMax - 1 /\ 0 \in 0..TriesMax
  BY GameBounds DEF Secrets
<1>2. NoHints \in [guesses : 0..TriesMax, possible : SUBSET Secrets]
  BY <1>1 DEF NoHints
<1>3. NoTale \in [fork : DOMAIN Tree, pick : 0..3]
  BY DEF NoTale, Tree
<1>4. QED BY <1>1, <1>2, <1>3 DEF NoGame, NoReply

LEMMA CallersKeepType ==
  ASSUME MenuInv, FlagsTypeOK', NEW c \in Calls, OffHook(c) \/ HangUp(c)
  PROVE  MTypeOK' /\ NodeInv'
<1> USE DEF MenuInv
<1>1. Fresh(c) /\ \E n : node' = [node EXCEPT ![c] = n]
  BY DEF OffHook, HangUp
<1>2. forwards' \in [Calls -> 0..Budget] /\ forwards' = [forwards EXCEPT ![c] = Budget]
  BY <1>1, BudgetPositive DEF Fresh, MTypeOK
<1>3. NodeInv'
  BY <1>1, <1>2, BudgetPositive DEF NodeInv, MTypeOK
<1>4. QED BY <1>1, <1>2, <1>3, NoGameTyped DEF Fresh, MTypeOK

-----------------------------------------------------------------------------
(* The game                                                                *)

\* A verdict is one of the four, and tells what it should.
LEMMA VerdictTells ==
  ASSUME NEW g, g.secret \in Secrets, g.guess \in Secrets, g.tries \in Nat, g.tries < TriesMax
  PROVE  /\ Verdict(g) \in {"hit", "lose", "high", "low"}
         /\ Verdict(g) = "hit" <=> g.guess = g.secret
         /\ Verdict(g) = "lose" => g.tries + 1 = TriesMax
         /\ Verdict(g) = "high" => g.guess < g.secret /\ g.tries + 1 < TriesMax
         /\ Verdict(g) = "low" => g.guess > g.secret /\ g.tries + 1 < TriesMax
<1>1. g.secret \in Nat /\ g.guess \in Nat /\ TriesMax \in Nat
  BY GameBounds DEF Secrets
<1>2. CASE g.guess = g.secret
  BY <1>1, <1>2 DEF Verdict
<1>3. CASE g.guess # g.secret /\ g.tries + 1 >= TriesMax
  BY <1>1, <1>3 DEF Verdict
<1>4. CASE g.guess < g.secret /\ g.tries + 1 < TriesMax
  BY <1>1, <1>4 DEF Verdict
<1>5. CASE g.guess > g.secret /\ g.tries + 1 < TriesMax
  BY <1>1, <1>5 DEF Verdict
<1>6. QED BY <1>1, <1>2, <1>3, <1>4, <1>5

\* What is left after a true verdict still contains the secret.
LEMMA LeftKeepsSecret ==
  ASSUME NEW g, g.secret \in Secrets, g.guess \in Secrets, g.tries \in Nat, g.tries < TriesMax,
         NEW possible \in SUBSET Secrets, g.secret \in possible
  PROVE  /\ Left(g, possible, Verdict(g)) \subseteq Secrets
         /\ g.secret \in Left(g, possible, Verdict(g))
         /\ Verdict(g) = "hit" => Left(g, possible, Verdict(g)) = {g.secret}
BY VerdictTells DEF Left

GameType == [secret : Secrets, tries : 0..TriesMax - 1, guess : Secrets \cup {0},
             verdict : {"", "hit", "lose", "high", "low"}, intact : BOOLEAN]
HintsType == [guesses : 0..TriesMax, possible : SUBSET Secrets]

GameTyped == game \in [Calls -> GameType] /\ hints \in [Calls -> HintsType]

\* A move of one call, in the game or out of it.
LEMMA MoveIsFair ==
  ASSUME MenuInv, NEW c \in Calls, NEW n, NEW g \in GameType, NEW h \in HintsType,
         node' = [node EXCEPT ![c] = n], FairAt(n, g, h),
         game' = [game EXCEPT ![c] = g], hints' = [hints EXCEPT ![c] = h]
  PROVE  GameTyped' /\ GameInv'
<1>1. GameTyped'
  BY DEF GameTyped, MenuInv, MTypeOK, GameType, HintsType
<1>2. FairAt(node'[c], game'[c], hints'[c])
  BY DEF MenuInv, MTypeOK, NodeInv
<1>3. ASSUME NEW d \in Calls \ {c} PROVE FairAt(node'[d], game'[d], hints'[d])
  <2>1. node'[d] = node[d] /\ game'[d] = game[d] /\ hints'[d] = hints[d]
    BY DEF MenuInv, MTypeOK, NodeInv
  <2>2. QED BY <2>1 DEF MenuInv, GameInv
<1>4. QED BY <1>1, <1>2, <1>3 DEF GameInv

GameNodes == {"GAME_ASK", "GAME_EVAL", "GAME_VERDICT", "GAME_WIN", "GAME_LOSE"}

\* No other step enters the game but by its beginning.
LEMMA OutsideIsFair ==
  ASSUME MenuInv, NEW c \in Calls, UNCHANGED <<game, hints>>,
         node'[c] \notin GameNodes, \A d \in Calls \ {c} : node'[d] = node[d]
  PROVE  GameTyped' /\ GameInv'
<1>1. GameTyped'
  BY DEF GameTyped, MenuInv, MTypeOK, GameType, HintsType
<1>2. FairAt(node'[c], game'[c], hints'[c])
  BY DEF FairAt, GameNodes
<1>3. ASSUME NEW d \in Calls \ {c} PROVE FairAt(node'[d], game'[d], hints'[d])
  BY DEF MenuInv, GameInv
<1>4. QED BY <1>1, <1>2, <1>3 DEF GameInv

LEMMA TransferMoves ==
  ASSUME NodeInv, NEW c \in Calls, NEW n, Transfer(c, n) \/ ResetAndTransfer(c, n)
  PROVE  node'[c] \in {n, "dropped"} /\ \A d \in Calls \ {c} : node'[d] = node[d]
BY DEF NodeInv, Transfer, ResetAndTransfer, TransferWith

\* A transfer leads to its target, or drops the call.
LEMMA TransferLands ==
  ASSUME NEW c \in Calls, NEW n, Transfer(c, n) \/ ResetAndTransfer(c, n)
  PROVE  \E m \in {n, "dropped"} : node' = [node EXCEPT ![c] = m]
BY DEF Transfer, ResetAndTransfer, TransferWith

LEMMA GameStartIsFair ==
  ASSUME MenuInv, NEW c \in Calls, GameStart(c)
  PROVE  GameTyped' /\ GameInv'
<1>1. PICK g \in GameType : /\ game' = [game EXCEPT ![c] = g]
                            /\ g.intact => g.secret \in Secrets /\ g.tries = 0
  BY NoGameTyped DEF GameStart, GameType, NoGame, NoReply
<1>2. NoHints \in HintsType
  BY NoGameTyped DEF HintsType
<1>3. PICK n \in {"GAME_ASK", "dropped"} : node' = [node EXCEPT ![c] = n]
  BY TransferLands DEF GameStart
<1>4. FairAt(n, g, NoHints)
  BY <1>1, GameBounds DEF FairAt, NoHints
<1>5. QED BY <1>1, <1>2, <1>3, <1>4, MoveIsFair DEF GameStart

LEMMA GameAskIsFair ==
  ASSUME MenuInv, NEW c \in Calls,
         \/ \E k \in Secrets \cup {0} : GameAsk(c, k)
         \/ GameNudge(c) \/ GameUnavailable(c) \/ GameOther(c)
  PROVE  GameTyped' /\ GameInv'
<1>1. PICK h \in HintsType : h = hints[c] /\ hints' = [hints EXCEPT ![c] = h]
  <2>1. hints[c] \in HintsType /\ hints = [hints EXCEPT ![c] = hints[c]]
    BY DEF MenuInv, MTypeOK, HintsType
  <2>2. hints' = hints
    BY DEF GameAsk, GameNudge, GameUnavailable, GameOther
  <2>3. QED BY <2>1, <2>2
<1>2. game[c] \in GameType /\ FairAt(node[c], game[c], h)
  BY <1>1 DEF MenuInv, MTypeOK, GameType, GameInv
<1>3. PICK g \in GameType :
        /\ game' = [game EXCEPT ![c] = g]
        /\ g.secret = game[c].secret /\ g.tries = game[c].tries /\ g.intact = game[c].intact
        /\ GameUnavailable(c) => g.verdict = ""
  <2>1. game = [game EXCEPT ![c] = game[c]]
    BY DEF MenuInv, MTypeOK
  <2>2. ASSUME NEW k \in Secrets \cup {0}, GameAsk(c, k)
        PROVE  game' = [game EXCEPT ![c] = [game[c] EXCEPT !.guess = k]] /\ ~GameUnavailable(c)
    BY <2>2 DEF GameAsk, GameUnavailable
  <2>3. ASSUME NEW k \in Secrets \cup {0}
        PROVE  LET g == [game[c] EXCEPT !.guess = k] IN
               /\ g \in GameType
               /\ g.secret = game[c].secret /\ g.tries = game[c].tries /\ g.intact = game[c].intact
    BY <1>2 DEF GameType
  <2>4. LET g == [game[c] EXCEPT !.verdict = "", !.guess = 0] IN
        /\ g \in GameType /\ g.verdict = ""
        /\ g.secret = game[c].secret /\ g.tries = game[c].tries /\ g.intact = game[c].intact
    BY <1>2 DEF GameType
  <2>5. CASE GameUnavailable(c)
    BY <2>4, <2>5 DEF GameUnavailable
  <2>6. CASE ~GameUnavailable(c) /\ (GameNudge(c) \/ GameOther(c))
    BY <1>2, <2>1, <2>6 DEF GameNudge, GameOther
  <2>7. CASE \E k \in Secrets \cup {0} : GameAsk(c, k)
    BY <2>2, <2>3, <2>7
  <2>8. QED BY <2>5, <2>6, <2>7
<1>4. CASE GameUnavailable(c)
  <2>1. PICK n \in {"GAME_VERDICT", "dropped"} : node' = [node EXCEPT ![c] = n]
    BY <1>4, TransferLands DEF GameUnavailable
  <2>2. FairAt(n, g, h)
    BY <1>2, <1>3, <1>4 DEF FairAt, GameUnavailable
  <2>3. QED BY <1>1, <1>3, <2>1, <2>2, MoveIsFair
<1>5. CASE ~GameUnavailable(c)
  <2>1. PICK n \in {"GAME_ASK", "GAME_EVAL", "dropped"} : node' = [node EXCEPT ![c] = n]
    BY <1>5, TransferLands DEF GameAsk, GameNudge, GameOther
  <2>2. FairAt(n, g, h)
    BY <1>2, <1>3, <1>5 DEF FairAt, GameAsk, GameNudge, GameOther
  <2>3. QED BY <1>1, <1>3, <2>1, <2>2, MoveIsFair
<1>6. QED BY <1>4, <1>5

\* A true verdict keeps the secret among the numbers left, and a hit leaves it alone.
LEMMA GameEvalIsFair ==
  ASSUME MenuInv, NEW c \in Calls, GameEval(c)
  PROVE  GameTyped' /\ GameInv'
<1> DEFINE v == Verdict(game[c])
           g == [game[c] EXCEPT !.verdict = v, !.guess = 0]
           h == [guesses |-> hints[c].guesses + 1, possible |-> Left(game[c], hints[c].possible, v)]
<1>1. game[c] \in GameType /\ hints[c] \in HintsType /\ FairAt(node[c], game[c], hints[c])
  BY DEF MenuInv, MTypeOK, GameType, HintsType, GameInv
<1>2. /\ game[c].secret \in Secrets /\ game[c].guess \in Secrets
      /\ game[c].tries \in Nat /\ game[c].tries < TriesMax
      /\ hints[c].possible \in SUBSET Secrets /\ game[c].secret \in hints[c].possible
      /\ game[c].tries = hints[c].guesses
  <2>1. /\ game[c].secret \in Secrets /\ game[c].guess \in Secrets \cup {0}
        /\ hints[c].possible \in SUBSET Secrets
        /\ game[c].tries \in 0..TriesMax - 1
    BY <1>1 DEF GameType, HintsType
  <2>2. game[c].secret \in hints[c].possible /\ game[c].tries = hints[c].guesses
    BY <1>1 DEF GameEval, FairAt
  <2>3. game[c].tries \in Nat /\ game[c].tries < TriesMax
    BY <2>1, GameBounds
  <2>4. QED BY <2>1, <2>2, <2>3 DEF GameEval
<1>3. /\ v \in {"hit", "lose", "high", "low"}
      /\ v = "lose" => game[c].tries + 1 = TriesMax
      /\ v \in {"high", "low"} => game[c].tries + 1 < TriesMax
  BY <1>2, VerdictTells
<1>4. /\ h.possible \subseteq Secrets /\ game[c].secret \in h.possible
      /\ v = "hit" => h.possible = {game[c].secret}
  BY <1>2, LeftKeepsSecret
<1>5. g \in GameType
  BY <1>1, <1>3 DEF GameType
<1>6. h \in HintsType
  BY <1>2, <1>4, GameBounds DEF HintsType
<1>7. PICK n \in {"GAME_VERDICT", "dropped"} : node' = [node EXCEPT ![c] = n]
  BY TransferLands DEF GameEval
<1>8. FairAt(n, g, h)
  <2>1. g.secret = game[c].secret /\ g.tries = game[c].tries /\ g.verdict = v
    BY <1>1 DEF GameType
  <2>2. h.guesses = game[c].tries + 1
    BY <1>2
  <2> HIDE DEF v, g, h
  <2>3. QED BY <1>2, <1>3, <1>4, <1>7, <2>1, <2>2 DEF FairAt
<1>9. game' = [game EXCEPT ![c] = g] /\ hints' = [hints EXCEPT ![c] = h]
  BY DEF GameEval, MenuInv, MTypeOK
<1>10. QED BY <1>5, <1>6, <1>7, <1>8, <1>9, MoveIsFair

LEMMA GameEndIsFair ==
  ASSUME MenuInv, NEW c \in Calls, GameOver(c) \/ GameClose(c)
  PROVE  GameTyped' /\ GameInv'
<1>1. CASE GameOver(c)
  <2>1. PICK g \in GameType, h \in HintsType : g = game[c] /\ h = hints[c]
    BY DEF MenuInv, MTypeOK, GameType, HintsType
  <2>2. game' = [game EXCEPT ![c] = g] /\ hints' = [hints EXCEPT ![c] = h]
    BY <1>1, <2>1 DEF GameOver, MenuInv, MTypeOK
  <2>3. PICK n \in {IF g.verdict = "hit" THEN "GAME_WIN" ELSE "GAME_LOSE", "dropped"} :
          node' = [node EXCEPT ![c] = n]
    BY <1>1, <2>1, TransferLands DEF GameOver
  <2>4. FairAt(n, g, h)
    BY <1>1, <2>1, <2>3 DEF GameOver, MenuInv, GameInv, FairAt
  <2>5. QED BY <2>2, <2>3, <2>4, MoveIsFair
<1>2. CASE GameClose(c)
  <2>1. NoGame \in GameType /\ NoHints \in HintsType
    BY NoGameTyped DEF GameType, HintsType
  <2>2. PICK n \in {"700", "dropped"} : node' = [node EXCEPT ![c] = n]
    BY <1>2, TransferLands DEF GameClose
  <2>3. FairAt(n, NoGame, NoHints)
    BY <2>2 DEF FairAt
  <2>4. QED BY <1>2, <2>1, <2>2, <2>3, MoveIsFair DEF GameClose
<1>3. QED BY <1>1, <1>2

\* A hint counts the try, or loses both numbers.
LEMMA GameHintIsFair ==
  ASSUME MenuInv, NEW c \in Calls, GameHint(c)
  PROVE  GameTyped' /\ GameInv'
<1>1. PICK n \in {"GAME_ASK", "dropped"} : node' = [node EXCEPT ![c] = n]
  BY TransferLands DEF GameHint
<1>2. PICK h \in HintsType : h = hints[c] /\ hints = [hints EXCEPT ![c] = h]
  <2>1. hints[c] \in HintsType /\ hints = [hints EXCEPT ![c] = hints[c]]
    BY DEF MenuInv, MTypeOK, HintsType
  <2>2. QED BY <2>1
<1>3. /\ game[c] \in GameType
      /\ game[c].tries + 1 = h.guesses /\ h.guesses < TriesMax
      /\ game[c].secret \in h.possible
  BY <1>2 DEF GameHint, MenuInv, MTypeOK, GameType, GameInv, FairAt
<1>4. CASE game' = [game EXCEPT ![c] = NoReply] /\ hints' = [hints EXCEPT ![c] = NoHints]
  <2>1. NoReply \in GameType /\ NoHints \in HintsType
    BY NoGameTyped DEF GameType, HintsType
  <2>2. FairAt(n, NoReply, NoHints)
    BY <1>1 DEF FairAt, NoReply, NoGame
  <2>3. QED BY <1>1, <1>4, <2>1, <2>2, MoveIsFair
<1>5. CASE /\ game' = [game EXCEPT ![c] = [@ EXCEPT !.tries = game[c].tries + 1, !.verdict = ""]]
           /\ UNCHANGED hints
  <2> DEFINE g == [game[c] EXCEPT !.tries = game[c].tries + 1, !.verdict = ""]
  <2>1. game[c].tries + 1 \in 0..TriesMax - 1
    <3>1. game[c].tries \in 0..TriesMax - 1
      BY <1>3 DEF GameType
    <3>2. QED BY <1>3, <3>1, GameBounds
  <2>2. /\ g \in GameType
        /\ g.secret = game[c].secret /\ g.tries = game[c].tries + 1
    BY <1>3, <2>1 DEF GameType
  <2>3. game' = [game EXCEPT ![c] = g]
    BY <1>5
  <2> HIDE DEF g
  <2>4. FairAt(n, g, h)
    BY <1>1, <1>3, <2>2 DEF FairAt
  <2>5. QED BY <1>1, <1>2, <1>5, <2>2, <2>3, <2>4, MoveIsFair
<1>6. QED BY <1>4, <1>5 DEF GameHint

\* All other steps of a call stay out of the game, or are about to begin one.
LEMMA OthersAreFair ==
  ASSUME MenuInv, NEW c \in Calls, CallStep(c) \/ OffHook(c) \/ HangUp(c), ~Game(c)
  PROVE  GameTyped' /\ GameInv'
<1> USE DEF MenuInv, game_tale, unused
<1>1. CASE Greet(c) \/ DispatchToggle(c) \/ Toggle(c)
  <2>1. node'[c] \in {"MENU", "TOGGLE"} /\ \A d \in Calls \ {c} : node'[d] = node[d]
    BY <1>1 DEF Greet, DispatchToggle, Toggle, NodeInv
  <2>2. QED BY <1>1, <2>1, OutsideIsFair DEF Greet, DispatchToggle, Toggle, GameNodes
<1>2. CASE \/ Choose(c) \/ ToggleUnavailable(c) \/ Toggled(c) \/ AnnounceToggle(c)
           \/ Scolded(c) \/ AfterInvalid(c)
  <2>1. /\ node'[c] \in {"DISPATCH", "ADMIN_DISCO_ANNOUNCE", "700", "unrouted",
                         "DISPATCH_AFTER_INVALID", "dropped"}
        /\ \A d \in Calls \ {c} : node'[d] = node[d]
    BY <1>2, TransferMoves DEF Choose, ToggleUnavailable, Toggled, AnnounceToggle, NodeInv,
                               Scolded, Scold, AfterInvalid
  <2>2. UNCHANGED <<game, hints>>
    BY <1>2 DEF Choose, ToggleUnavailable, Toggled, AnnounceToggle, Scolded, Scold, AfterInvalid
  <2>3. QED BY <2>1, <2>2, OutsideIsFair DEF GameNodes
<1>3. CASE Dispatch(c)
  <2>1. Target(bella_opt[c]) \notin GameNodes
    BY <1>3 DEF Dispatch, Refused, MTypeOK, Options, Target, GameNodes
  <2>2. /\ node'[c] \in {Target(bella_opt[c]), "dropped"}
        /\ \A d \in Calls \ {c} : node'[d] = node[d]
    BY <1>3, TransferMoves DEF Dispatch
  <2>3. QED BY <1>3, <2>1, <2>2, OutsideIsFair DEF Dispatch, GameNodes
<1>4. CASE TransferElsewhere(c)
  <2>1. /\ node'[c] \in Elsewhere[node[c]] \cup {"dropped"}
        /\ \A d \in Calls \ {c} : node'[d] = node[d]
    BY <1>4 DEF TransferElsewhere, TransferWith, NodeInv
  <2>2. node'[c] \notin GameNodes
    BY <1>4, <2>1 DEF TransferElsewhere, Elsewhere, GameNodes
  <2>3. QED BY <1>4, <2>1, <2>2, OutsideIsFair DEF TransferElsewhere
<1>5. CASE TaleBranch(c)
  <2>1. Tree[tale[c].fork][tale[c].pick] \in {"TALE_SHIELD", "TALE_FEED", "TALE_END"}
    BY <1>5, BranchInTale
  <2>2. QED BY <1>5, <2>1, TransferMoves, OutsideIsFair DEF TaleBranch, GameNodes
<1>6. CASE Tale(c) /\ ~TaleBranch(c)
  <2>1. /\ node'[c] \in {"TALE_D", "TALE_AI", "TALE_R", "700", "dropped"}
        /\ \A d \in Calls \ {c} : node'[d] = node[d]
    BY <1>6, TransferMoves DEF Tale, TaleAsk, TaleAskAgain, TaleAfterInvalid, TaleEnd
  <2>2. UNCHANGED <<game, hints>>
    BY <1>6 DEF Tale, TaleAsk, TaleAskAgain, TaleAfterInvalid, TaleEnd
  <2>3. QED BY <2>1, <2>2, OutsideIsFair DEF GameNodes
<1>7. CASE OffHook(c) \/ HangUp(c)
  <2>1. NoGame \in GameType /\ NoHints \in HintsType
    BY NoGameTyped DEF GameType, HintsType
  <2>2. PICK n \in {"700", "NUMBER", "DIAL", "onhook"} : node' = [node EXCEPT ![c] = n]
    BY <1>7 DEF OffHook, HangUp
  <2>3. FairAt(n, NoGame, NoHints)
    BY <2>2 DEF FairAt
  <2>4. QED BY <1>7, <2>1, <2>2, <2>3, MoveIsFair DEF OffHook, HangUp, Fresh
<1>8. QED BY <1>1, <1>2, <1>3, <1>4, <1>5, <1>6, <1>7 DEF CallStep

\* The game changes nothing else of the menu's.
LEMMA GameKeepsType ==
  ASSUME MenuInv, FlagsTypeOK', NEW c \in Calls, Game(c)
  PROVE  MTypeOK' /\ NodeInv' /\ GameInv'
<1>1. GameTyped' /\ GameInv'
  BY GameStartIsFair, GameAskIsFair, GameEvalIsFair, GameEndIsFair, GameHintIsFair DEF Game
<1>2. \E n : node[c] # "dropped" /\ (Transfer(c, n) \/ ResetAndTransfer(c, n))
  BY DEF Game, GameStart, GameAsk, GameNudge, GameEval, GameUnavailable, GameOver, GameClose,
         GameHint, GameOther
<1>3. forwards' \in [Calls -> 0..Budget] /\ NodeInv'
  BY <1>2, TransferTyped DEF MenuInv
<1>4. UNCHANGED <<greeted, bella_opt, disco_ok, disco_state, owed, tale>>
  BY DEF Game, GameStart, GameAsk, GameNudge, GameEval, GameUnavailable, GameOver, GameClose,
         GameHint, GameOther, others, gate
<1>5. QED BY <1>1, <1>3, <1>4 DEF MenuInv, MTypeOK, GameTyped, GameType, HintsType

\* A fork is picked from as it has branches.
LEMMA TaleInvStep ==
  ASSUME MenuInv, NEW c \in Calls, CallStep(c) \/ OffHook(c) \/ HangUp(c)
  PROVE  TaleInv'
<1> USE DEF MenuInv, MTypeOK, TaleInv, Picks
<1>0. ASSUME NEW t \in [fork : DOMAIN Tree, pick : 0..3], tale' = [tale EXCEPT ![c] = t],
             t.pick \in DOMAIN Tree[t.fork] \cup {0}
      PROVE  TaleInv'
  BY <1>0
<1>1. ASSUME NEW f \in DOMAIN Tree, NEW p \in 0..3, TaleAsk(c, f, p)
      PROVE  TaleInv'
  BY <1>0, <1>1 DEF TaleAsk
<1>2. ASSUME NEW p \in 0..3, TaleAskAgain(c, p)
      PROVE  TaleInv'
  <2>1. tale' = [tale EXCEPT ![c] = [tale[c] EXCEPT !.pick = p]]
    BY <1>2 DEF TaleAskAgain
  <2>2. PICK t \in [fork : DOMAIN Tree, pick : 0..3] :
          t = [tale[c] EXCEPT !.pick = p] /\ t.fork = tale[c].fork /\ t.pick = p
    <3>1. tale[c] \in [fork : DOMAIN Tree, pick : 0..3]
      OBVIOUS
    <3> DEFINE t == [tale[c] EXCEPT !.pick = p]
    <3>2. t \in [fork : DOMAIN Tree, pick : 0..3] /\ t.fork = tale[c].fork /\ t.pick = p
      BY <3>1
    <3>3. QED BY <3>2
  <2>3. QED BY <1>0, <1>2, <2>1, <2>2 DEF TaleAskAgain
<1>3. CASE TaleEnd(c) \/ OffHook(c) \/ HangUp(c)
  <2>1. PICK t \in [fork : DOMAIN Tree, pick : 0..3] : t = NoTale /\ t.pick = 0
    <3>1. NoTale \in [fork : DOMAIN Tree, pick : 0..3] /\ NoTale.pick = 0
      BY NoGameTyped DEF NoTale
    <3>2. QED BY <3>1
  <2>2. QED BY <1>0, <1>3, <2>1 DEF TaleEnd, OffHook, HangUp, Fresh
<1>4. CASE UNCHANGED tale
  BY <1>4
<1>5. CASE Game(c)
  BY <1>4, <1>5 DEF Game, GameStart, GameAsk, GameNudge, GameEval, GameUnavailable, GameOver,
                    GameClose, GameHint, GameOther, others
<1>6. QED
  BY <1>1, <1>2, <1>3, <1>4, <1>5
  DEF CallStep, Greet, Choose, Dispatch, DispatchToggle, ToggleUnavailable, Toggle, Toggled,
      AnnounceToggle, Scolded, Scold, AfterInvalid, TransferElsewhere, Tale, TaleAfterInvalid,
      TaleBranch, game_tale, unused

-----------------------------------------------------------------------------
(* A caller's own toggle                                                   *)

\* Steps that neither toggle nor greet keep what is owed, and lead to a dispatch
\* from a menu or a dispatch only.
LEMMA OwnInvAway ==
  ASSUME MenuInv, NEW c \in Calls, UNCHANGED <<flag, owed>>,
         \A d \in Calls \ {c} : node'[d] = node[d] /\ disco_ok'[d] = disco_ok[d],
         node'[c] \in {"MENU", "DISPATCH", "DISPATCH_AFTER_INVALID"} =>
           /\ node[c] \in {"MENU", "DISPATCH", "DISPATCH_AFTER_INVALID"}
           /\ disco_ok'[c] = disco_ok[c]
  PROVE  OwnInv'
BY DEF MenuInv, OwnInv

\* A greeting reads what the toggle left.
LEMMA OwnInvGreet ==
  ASSUME MenuInv, NEW c \in Calls, Greet(c)
  PROVE  OwnInv'
<1>1. PICK r \in Replies : disco_ok' = [disco_ok EXCEPT ![c] = r]
  BY DEF Greet, ReadGate
<1>2. owed[c] # "" => r \in {owed[c], ""}
  BY <1>1 DEF MenuInv, MTypeOK, OwnInv, Replies, Get, Values
<1>3. flag' = flag /\ owed' = owed
  BY DEF Greet, flags
<1>4. \A d \in Calls \ {c} : node'[d] = node[d] /\ disco_ok'[d] = disco_ok[d]
  BY <1>1 DEF Greet, MenuInv, MTypeOK, NodeInv
<1>5. disco_ok'[c] = r
  BY <1>1 DEF MenuInv, MTypeOK
<1>6. QED BY <1>2, <1>3, <1>4, <1>5 DEF MenuInv, OwnInv

\* A write takes back what others were told, and nobody is owed more than it wrote.
LEMMA OwnInvToggle ==
  ASSUME MenuInv, NEW c \in Calls, Toggle(c)
  PROVE  OwnInv'
<1>1. node[c] = "TOGGLE" /\ UNCHANGED <<node, disco_ok>>
  BY DEF Toggle
<1>2. CASE flag' = flag
  BY <1>1, <1>2 DEF Toggle, MenuInv, OwnInv
<1>3. CASE flag' # flag
  BY <1>1, <1>3 DEF Toggle, OwnInv
<1>4. QED BY <1>2, <1>3

LEMMA OwnInvStep ==
  ASSUME MenuInv, NEW c \in Calls, CallStep(c) \/ OffHook(c) \/ HangUp(c)
  PROVE  OwnInv'
<1> USE DEF flags, gate, game_tale, unused, others
<1> NodeInv /\ MTypeOK
  BY DEF MenuInv
<1>1. CASE Greet(c) \/ Toggle(c)
  BY <1>1, OwnInvGreet, OwnInvToggle
<1>2. CASE Choose(c) \/ AfterInvalid(c) \/ Scolded(c)
  <2>1. \A d \in Calls \ {c} : node'[d] = node[d]
    BY <1>2, TransferMoves DEF Choose, AfterInvalid, Scolded, Scold
  <2>2. UNCHANGED <<flag, owed, disco_ok>>
    BY <1>2 DEF Choose, AfterInvalid, Scolded, Scold
  <2>3. node[c] \in {"MENU", "DISPATCH", "DISPATCH_AFTER_INVALID"}
    BY <1>2 DEF Choose, AfterInvalid, Scolded, Scold
  <2>4. QED BY <2>1, <2>2, <2>3, OwnInvAway
<1>3. CASE Dispatch(c)
  <2>1. Target(bella_opt[c]) \notin {"MENU", "DISPATCH", "DISPATCH_AFTER_INVALID"}
    BY <1>3 DEF Dispatch, Refused, MTypeOK, Options, Target
  <2>2. /\ node'[c] \in {Target(bella_opt[c]), "dropped"}
        /\ \A d \in Calls \ {c} : node'[d] = node[d]
    BY <1>3, TransferMoves DEF Dispatch
  <2>3. /\ UNCHANGED <<flag, owed>>
        /\ \A d \in Calls \ {c} : disco_ok'[d] = disco_ok[d]
    BY <1>3 DEF Dispatch, Spent, MTypeOK
  <2>4. QED BY <2>1, <2>2, <2>3, OwnInvAway
<1>4. CASE DispatchToggle(c) \/ ToggleUnavailable(c) \/ Toggled(c) \/ AnnounceToggle(c)
  <2>1. /\ node'[c] \in {"TOGGLE", "ADMIN_DISCO_ANNOUNCE", "700", "unrouted", "dropped"}
        /\ \A d \in Calls \ {c} : node'[d] = node[d]
    BY <1>4, TransferMoves DEF DispatchToggle, ToggleUnavailable, Toggled, AnnounceToggle, NodeInv
  <2>2. /\ UNCHANGED <<flag, owed>>
        /\ \A d \in Calls \ {c} : disco_ok'[d] = disco_ok[d]
    BY <1>4 DEF DispatchToggle, StartToggle, ToggleUnavailable, Toggled, PrintNew, AnnounceToggle,
                Spent, MTypeOK
  <2>3. QED BY <2>1, <2>2, OwnInvAway
<1>5. CASE TransferElsewhere(c)
  <2>1. /\ node'[c] \in Elsewhere[node[c]] \cup {"dropped"}
        /\ \A d \in Calls \ {c} : node'[d] = node[d]
    BY <1>5 DEF TransferElsewhere, TransferWith, NodeInv
  <2>2. node'[c] \notin {"MENU", "DISPATCH", "DISPATCH_AFTER_INVALID"}
    BY <1>5, <2>1 DEF TransferElsewhere, Elsewhere
  <2>3. QED BY <1>5, <2>1, <2>2, OwnInvAway DEF TransferElsewhere
<1>6. CASE Game(c)
  <2>1. /\ node'[c] \in GameNodes \cup {"700", "dropped"}
        /\ \A d \in Calls \ {c} : node'[d] = node[d]
    BY <1>6, TransferMoves DEF Game, GameStart, GameAsk, GameNudge, GameEval, GameUnavailable,
                               GameOver, GameClose, GameHint, GameOther, GameNodes
  <2>2. UNCHANGED <<flag, owed, disco_ok>>
    BY <1>6 DEF Game, GameStart, GameAsk, GameNudge, GameEval, GameUnavailable,
                GameOver, GameClose, GameHint, GameOther
  <2>3. QED BY <2>1, <2>2, OwnInvAway DEF GameNodes
<1>7. CASE Tale(c)
  <2>1. PICK n : /\ n \notin {"MENU", "DISPATCH", "DISPATCH_AFTER_INVALID"}
                 /\ Transfer(c, n) \/ ResetAndTransfer(c, n)
    <3>1. CASE TaleBranch(c)
      BY <3>1, BranchInTale DEF TaleBranch
    <3>2. CASE ~TaleBranch(c)
      BY <1>7, <3>2 DEF Tale, TaleAsk, TaleAskAgain, TaleAfterInvalid, TaleEnd
    <3>3. QED BY <3>1, <3>2
  <2>2. UNCHANGED <<flag, owed, disco_ok>>
    BY <1>7 DEF Tale, TaleAsk, TaleAskAgain, TaleAfterInvalid, TaleBranch, TaleEnd
  <2>3. QED BY <2>1, <2>2, TransferMoves, OwnInvAway
<1>8. CASE OffHook(c) \/ HangUp(c)
  <2>1. owed' = [owed EXCEPT ![c] = ""] /\ disco_ok' = [disco_ok EXCEPT ![c] = ""]
    BY <1>8 DEF OffHook, HangUp, Fresh
  <2>2. flag' = flag /\ \A d \in Calls \ {c} : node'[d] = node[d]
    BY <1>8 DEF OffHook, HangUp, Fresh, NodeInv
  <2>3. QED BY <2>1, <2>2 DEF MenuInv, MTypeOK, OwnInv
<1>9. QED BY <1>1, <1>2, <1>3, <1>4, <1>5, <1>6, <1>7, <1>8 DEF CallStep

-----------------------------------------------------------------------------
(* Theorems                                                                *)

LEMMA MenuInvInit == MenuInit => MenuInv
<1> SUFFICES ASSUME MenuInit PROVE MenuInv
  OBVIOUS
<1>1. FlagsInv
  BY FlagsInvInit
<1>2. MTypeOK
  BY <1>1, NoGameTyped, BudgetPositive DEF MenuInit, MTypeOK, FlagsInv, Options
<1>3. NodeInv /\ OwnInv
  BY BudgetPositive DEF MenuInit, NodeInv, OwnInv
<1>4. GameInv
  BY DEF MenuInit, GameInv, FairAt
<1>5. TaleInv
  BY DEF MenuInit, TaleInv, NoTale
<1>6. QED BY <1>1, <1>2, <1>3, <1>4, <1>5 DEF MenuInv

LEMMA MenuInvStep == MenuInv /\ [Next]_vars => MenuInv'
<1> SUFFICES ASSUME MenuInv, [Next]_vars PROVE MenuInv'
  OBVIOUS
<1>1. FlagsInv'
  BY FlagsInvStep DEF MenuInv
<1>2. CASE Disk \/ UNCHANGED vars
  <2>1. UNCHANGED <<flag, node, forwards, greeted, bella_opt, disco_ok, disco_state, owed, game,
                    tale, hints>>
    BY <1>2 DEF Disk, FillOrFree, vars, flags, gate, game_tale
  <2>2. MTypeOK' /\ NodeInv'
    BY <1>1, <2>1 DEF MenuInv, MTypeOK, FlagsInv, NodeInv
  <2>3. OwnInv' /\ GameInv' /\ TaleInv'
    BY <2>1 DEF MenuInv, OwnInv, GameInv, TaleInv, Picks
  <2>4. QED BY <1>1, <2>2, <2>3 DEF MenuInv
<1>3. ASSUME NEW c \in Calls, CallStep(c) \/ OffHook(c) \/ HangUp(c)
      PROVE  MenuInv'
  <2>1. FlagsTypeOK'
    BY <1>1 DEF FlagsInv
  <2>2. MTypeOK' /\ NodeInv'
    BY <1>3, <2>1, DispatchKeepsType, ToggleKeepsType, TaleKeepsType, GameKeepsType,
       CallersKeepType DEF CallStep
  <2>3. GameInv'
    BY <1>3, <2>1, GameKeepsType, OthersAreFair
  <2>4. QED BY <1>1, <1>3, <2>2, <2>3, OwnInvStep, TaleInvStep DEF MenuInv
<1>4. QED BY <1>2, <1>3 DEF Next

LEMMA MenuInvHolds == Spec => []MenuInv
BY MenuInvInit, MenuInvStep, PTL DEF Spec

\* The menu, its toggle, the game and the fable keep to their types.
THEOREM MenuTyped == Spec => []MTypeOK
<1>1. MenuInv => MTypeOK
  BY DEF MenuInv
<1>2. QED BY <1>1, MenuInvHolds, PTL

\* For any range of secrets and any number of tries, what Bella says is true of
\* the secret, only guesses use up tries, and the game is lost with the last.
THEOREM GameFair == Spec => []GameIsFair
<1>1. MenuInv => GameIsFair
  BY DEF MenuInv, GameInv, FairAt, GameIsFair
<1>2. QED BY <1>1, MenuInvHolds, PTL

\* A step of one call moves no other.
LEMMA OthersStay ==
  ASSUME MenuInv, NEW c \in Calls, CallStep(c) \/ OffHook(c) \/ HangUp(c)
  PROVE  \A d \in Calls \ {c} : node'[d] = node[d] /\ forwards'[d] = forwards[d]
<1> USE DEF Transfer, ResetAndTransfer, TransferWith
<1> NodeInv /\ DOMAIN forwards = Calls
  BY DEF MenuInv, MTypeOK
<1>1. CASE \/ Greet(c) \/ Choose(c) \/ Dispatch(c) \/ Scolded(c) \/ AfterInvalid(c)
           \/ OffHook(c) \/ HangUp(c)
  BY <1>1 DEF Greet, Choose, Dispatch, Scolded, Scold, AfterInvalid, OffHook, HangUp, Fresh,
              NodeInv
<1>2. CASE DispatchToggle(c) \/ ToggleUnavailable(c) \/ Toggle(c) \/ Toggled(c) \/ AnnounceToggle(c)
  BY <1>2 DEF DispatchToggle, ToggleUnavailable, Toggle, Toggled, AnnounceToggle, NodeInv
<1>3. CASE TransferElsewhere(c)
  BY <1>3 DEF TransferElsewhere, NodeInv
<1>4. CASE Game(c)
  BY <1>4 DEF Game, GameStart, GameAsk, GameNudge, GameEval, GameUnavailable, GameOver, GameClose,
              GameHint, GameOther, NodeInv
<1>5. CASE Tale(c)
  BY <1>5 DEF Tale, TaleAsk, TaleAskAgain, TaleAfterInvalid, TaleBranch, TaleEnd, NodeInv
<1>6. QED BY <1>1, <1>2, <1>3, <1>4, <1>5 DEF CallStep

\* A caller who has toggled finds 911 and 811 as announced, whoever else is on
\* the line, until somebody else toggles.
THEOREM OwnToggle == Spec => OwnToggleObeyed
<1> DEFINE Obeyed(c) ==
      node[c] = "DISPATCH" /\ bella_opt[c] \in {"911", "811"} /\ owed[c] # "" =>
        (node'[c] \in {"DISCO_RAISE", "DISCO_LOWER"} => owed[c] = "on")
        /\ (node'[c] = "DISPATCH_AFTER_INVALID" /\ disco_ok[c] # "" => owed[c] = "off")
<1>1. ASSUME MenuInv, [Next]_vars, NEW c \in Calls, node[c] = "DISPATCH",
             bella_opt[c] \in {"911", "811"}, owed[c] # ""
      PROVE  Obeyed(c)
  <2>1. disco_ok[c] \in {owed[c], ""} /\ owed[c] \in Values
    BY <1>1 DEF MenuInv, MTypeOK, OwnInv
  <2>2. CASE Dispatch(c)
    <3>1. disco_ok[c] = "on" /\ owed[c] = "on"
      BY <1>1, <2>1, <2>2 DEF Dispatch, Refused
    <3>2. Target("911") = "DISCO_RAISE" /\ Target("811") = "DISCO_LOWER"
      BY DEF Target
    <3>3. node'[c] \in {"DISCO_RAISE", "DISCO_LOWER", "dropped"}
      <4>1. node'[c] \in {Target(bella_opt[c]), "dropped"}
        BY <1>1, <2>2, TransferMoves DEF Dispatch, MenuInv
      <4>2. QED BY <1>1, <3>2, <4>1
    <3>4. QED BY <3>1, <3>3
  <2>3. CASE Scolded(c)
    <3>1. disco_ok[c] # "on"
      BY <1>1, <2>3 DEF Scolded, Scold, Refused
    <3>2. node'[c] \in {"DISPATCH_AFTER_INVALID", "dropped"}
      BY <1>1, <2>3, TransferMoves DEF Scolded, Scold, MenuInv
    <3>3. disco_ok[c] # "" => owed[c] = "off"
      BY <2>1, <3>1 DEF Values
    <3>4. QED BY <3>2, <3>3
  <2>4. CASE Disk \/ UNCHANGED vars
    BY <1>1, <2>4 DEF Disk, vars
  <2>5. ASSUME NEW d \in Calls \ {c}, CallStep(d) \/ OffHook(d) \/ HangUp(d)
        PROVE  node'[c] = node[c]
    BY <1>1, <2>5, OthersStay
  <2>6. CASE CallStep(c) \/ OffHook(c) \/ HangUp(c)
    <3>1. Dispatch(c) \/ Scolded(c)
      <4>1. ~TransferElsewhere(c) /\ ~Game(c) /\ ~Tale(c)
        BY <1>1 DEF TransferElsewhere, Elsewhere, Game, GameStart, GameAsk, GameNudge, GameEval,
                    GameUnavailable, GameOver, GameClose, GameHint, GameOther,
                    Tale, TaleAsk, TaleAskAgain, TaleAfterInvalid, TaleBranch, TaleEnd, Tree
      <4>2. QED
        BY <1>1, <2>6, <4>1
        DEF CallStep, Greet, Choose, DispatchToggle, ToggleUnavailable, Toggle, Toggled,
            AnnounceToggle, AfterInvalid, OffHook, HangUp, OnHook
    <3>2. QED BY <2>2, <2>3, <3>1
  <2>7. QED BY <1>1, <2>4, <2>5, <2>6 DEF Next
<1>2. MenuInv /\ [Next]_vars => [\A c \in Calls : Obeyed(c)]_vars
  BY <1>1
<1>3. QED BY <1>2, MenuInvHolds, PTL DEF Spec, OwnToggleObeyed

-----------------------------------------------------------------------------
(* The budget                                                              *)

\* A transfer that leads to where less is needed, or after a reset, goes through.
LEMMA TransferNeeds ==
  ASSUME MenuInv, NeedInv, Budget >= 10, NEW c \in Calls, NEW n, n # "dropped",
         (Transfer(c, n) /\ Need(n) < Need(node[c])) \/ ResetAndTransfer(c, n)
  PROVE  node'[c] # "dropped" /\ forwards'[c] >= Need(node'[c])
<1>1. /\ forwards[c] \in Nat /\ Budget \in Nat /\ Need(n) \in 1..9 /\ Need(node[c]) \in 1..9
      /\ forwards[c] >= Need(node[c])
  <2>1. forwards[c] \in 0..Budget /\ forwards[c] >= Need(node[c])
    BY DEF MenuInv, MTypeOK, NeedInv
  <2>2. Need(n) \in 1..9 /\ Need(node[c]) \in 1..9
    BY NeedTyped
  <2>3. QED BY <2>1, <2>2, BudgetPositive
<1>2. PICK left \in Nat : left > Need(n) /\ TransferWith(c, left, n)
  BY <1>1 DEF Transfer, ResetAndTransfer
<1>3. left > 1 /\ left - 1 >= Need(n)
  BY <1>1, <1>2
<1>4. node'[c] = n /\ forwards'[c] = left - 1
  BY <1>2, <1>3 DEF TransferWith, MenuInv, MTypeOK, NodeInv
<1>5. QED BY <1>3, <1>4

LEMMA NeedsCall ==
  ASSUME MenuInv, NeedInv, Budget >= 10, NEW c \in Calls,
         CallStep(c) \/ OffHook(c) \/ HangUp(c)
  PROVE  node'[c] # "dropped" /\ forwards'[c] >= Need(node'[c])
<1> NodeInv /\ DOMAIN forwards = Calls
  BY DEF MenuInv, MTypeOK
<1>0. forwards[c] \in Nat
  <2>1. forwards[c] \in 0..Budget
    BY DEF MenuInv, MTypeOK
  <2>2. QED BY <2>1, BudgetPositive
<1>1. CASE Greet(c) \/ OffHook(c) \/ HangUp(c)
  <2>1. node'[c] \in {"MENU", "700", "NUMBER", "DIAL", "onhook"} /\ forwards'[c] = Budget
    BY <1>1 DEF Greet, OffHook, HangUp, Fresh, NodeInv
  <2>2. Need(node'[c]) <= 8
    BY <2>1, NeedOfMenu
  <2>3. node'[c] # "dropped" /\ Need(node'[c]) \in Nat
    BY <2>1, NeedTyped
  <2>4. QED BY <2>1, <2>2, <2>3, BudgetPositive
<1>2. CASE Choose(c)
  <2>1. node[c] = "MENU" /\ Transfer(c, "DISPATCH")
    BY <1>2 DEF Choose
  <2>2. Need("DISPATCH") < Need(node[c])
    BY <2>1, NeedOfMenu
  <2>3. QED BY <2>1, <2>2, TransferNeeds
<1>3. CASE Dispatch(c)
  <2>1. Target(bella_opt[c]) \in {"CALL_OTHER", "LISTEN_MESSAGES", "LEAVE_MESSAGE", "GAME_START",
          "TALE_OPEN", "SURVEY_START", "DISCO_RAISE", "DISCO_LOWER", "DISCO_STOP", "DIAL", "700"}
    BY <1>3 DEF Dispatch, Refused, MenuInv, MTypeOK, Options, Target
  <2>2. \A n \in {"CALL_OTHER", "LISTEN_MESSAGES", "LEAVE_MESSAGE", "GAME_START", "TALE_OPEN",
          "SURVEY_START", "DISCO_RAISE", "DISCO_LOWER", "DISCO_STOP", "DIAL", "700"} : Need(n) < 7
    BY DEF Need
  <2>3. QED BY <1>3, <2>1, <2>2, TransferNeeds, NeedOfMenu DEF Dispatch
<1>4. CASE Scolded(c) \/ AfterInvalid(c)
  <2>1. CASE Scolded(c)
    BY <2>1, TransferNeeds DEF Scolded, Scold
  <2>2. CASE AfterInvalid(c)
    <3>1. PICK n \in {"700", "DISPATCH"} : Transfer(c, n)
      BY <2>2 DEF AfterInvalid
    <3>2. Need(node[c]) = 8 /\ Need(n) \in {1, 7}
      BY <2>2, <3>1, NeedOfMenu DEF AfterInvalid
    <3>3. QED BY <3>1, <3>2, TransferNeeds
  <2>3. QED BY <1>4, <2>1, <2>2
<1>5. CASE ToggleUnavailable(c) \/ Toggled(c) \/ AnnounceToggle(c)
  <2>1. CASE ToggleUnavailable(c) \/ Toggled(c)
    <3>1. node[c] \in {"DISPATCH", "TOGGLE"} /\ Transfer(c, "ADMIN_DISCO_ANNOUNCE")
      BY <2>1 DEF ToggleUnavailable, Toggled
    <3>2. Need("ADMIN_DISCO_ANNOUNCE") < Need(node[c])
      BY <3>1, NeedOfMenu
    <3>3. QED BY <3>1, <3>2, TransferNeeds
  <2>2. CASE AnnounceToggle(c) /\ disco_state[c] \in Values
    <3>1. node[c] = "ADMIN_DISCO_ANNOUNCE" /\ Transfer(c, "700")
      BY <2>2 DEF AnnounceToggle
    <3>2. Need("700") < Need(node[c])
      BY <3>1, NeedOfMenu
    <3>3. QED BY <3>1, <3>2, TransferNeeds
  <2>3. CASE AnnounceToggle(c) /\ disco_state[c] \notin Values
    <3>1. node'[c] = "unrouted" /\ forwards'[c] = forwards[c] /\ forwards[c] >= 2
      BY <2>3, NeedOfMenu DEF AnnounceToggle, NeedInv, NodeInv
    <3>2. QED BY <1>0, <3>1, NeedOfMenu
  <2>4. QED BY <1>5, <2>1, <2>2, <2>3
<1>6. CASE DispatchToggle(c) \/ Toggle(c)
  <2>1. /\ node'[c] = "TOGGLE" /\ forwards'[c] = forwards[c]
        /\ node[c] \in {"DISPATCH", "TOGGLE"}
    BY <1>6 DEF DispatchToggle, Toggle, NodeInv
  <2>2. forwards[c] >= Need(node[c])
    BY DEF NeedInv
  <2>3. QED BY <1>0, <2>1, <2>2, NeedOfMenu
<1>7. CASE TransferElsewhere(c)
  <2>1. PICK n \in Elsewhere[node[c]] :
          IF node[c] \in Resets THEN ResetAndTransfer(c, n) ELSE Transfer(c, n)
    BY <1>7 DEF TransferElsewhere, Transfer, ResetAndTransfer
  <2>2. n # "dropped"
    BY <1>7, <2>1 DEF TransferElsewhere, Elsewhere
  <2>3. node[c] \in DOMAIN Elsewhere
    BY <1>7 DEF TransferElsewhere
  <2>4. QED BY <2>1, <2>2, <2>3, NeedFalls, TransferNeeds
<1>8. CASE Game(c)
  <2>1. CASE \E k \in Secrets \cup {0} : GameAsk(c, k)
    BY <2>1, TransferNeeds DEF GameAsk
  <2>2. CASE ~\E k \in Secrets \cup {0} : GameAsk(c, k)
    <3>1. PICK n \in GameNodes \cup {"700"} : Transfer(c, n) /\ Need(n) < Need(node[c])
      <4>1. CASE GameStart(c) \/ GameNudge(c) \/ GameHint(c) \/ GameOther(c)
        <5>1. node[c] \in {"GAME_START", "GAME_EVAL", "GAME_VERDICT"} /\ Transfer(c, "GAME_ASK")
          BY <4>1 DEF GameStart, GameNudge, GameHint, GameOther
        <5>2. Need("GAME_ASK") < Need(node[c])
          BY <5>1, NeedOfStories
        <5>3. QED BY <5>1, <5>2 DEF GameNodes
      <4>2. CASE GameEval(c) \/ GameUnavailable(c)
        BY <4>2, NeedOfStories DEF GameEval, GameUnavailable, GameNodes
      <4>3. CASE GameOver(c)
        BY <4>3, NeedOfStories DEF GameOver, GameNodes
      <4>4. CASE GameClose(c)
        BY <4>4, NeedOfStories, NeedOfMenu DEF GameClose
      <4>5. QED BY <1>8, <2>2, <4>1, <4>2, <4>3, <4>4 DEF Game
    <3>2. QED BY <3>1, TransferNeeds DEF GameNodes
  <2>3. QED BY <2>1, <2>2
<1>9. CASE TaleBranch(c)
  <2>1. /\ Need(node[c]) = 3
        /\ \A n \in {"TALE_SHIELD", "TALE_FEED", "TALE_END"} : Need(n) < 3
    BY <1>9, NeedOfStories DEF TaleBranch
  <2>2. QED BY <1>9, <2>1, BranchInTale, TransferNeeds DEF TaleBranch
<1>10. CASE Tale(c) /\ ~TaleBranch(c)
  <2>1. CASE \/ \E f \in DOMAIN Tree : \E p \in 0..3 : TaleAsk(c, f, p)
             \/ \E p \in 0..3 : TaleAskAgain(c, p)
    BY <2>1, TransferNeeds DEF TaleAsk, TaleAskAgain
  <2>2. CASE TaleAfterInvalid(c)
    <3>1. PICK n \in {"TALE_R", "TALE_D"} : Transfer(c, n)
      BY <2>2 DEF TaleAfterInvalid
    <3>2. Need(n) < Need(node[c])
      BY <2>2, NeedOfStories DEF TaleAfterInvalid
    <3>3. QED BY <3>1, <3>2, TransferNeeds
  <2>3. CASE TaleEnd(c)
    <3>1. node[c] = "TALE_END" /\ Transfer(c, "700")
      BY <2>3 DEF TaleEnd
    <3>2. Need("700") < Need(node[c])
      BY <3>1, NeedOfMenu, NeedOfStories
    <3>3. QED BY <3>1, <3>2, TransferNeeds
  <2>4. QED BY <1>10, <2>1, <2>2, <2>3 DEF Tale
<1>11. QED BY <1>1, <1>2, <1>3, <1>4, <1>5, <1>6, <1>7, <1>8, <1>9, <1>10 DEF CallStep

LEMMA NeedInvStep ==
  ASSUME Budget >= 10
  PROVE  MenuInv /\ NeedInv /\ [Next]_vars => NeedInv'
<1> SUFFICES ASSUME MenuInv, NeedInv, [Next]_vars PROVE NeedInv'
  OBVIOUS
<1>1. CASE Disk \/ UNCHANGED vars
  BY <1>1 DEF Disk, vars, NeedInv
<1>2. ASSUME NEW c \in Calls, CallStep(c) \/ OffHook(c) \/ HangUp(c)
      PROVE  NeedInv'
  BY <1>2, NeedsCall, OthersStay DEF NeedInv
<1>3. QED BY <1>1, <1>2 DEF Next

\* A max_forwards of 10 is enough: whatever callers dial, and however long they
\* stay in any loop, no call is dropped.
THEOREM TenForwardsSuffice == Budget >= 10 => (Spec => []BudgetHolds)
<1> SUFFICES ASSUME Budget >= 10 PROVE Spec => []BudgetHolds
  OBVIOUS
<1>1. MenuInit => NeedInv
  <2>1. ASSUME MenuInit, NEW c \in Calls
        PROVE  node[c] = "onhook" /\ forwards[c] = Budget
    BY <2>1 DEF MenuInit
  <2>2. ASSUME MenuInit, NEW c \in Calls
        PROVE  node[c] # "dropped" /\ forwards[c] >= Need(node[c])
    BY <2>1, <2>2, BudgetPositive, NeedOfMenu
  <2>3. QED BY <2>2 DEF NeedInv
<1>2. MenuInv /\ NeedInv /\ [Next]_vars => NeedInv'
  BY NeedInvStep
<1>3. NeedInv => BudgetHolds
  BY DEF NeedInv, BudgetHolds
<1>4. QED BY <1>1, <1>2, <1>3, MenuInvHolds, PTL DEF Spec
=============================================================================
