--------------------------------- MODULE Menu ---------------------------------
(***************************************************************************)
(* The main menu and what hangs on it: dispatch, the toggle 001, the loop  *)
(* for invalid entries, the game (option 5), the fable (option 7) and the  *)
(* transfers of all other options, over the flag of BellaFlags.            *)
(*                                                                         *)
(* A call is at a destination number; each transfer takes one from its     *)
(* max_forwards, and FreeSWITCH drops a call that has none left.  The      *)
(* options 1, 2, 3, 9, 911, 811 and 11 are here the graph of their         *)
(* transfers only; modules of their own say what 2, 3, 9 and the ball do.  *)
(***************************************************************************)
EXTENDS BellaFlags, Naturals, Sequences

CONSTANTS
  Patient,   \* the callers who answer some time if they are asked again
  Dials,     \* per call: what its caller ever enters at a menu
  Budget,    \* max_forwards after a reset
  Highest,   \* the secret is in 1..Highest
  TriesMax   \* game_tries_max

\* What DISPATCH knows, and "other" keys.
Options == {"0", "1", "2", "3", "5", "7", "9", "000", "001", "002", "003", "911", "811", "411",
            "101", "102", "103", "104", "11", "other"}

ASSUME MenuBounds ==
  /\ Patient \subseteq Calls /\ Dials \in [Calls -> SUBSET Options]
  /\ Budget \in Nat \ {0} /\ Highest \in Nat \ {0} /\ TriesMax \in Nat \ {0}

VARIABLES
  node,        \* per call: destination number, "MENU" when 700 waits for keys
  forwards,    \* per call: max_forwards
  greeted,     \* per call: menu_greeted
  bella_opt,   \* per call: the keys collected, "" if none
  disco_ok,    \* per call: the flag as read by 700
  disco_state, \* per call: what toggle printed
  game,        \* per call: secret, tries, guess (0 if none) and verdict; and
               \* whether secret and tries are `intact`, or one of them is empty
  tale,        \* per call: the fork of the fable, and tale_pick (0 if none)
  \* Ghosts.
  owed,        \* per call: its own toggle, as long as no other call has toggled
  hints        \* per call: the guesses made, and the numbers they leave

game_tale == <<game, tale, hints>>
gate      == <<disco_ok, disco_state, owed>>
vars      == <<flags, node, forwards, greeted, bella_opt, gate, game_tale>>

Secrets == 1..Highest
NoGame  == [secret |-> 1, tries |-> 0, guess |-> 0, verdict |-> "", intact |-> TRUE]
NoReply == [NoGame EXCEPT !.intact = FALSE]
NoHints == [guesses |-> 0, possible |-> Secrets]
NoTale  == [fork |-> "TALE_OPEN", pick |-> 0]

-----------------------------------------------------------------------------
(* Transfers                                                               *)

\* The rest of the dialplan: where each extension may transfer to.  "DIAL" are
\* the extensions 101 to 104.
Elsewhere == [
  NUMBER |-> {"700"},
  CALL_OTHER |-> {"DIAL", "700"},
  DIAL |-> {"700"},
  LEAVE_MESSAGE |-> {"700"},
  LISTEN_MESSAGES |-> {"LISTEN_START"},
  LISTEN_START |-> {"700", "MESSAGE_ANNOUNCE"},
  MESSAGE_ANNOUNCE |-> {"MESSAGE_ANNOUNCE_PLAY"},
  MESSAGE_ANNOUNCE_PLAY |-> {"MESSAGE_RESOLVE", "MESSAGE_ANNOUNCE_KEY"},
  MESSAGE_ANNOUNCE_KEY |-> {"DRAWER_OPEN", "MESSAGE_RESOLVE"},
  MESSAGE_RESOLVE |-> {"MESSAGE_PLAY"},
  MESSAGE_PLAY |-> {"MESSAGE_END", "MESSAGE_KEY_PREV"},
  MESSAGE_KEY_PREV |-> {"MESSAGE_RESOLVE", "MESSAGE_KEY_NEXT"},
  MESSAGE_KEY_NEXT |-> {"MESSAGE_RESOLVE", "MESSAGE_KEY_DRAWER"},
  MESSAGE_KEY_DRAWER |-> {"DRAWER_OPEN", "MESSAGE_KEY_DEFAULT"},
  MESSAGE_KEY_DEFAULT |-> {"MESSAGE_ANNOUNCE", "MESSAGE_RESOLVE"},
  MESSAGE_END |-> {"PLAYBACK_END_KEY", "700"},
  PLAYBACK_END_KEY |-> {"DRAWER_OPEN", "700"},
  DRAWER_OPEN |-> {"DRAWER_OPEN_PREV"},
  DRAWER_OPEN_PREV |-> {"DRAWER_RESOLVE", "DRAWER_OPEN_DELETE"},
  DRAWER_OPEN_DELETE |-> {"DRAWER_RESOLVE"},
  DRAWER_RESOLVE |-> {"DRAWER_PLAY"},
  DRAWER_PLAY |-> {"DRAWER_END", "DRAWER_KEY_PREV"},
  DRAWER_KEY_PREV |-> {"DRAWER_RESOLVE", "DRAWER_KEY_NEXT"},
  DRAWER_KEY_NEXT |-> {"DRAWER_RESOLVE", "DRAWER_KEY_DELETE"},
  DRAWER_KEY_DELETE |-> {"DRAWER_RESOLVE", "DRAWER_KEY_DEFAULT"},
  DRAWER_KEY_DEFAULT |-> {"DRAWER_RESOLVE"},
  DRAWER_END |-> {"700"},
  DISCO_RAISE |-> {"DISCO_RAISE_GO"}, DISCO_RAISE_GO |-> {"700"},
  DISCO_LOWER |-> {"DISCO_LOWER_GO"}, DISCO_LOWER_GO |-> {"700"},
  DISCO_STOP |-> {"700"},
  SURVEY_START |-> {"SURVEY_EVAL"},
  SURVEY_EVAL |-> {"SURVEY_START", "SURVEY_RESULT"},
  SURVEY_RESULT |-> {"SURVEY_STATS"},
  SURVEY_STATS |-> {"700"}]

\* Those that set max_forwards first.
Resets_WithoutDrawer == {"MESSAGE_RESOLVE", "SURVEY_START", "SURVEY_RESULT"}
Resets == {"MESSAGE_RESOLVE", "DRAWER_OPEN", "DRAWER_RESOLVE", "SURVEY_START", "SURVEY_RESULT"}

\* A transfer of a call that has `left` forwards.
TransferWith(c, left, n) ==
  /\ node' = [node EXCEPT ![c] = IF left > 1 THEN n ELSE "dropped"]
  /\ forwards' = [forwards EXCEPT ![c] = left - 1]

Transfer(c, n) == TransferWith(c, forwards[c], n)
ResetAndTransfer(c, n) == TransferWith(c, Budget, n)

\* The options that are not modelled here.
TransferElsewhere(c) ==
  /\ node[c] \in DOMAIN Elsewhere
  /\ \E n \in Elsewhere[node[c]] :
       TransferWith(c, IF node[c] \in Resets THEN Budget ELSE forwards[c], n)
  /\ UNCHANGED <<flags, greeted, bella_opt, gate, game_tale>>

-----------------------------------------------------------------------------
(* 10_inbound_and_menu.xml                                                 *)

\* Both greetings read the flag, the first and the repeated one.
Replies == {Get} \cup (IF "helper" \in Faults THEN {""} ELSE {})

ReadGate_InsteadDefault(c) ==
  \E r \in Replies : disco_ok' = [disco_ok EXCEPT ![c] = IF greeted[c] THEN "on" ELSE r]

ReadGate(c) == \E r \in Replies : disco_ok' = [disco_ok EXCEPT ![c] = r]

\* menu-first, menu-repeat: reset, read the flag, begin to play the greeting.
Greet(c) ==
  /\ node[c] = "700"
  /\ node' = [node EXCEPT ![c] = "MENU"]
  /\ forwards' = [forwards EXCEPT ![c] = Budget]
  /\ greeted' = [greeted EXCEPT ![c] = TRUE]
  /\ bella_opt' = [bella_opt EXCEPT ![c] = ""]
  /\ ReadGate(c)
  /\ UNCHANGED <<flags, disco_state, owed, game_tale>>

\* play_and_get_digits: one of the options, or nothing at all.
Choose(c) ==
  /\ node[c] = "MENU"
  /\ \E keys \in (Dials[c] \ {"other"}) \cup {""} : bella_opt' = [bella_opt EXCEPT ![c] = keys]
  /\ Transfer(c, "DISPATCH")
  /\ UNCHANGED <<flags, greeted, gate, game_tale>>

\* Where DISPATCH transfers an option to.
Target(keys) ==
  CASE keys = "1" -> "CALL_OTHER"    [] keys = "2" -> "LISTEN_MESSAGES"
    [] keys = "3" -> "LEAVE_MESSAGE" [] keys = "5" -> "GAME_START"
    [] keys = "7" -> "TALE_OPEN"     [] keys = "9" -> "SURVEY_START"
    [] keys = "911" -> "DISCO_RAISE" [] keys = "811" -> "DISCO_LOWER"
    [] keys = "11" -> "DISCO_STOP"
    [] keys \in {"0", "101", "102", "103", "104"} -> "DIAL"
    [] keys \in {"000", "002", "003", "411"} -> "700"

\* An entry that no extension takes, or that the gate refuses.
Refused(c) ==
  \/ bella_opt[c] \in {"", "other"}
  \/ bella_opt[c] \in {"911", "811"} /\ disco_ok[c] # "on"

\* Nobody reads the variables cleared here, and below, before they are set anew.
Spent(c) ==
  /\ bella_opt' = [bella_opt EXCEPT ![c] = ""] /\ disco_ok' = [disco_ok EXCEPT ![c] = ""]

Dispatch(c) ==
  /\ node[c] = "DISPATCH" /\ ~Refused(c) /\ bella_opt[c] # "001"
  /\ Transfer(c, Target(bella_opt[c]))
  /\ Spent(c)
  /\ UNCHANGED <<flags, greeted, disco_state, owed, game_tale>>

\* dispatch-toggle-disco: run the command; or the system call fails.
DispatchToggle(c) ==
  /\ node[c] = "DISPATCH" /\ bella_opt[c] = "001"
  /\ StartToggle(c)
  /\ node' = [node EXCEPT ![c] = "TOGGLE"]
  /\ Spent(c)
  /\ UNCHANGED <<forwards, greeted, disco_state, owed, game_tale>>

ToggleUnavailable(c) ==
  /\ "helper" \in Faults
  /\ node[c] = "DISPATCH" /\ bella_opt[c] = "001"
  /\ Spent(c)
  /\ disco_state' = [disco_state EXCEPT ![c] = ""]
  /\ Transfer(c, "ADMIN_DISCO_ANNOUNCE")
  /\ UNCHANGED <<flags, greeted, owed, game_tale>>

\* The command runs.  Its write takes back what others were told.
Toggle(c) ==
  /\ node[c] = "TOGGLE" /\ ToggleStep(c)
  /\ owed' = IF flag' = flag THEN owed
             ELSE [d \in Calls |-> IF d = c /\ flag' = new[c] THEN new[c] ELSE ""]
  /\ UNCHANGED <<node, forwards, greeted, bella_opt, disco_ok, disco_state, game_tale>>

Toggled(c) ==
  /\ node[c] = "TOGGLE" /\ PrintNew(c)
  /\ disco_state' = [disco_state EXCEPT ![c] = new[c]]
  /\ Transfer(c, "ADMIN_DISCO_ANNOUNCE")
  /\ UNCHANGED <<greeted, bella_opt, disco_ok, owed, game_tale>>

\* admin-disco-on, admin-disco-off; no extension takes anything else, and
\* FreeSWITCH ends the call.
AnnounceToggle(c) ==
  /\ node[c] = "ADMIN_DISCO_ANNOUNCE"
  /\ IF disco_state[c] \in Values
       THEN Transfer(c, "700")
       ELSE node' = [node EXCEPT ![c] = "unrouted"] /\ UNCHANGED forwards
  /\ disco_state' = [disco_state EXCEPT ![c] = ""]
  /\ UNCHANGED <<flags, greeted, bella_opt, disco_ok, owed, game_tale>>

\* dispatch-invalid: scold, and collect any keys.
Scold(c, keys) ==
  /\ node[c] = "DISPATCH" /\ Refused(c)
  /\ bella_opt' = [bella_opt EXCEPT ![c] = keys]
  /\ ResetAndTransfer(c, "DISPATCH_AFTER_INVALID")
  /\ UNCHANGED <<flags, greeted, gate, game_tale>>

AfterInvalid_AlwaysDispatch(c) ==
  /\ node[c] = "DISPATCH_AFTER_INVALID"
  /\ Transfer(c, "DISPATCH")
  /\ UNCHANGED <<flags, greeted, bella_opt, gate, game_tale>>

AfterInvalid(c) ==
  /\ node[c] = "DISPATCH_AFTER_INVALID"
  /\ Transfer(c, IF bella_opt[c] = "" THEN "700" ELSE "DISPATCH")
  /\ UNCHANGED <<flags, greeted, bella_opt, gate, game_tale>>

-----------------------------------------------------------------------------
(* 70_option5_game.xml and bella-game                                      *)

others == <<flags, greeted, bella_opt, gate, tale>>

\* game-start: `secret 1 9`; or the system call fails and the secret is empty.
GameStart(c) ==
  /\ node[c] = "GAME_START"
  /\ \/ \E s \in Secrets : game' = [game EXCEPT ![c] = [NoGame EXCEPT !.secret = s]]
     \/ "helper" \in Faults /\ game' = [game EXCEPT ![c] = NoReply]
  /\ hints' = [hints EXCEPT ![c] = NoHints]
  /\ Transfer(c, "GAME_ASK")
  /\ UNCHANGED others

\* game-ask: a guess g, or no valid key.
GameAsk(c, g) ==
  /\ node[c] = "GAME_ASK"
  /\ game' = [game EXCEPT ![c].guess = g]
  /\ ResetAndTransfer(c, "GAME_EVAL")
  /\ UNCHANGED <<others, hints>>

\* game-eval-empty.
GameNudge(c) ==
  /\ node[c] = "GAME_EVAL" /\ game[c].guess = 0
  /\ Transfer(c, "GAME_ASK")
  /\ UNCHANGED <<others, game, hints>>

\* cmd_verdict.
Verdict_OffByOne(g) ==
  CASE g.guess = g.secret -> "hit"
    [] g.guess # g.secret /\ g.tries >= TriesMax -> "lose"
    [] g.guess < g.secret /\ g.tries < TriesMax -> "high"
    [] g.guess > g.secret /\ g.tries < TriesMax -> "low"

Verdict(g) ==
  CASE g.guess = g.secret -> "hit"
    [] g.guess # g.secret /\ g.tries + 1 >= TriesMax -> "lose"
    [] g.guess < g.secret /\ g.tries + 1 < TriesMax -> "high"
    [] g.guess > g.secret /\ g.tries + 1 < TriesMax -> "low"

\* What a caller knows after a guess and a verdict.
Left(g, possible, verdict) ==
  CASE verdict = "high" -> {n \in possible : n > g.guess}
    [] verdict = "low" -> {n \in possible : n < g.guess}
    [] verdict = "hit" -> possible \cap {g.guess}
    [] OTHER -> possible \ {g.guess}

\* game-eval.
GameEval(c) ==
  /\ node[c] = "GAME_EVAL" /\ game[c].guess # 0 /\ game[c].intact
  /\ game' = [game EXCEPT ![c] = [@ EXCEPT !.verdict = Verdict(game[c]), !.guess = 0]]
  /\ hints' = [hints EXCEPT
       ![c] = [guesses |-> @.guesses + 1, possible |-> Left(game[c], @.possible, Verdict(game[c]))]]
  /\ Transfer(c, "GAME_VERDICT")
  /\ UNCHANGED others

\* No verdict; and "bad" is the only one on a secret or a number of tries that
\* is empty: the arguments after it have moved up.
GameUnavailable(c) ==
  /\ "helper" \in Faults
  /\ node[c] = "GAME_EVAL" /\ game[c].guess # 0
  /\ game' = [game EXCEPT ![c] = [@ EXCEPT !.verdict = "", !.guess = 0]]
  /\ Transfer(c, "GAME_VERDICT")
  /\ UNCHANGED <<others, hints>>

\* game-verdict-hit and game-win, game-verdict-lose and game-lose.
GameOver(c) ==
  /\ node[c] = "GAME_VERDICT" /\ game[c].verdict \in {"hit", "lose"}
  /\ Transfer(c, IF game[c].verdict = "hit" THEN "GAME_WIN" ELSE "GAME_LOSE")
  /\ UNCHANGED <<others, game, hints>>

GameClose(c) ==
  /\ node[c] \in {"GAME_WIN", "GAME_LOSE"}
  /\ game' = [game EXCEPT ![c] = NoGame] /\ hints' = [hints EXCEPT ![c] = NoHints]
  /\ Transfer(c, "700")
  /\ UNCHANGED others

\* game-verdict-high, game-verdict-low: one try more; or `incr` fails and their
\* number is empty.
GameHint_WithoutIncr(c) ==
  /\ node[c] = "GAME_VERDICT" /\ game[c].verdict \in {"high", "low"}
  /\ game' = [game EXCEPT ![c].verdict = ""]
  /\ Transfer(c, "GAME_ASK")
  /\ UNCHANGED <<others, hints>>

GameHint(c) ==
  /\ node[c] = "GAME_VERDICT" /\ game[c].verdict \in {"high", "low"}
  /\ \/ /\ game' = [game EXCEPT ![c] = [@ EXCEPT !.tries = game[c].tries + 1, !.verdict = ""]]
        /\ UNCHANGED hints
     \/ /\ "helper" \in Faults
        /\ game' = [game EXCEPT ![c] = NoReply] /\ hints' = [hints EXCEPT ![c] = NoHints]
  /\ Transfer(c, "GAME_ASK")
  /\ UNCHANGED others

\* game-verdict-other.
GameOther(c) ==
  /\ node[c] = "GAME_VERDICT" /\ game[c].verdict = ""
  /\ Transfer(c, "GAME_ASK")
  /\ UNCHANGED <<others, game, hints>>

-----------------------------------------------------------------------------
(* 60_option7_tale.xml: each fork has the same five extensions.            *)

\* What a digit leads to, at each fork.
Tree == [TALE_OPEN   |-> <<"TALE_SHIELD", "TALE_FEED", "TALE_END">>,
         TALE_SHIELD |-> <<"TALE_END", "TALE_END">>,
         TALE_FEED   |-> <<"TALE_END", "TALE_END">>]

Picks(c) == DOMAIN Tree[tale[c].fork]

unused == <<flags, greeted, bella_opt, gate, game, hints>>

\* The first collect of a fork.
TaleAsk(c, f, p) ==
  /\ node[c] = f
  /\ p \in DOMAIN Tree[f] \cup {0}
  /\ tale' = [tale EXCEPT ![c] = [fork |-> f, pick |-> p]]
  /\ ResetAndTransfer(c, "TALE_D")
  /\ UNCHANGED unused

\* The scold (no valid digit at D) and the reprompt (R) collect again.
TaleAskAgain(c, p) ==
  /\ p \in Picks(c) \cup {0}
  /\ \/ node[c] = "TALE_D" /\ tale[c].pick = 0 /\ ResetAndTransfer(c, "TALE_AI")
     \/ node[c] = "TALE_R" /\ ResetAndTransfer(c, "TALE_D")
  /\ tale' = [tale EXCEPT ![c].pick = p]
  /\ UNCHANGED unused

TaleAfterInvalid(c) ==
  /\ node[c] = "TALE_AI"
  /\ Transfer(c, IF tale[c].pick = 0 THEN "TALE_R" ELSE "TALE_D")
  /\ UNCHANGED <<unused, tale>>

TaleBranch(c) ==
  /\ node[c] = "TALE_D" /\ tale[c].pick # 0
  /\ Transfer(c, Tree[tale[c].fork][tale[c].pick])
  /\ UNCHANGED <<unused, tale>>

TaleEnd(c) ==
  /\ node[c] = "TALE_END"
  /\ tale' = [tale EXCEPT ![c] = NoTale]
  /\ Transfer(c, "700")
  /\ UNCHANGED unused

-----------------------------------------------------------------------------
(* Callers                                                                 *)

OnHook == {"onhook", "dropped", "unrouted"}

MenuInit ==
  /\ FlagsInit
  /\ node = [c \in Calls |-> "onhook"]
  /\ forwards = [c \in Calls |-> Budget]
  /\ greeted = [c \in Calls |-> FALSE]
  /\ bella_opt = [c \in Calls |-> ""]
  /\ disco_ok = [c \in Calls |-> ""] /\ disco_state = [c \in Calls |-> ""]
  /\ game = [c \in Calls |-> NoGame]
  /\ tale = [c \in Calls |-> NoTale]
  /\ owed = [c \in Calls |-> ""]
  /\ hints = [c \in Calls |-> NoHints]

\* A channel without variables.
Fresh(c) ==
  /\ forwards' = [forwards EXCEPT ![c] = Budget]
  /\ greeted' = [greeted EXCEPT ![c] = FALSE]
  /\ bella_opt' = [bella_opt EXCEPT ![c] = ""]
  /\ disco_ok' = [disco_ok EXCEPT ![c] = ""]
  /\ disco_state' = [disco_state EXCEPT ![c] = ""]
  /\ game' = [game EXCEPT ![c] = NoGame]
  /\ tale' = [tale EXCEPT ![c] = NoTale]
  /\ owed' = [owed EXCEPT ![c] = ""]
  /\ hints' = [hints EXCEPT ![c] = NoHints]
  /\ UNCHANGED flags

\* The ATA dials 700, or somebody dials a line or any other number.
OffHook(c) ==
  /\ node[c] \in OnHook
  /\ \E n \in {"700", "NUMBER", "DIAL"} : node' = [node EXCEPT ![c] = n]
  /\ Fresh(c)

\* The caller hangs up at the menu, or has talked to another line.  Hanging up
\* elsewhere leaves the same behind, which is the flag.
HangUp(c) ==
  /\ node[c] \in {"MENU", "DIAL"}
  /\ node' = [node EXCEPT ![c] = "onhook"]
  /\ Fresh(c)

Scolded(c) == \E keys \in Dials[c] \cup {""} : Scold(c, keys)

Game(c) ==
  \/ GameStart(c) \/ \E g \in Secrets \cup {0} : GameAsk(c, g)
  \/ GameNudge(c) \/ GameEval(c) \/ GameUnavailable(c)
  \/ GameOver(c) \/ GameClose(c) \/ GameHint(c) \/ GameOther(c)

Tale(c) ==
  \/ \E f \in DOMAIN Tree : \E p \in 0..3 : TaleAsk(c, f, p)
  \/ \E p \in 0..3 : TaleAskAgain(c, p)
  \/ TaleAfterInvalid(c) \/ TaleBranch(c) \/ TaleEnd(c)

\* Every prompt ends and every collection of digits times out.
CallStep(c) ==
  \/ Greet(c) \/ Choose(c) \/ Dispatch(c) \/ DispatchToggle(c) \/ ToggleUnavailable(c)
  \/ Toggle(c) \/ Toggled(c) \/ AnnounceToggle(c) \/ Scolded(c) \/ AfterInvalid(c)
  \/ TransferElsewhere(c) \/ Game(c) \/ Tale(c)

Disk == FillOrFree /\ UNCHANGED <<node, forwards, greeted, bella_opt, gate, game_tale>>

Next == Disk \/ \E c \in Calls : CallStep(c) \/ OffHook(c) \/ HangUp(c)

Spec == MenuInit /\ [][Next]_vars

\* A patient caller who is asked over and over gives a valid answer some time,
\* or, to the scold, none.
Answers(c) ==
  \/ \E g \in Secrets : GameAsk(c, g)
  \/ \E p \in 1..3 : TaleAskAgain(c, p) \/ \E f \in DOMAIN Tree : TaleAsk(c, f, p)
  \/ Scold(c, "")

\* FreeSWITCH works on a call until it ends.  A helper answers some time, and
\* waiters of a flock do not starve.
FairSpec ==
  /\ Spec
  /\ \A c \in Calls : WF_vars(CallStep(c))
  /\ \A c \in Patient : SF_vars(Toggle(c) \/ GameEval(c)) /\ SF_vars(Answers(c))

-----------------------------------------------------------------------------
(* Properties                                                              *)

MTypeOK ==
  /\ FlagsTypeOK
  /\ forwards \in [Calls -> 0..Budget]
  /\ greeted \in [Calls -> BOOLEAN]
  /\ bella_opt \in [Calls -> Options \cup {""}]
  /\ disco_ok \in [Calls -> Values \cup {"", "empty"}]
  /\ disco_state \in [Calls -> Values \cup {""}]
  /\ owed \in [Calls -> Values \cup {""}]
  /\ game \in [Calls -> [secret : Secrets, tries : 0..TriesMax - 1, guess : Secrets \cup {0},
                         verdict : {"", "hit", "lose", "high", "low"}, intact : BOOLEAN]]
  /\ tale \in [Calls -> [fork : DOMAIN Tree, pick : 0..3]]
  /\ hints \in [Calls -> [guesses : 0..TriesMax, possible : SUBSET Secrets]]

\* However long a caller stays in any loop of the dialplan, FreeSWITCH never
\* drops the call for want of forwards: every cycle of transfers contains an
\* extension that resets max_forwards.
BudgetHolds == \A c \in Calls : node[c] # "dropped"

\* A caller who has toggled the ball codes and heard the new state finds 911
\* and 811 to be so, unless another call has toggled them since: the answer the
\* dispatch tests is read anew by each greeting.  Only a `get` that could not
\* run refuses what is on.
OwnToggleObeyed ==
  [][\A c \in Calls :
       node[c] = "DISPATCH" /\ bella_opt[c] \in {"911", "811"} /\ owed[c] # "" =>
         (node'[c] \in {"DISCO_RAISE", "DISCO_LOWER"} => owed[c] = "on")
         /\ (node'[c] = "DISPATCH_AFTER_INVALID" /\ disco_ok[c] # "" => owed[c] = "off")]_vars

\* The game plays fair: what Bella says is true of the secret, a guess and
\* nothing else uses up a try, and the game is lost with the last one only.
GameIsFair ==
  \A c \in Calls :
    /\ node[c] \in {"GAME_ASK", "GAME_EVAL"} /\ game[c].intact =>
         /\ game[c].secret \in hints[c].possible
         /\ game[c].tries = hints[c].guesses /\ hints[c].guesses < TriesMax
    /\ node[c] = "GAME_LOSE" =>
         game[c].secret \in hints[c].possible /\ hints[c].guesses = TriesMax
    /\ node[c] = "GAME_WIN" => hints[c].possible = {game[c].secret}

\* "Every path returns here": a call that has chosen gets back to the menu, or
\* into an option of another module, or ends; but for a toggle that could not
\* run, whose empty reply no extension takes, and a game that has lost its
\* secret or its tries to a helper that could not run, which never ends.
EveryPathReturns ==
  \A c \in Patient :
    node[c] \notin {"700", "MENU", "unrouted"} ~>
      \/ node[c] \in {"700", "onhook"} \cup DOMAIN Elsewhere
      \/ "helper" \in Faults /\ (node[c] = "unrouted" \/ ~game[c].intact)
=============================================================================
