# Bella Novella: a TLA+ model of the phone booth's scripts

Bella Novella is an art installation: a FreeSWITCH appliance on a Raspberry Pi
answers antique phones with a menu, and shell scripts behind the dialplan keep
recorded messages, a survey, a switch and a game, deal variants of prompts, and
drive a disco ball's linear actuator through a relay board. A maintainer
regenerates the prompts from a text file. Several phones share one set of scripts
and files, so two calls run the same commands side by side. This directory models
that system, checks it with TLC on small instances, and proves the most important
properties with TLAPS for instances of any size.

## 1. The system

| Component | State it keeps | Operations | Interacts with |
|---|---|---|---|
| `scripts/disco-relay` | three relays; `/run/disco-relay.{pid,state,lock}`; a background shell (the *mover*) and its `sleep` child | `raise`, `lower`, `brake`, `status`, `position` | dialplan runs it with `system()`; systemd stops it; signals between brake and mover |
| `50_disco_controls.xml` | channel variables `disco_pos`, `disco_move` | 911, 811, 11 | `disco-relay` |
| `scripts/bella-messages` (store) | `recordings/messages/`, `archive/` below it, free disk space | `rotate`, `archive`, `delete-all`, and listings (`count`, `resolve`, `step`, ...) | options 2 and 3, codes 000 and 003 |
| `40_option3_leave.xml` | the file being recorded | record, then `rotate` | message store |
| `30_option2_listen.xml` | index and file of the message being played | browse, "drawer", delete by index | message store |
| `scripts/bella-survey` | `db/survey.tsv`, `survey.lock`, a temporary file | `vote`, `stats`, `reset` | option 9, codes 000 and 002 |
| `80_option9_survey.xml` | `survey_pick`, `survey_bucket` | ballot, vote, reading, standing | `bella-survey` |
| `10_inbound_and_menu.xml` | `bella_opt`, `disco_ok`, `max_forwards` | menu, dispatch, codes 000 to 003 | everything above |
| `scripts/bella-flags` | one file and one lock per flag | `get`, `set`, `toggle` | menu (code 001) |
| `bella-messages pick` | a shuffle bag and the last choice per prompt family | `pick` | menu, game, announcements |
| `scripts/bella-game`, `70_option5_game.xml` | secret and tries of a call | guess | none |
| `60_option7_tale.xml` | `tale_pick` of a call | the three forks of a fable | menu |
| `20_option1_intercom.xml`, 101 to 104 | none | transfers, and a bridge | menu |
| `scripts/bella-regen-prompts`, `bella-convert-prompts` | `PROMPTS.baseline.md`, an MP3 and a WAV per prompt | regenerate what differs from the baseline, convert what is newer | a maintainer, a speech service, `sox` |

The remaining parts (`bella-ring`, installer, system units, FreeSWITCH itself,
portal) keep no state of their own or are vendored; section 7 and `PROJECT.json`
say why each is not modelled.

What makes the system hard: calls run concurrently and a script is a sequence of
commands with a possible switch after each; the mover outlives the command that
started it and holds its lock by an inherited descriptor; signals arrive between
two commands; the message store has no lock at all; `set -euo pipefail` ends a
script in the middle; power may fail and `/run` is lost with it; and a call
reads a value with one command and acts on it with another.

What makes each part correct:

* relay: one movement at a time, never both motor terminals, a stop and a settle
  time before every start, a brake that stops what is running, a position that
  is true once nothing runs, a motor that does not stay under power;
* store: no recording lost, doubled or erased without need, the playable window
  spared, `rotate` ends and reclaims what it can;
* survey: votes and resets are atomic whatever dies, a caller's standing counts
  its own vote, "first" is told to nobody else than the first;
* dialplan: every path returns to the menu before max_forwards is used up, and
  says what is true;
* flag: toggles of concurrent calls are flips of one switch, and a caller finds
  the switch as it was announced;
* game: what Bella says of the secret is true, and only guesses cost a try;
* picker: each variant once before any comes again, whichever calls they are
  played to, and none twice in a row as long as no fault has lost the note of
  the last one;
* prompts: a text that counts as voiced is voiced, whatever run failed or was
  killed; a WAV that is not its MP3 is found again, but for one that was cut
  short; and every edit is heard in the end by a maintainer who persists.

## 2. Modules

| Module | Models | How its state and actions correspond to the code |
|---|---|---|
| `Actuator` | what the relay script promises the actuator (abstract) | `motor` is what the two terminals do; `rested` says that a settle time without power has passed |
| `DiscoRelay` | `disco-relay`, command by command | `pc[c]` is the next command of caller `c`'s invocation; a mover is a pid with a command list (`perform_raise`, `perform_lower`, `preempt_movement`) and a place `at[p]` in it; `nap[p]` is its sleep child: not there, started, or started and recorded in `movement_sleep_pid`; `sig[p]` is a TERM it has not answered. The flock is not a variable: `LockFree` says that nobody has descriptor 9 open |
| `MCDiscoRelay` | symmetry for TLC | |
| `DiscoControls` | `50_disco_controls.xml` over `DiscoRelay` | `exten[c]` is the extension, `disco_pos`, `disco_move` the channel variables, `said` the prompt |
| `DiscoRelayProofs` | theorems about `DiscoRelay` | |
| `DiscoControlsProofs` | theorems about `DiscoControls` | |
| `MessageStore` | `rotate`, `archive`, `delete-all`, option 3 | a message is its place in recording order (the order of the file names); `todo[c]` are the files a command has listed and is about to move or remove |
| `MessageStoreProofs` | theorems about `MessageStore` | |
| `ListenSession` | option 2 and the drawer over `MessageStore`, with the listing commands | `node[c]` is the extension, `idx[c]` is `msg_idx`, or `drawer_idx` once in the drawer (a call never goes back from it), `file[c]` is `msg_file` or `drawer_file`, `nav[c]` the key pressed last |
| `ListenSessionProofs` | theorems about `ListenSession` | |
| `Tally` | what the survey promises (abstract) | one counter per option; a vote is one step |
| `SurveyTally` | `bella-survey`, option 9, resets | `tally` is what `load_counts` reads; `temp[c]` the lines written to the temporary file; `node[c]` the extension |
| `SurveyTallyProofs` | theorems about `SurveyTally` | |
| `Dealer` | what `pick` promises (abstract) | `left` is what a round still has to deal; a draw is one step |
| `ShuffleBag` | `bella-messages pick` for one family of prompts | `pc[c]` is the next command of call `c`'s pick, `bag`, `last` and `lockfile` the three files, `flock` the holder of the lock, `host` the state of tmpfs and tools, `listing[c]`, `choice[c]`, `rest[c]` its shell variables |
| `ShuffleBagProofs` | theorems about `ShuffleBag` | |
| `Switch` | what `toggle` promises (abstract) | a flip is one step, and tells the state it left |
| `BellaFlags` | `bella-flags get` and `toggle` | `flag` is the file, `new[c]` what call `c`'s toggle writes and prints |
| `Menu` | the dialplan from 700: greetings, dispatch, 001, invalid entries, option 5, option 7, and the transfers of all others, over `BellaFlags` | `node[c]` is the destination number, `forwards[c]` is `max_forwards`, `game[c]` the channel variables of the game, `tale[c]` those of the fable; the other names are the dialplan's |
| `MCMenu` | what two callers dial, for TLC | |
| `MenuProofs` | theorems about `Menu` and `BellaFlags` | |
| `PromptBaseline` | `bella-regen-prompts` and `bella-convert-prompts` | `md` and `base` are the two Markdown files, `mp3` and `wav` what the sound files say, `newer` the comparison of their times, `torn` the WAVs that were cut short; `pc` the step of the run, `mode` its options |
| `PromptBaselineProofs` | theorems about `PromptBaseline` | |

`DiscoControls` composes the dialplan with `DiscoRelay` by EXTENDS: the relay's
commands are shared, its environment faults are not. `ListenSession` composes
option 2 with the store in the same way: calls in the menu record and archive,
and delete only by way of the drawer. `Menu` composes the dialplan with
`BellaFlags`. `Actuator`, `Tally`, `Dealer` and `Switch` are instantiated with
refinement mappings (`MotorSpec`, `TallySpec`, `DealerSpec`, `SwitchSpec`). Variables
called ghosts are not in the code: the position of the ball, whether the motor
has rested, which movers a brake found running, which messages were erased,
which vote a caller cast, which toggle still stands (`owed`), what a player
has been told (`hints`), which variant the bag dealt last and whether the note of
it was lost (`dealt`, `forgot`). They record history for the properties and guard no
step.

Some operators have a twin whose name says `Without`, `Ignoring`, `Instead`,
`OffByOne`, `Strictly`, `FromZero`, `InPlace`,
`Unclamped`, `Stuck`, `AndStep` or `Always`. These are deliberately wrong
variants, used by nothing: each is substituted for the right one to see that a
property notices. `PROJECT.json` ("mutants") says which property sees which.

### Modelling decisions

*Time.* The relay model has no clock. A sleep ends when it ends, and the five
polls of `run_stop` (half a second) may be over at any time: `AwaitMover` has no
guard on the mover. "Rested" means that a settle sleep ended without power.

*Signals.* A trapped bash answers TERM at the next command boundary, or at once
when it is in `wait`. So `sig` goes from `pending` to `due` with the command
that was running, and a due mover does nothing but `Preempt`. The handler resets
TERM to its default first, so a second TERM kills the mover, and as bash does
then, without its EXIT trap. An exit by `set -e`, and a normal one, run it.

*Pids* are reused freely, also while an old pid is still in the pid file.

*Full `/run`.* The redirections of the pid and of the position ignore a failure
(`WritePidFails`, `WritePositionFails`). Their file is then empty, or absent if
there was none; an empty position is neither up nor down, which is what
"unknown" means to the dialplan.

*Disk space* is counted in messages: it is low when more than `Room` are stored.
This drops recordings of different length; `rotate` looks at the disk again
after every removal, so it never computes with sizes.

*Long listings.* `Block` stands for the names that fit the pipe between `sort`
and `head -n 1`. A longer listing makes `sort` fail, and `set -euo pipefail`
ends the script (`ListFails`).

*Hang-ups.* A caller who hangs up while recording gets no `rotate`
(`RecordEnds` may go to `idle`). A hang-up elsewhere in the dialplan leaves
files as a return to the menu does, since the scripts run on.

*Keys.* One step of a session plays a file, takes at most one key, and runs the
chain of extensions for it up to the next command that lists the store: the rest
of the chain reads channel variables only. `play_and_get_digits` sets its
variable to the key, or clears it. Where "any other key" is meant, one key
stands for all.

*Interrupted archive.* Each prefix of an `archive` is a reachable state, so a
script killed in the middle needs no action of its own for the safety
properties.

*Survey.* The counters are unbounded; `MaxVotes` only closes the ballot once an
option has so many. Each option's line of the temporary file is one step; the
order of the lines does not matter to anyone. A reset that fails to write is
`Die`.

*Menu.* A channel variable is cleared in the model once nobody reads it before
it is set anew. The options 1, 2, 3, 9, 911, 811 and 11 are, in this module, the
graph of their transfers (`Elsewhere`), any of which may be taken. A caller hangs
up at the menu or while talking to another line; hanging up elsewhere leaves the
same behind, the flag. `Highest` and `TriesMax` stand for 9 and the tries of the
dialplan.

*Helpers.* `system()` may fail and leaves an empty variable: a `toggle` whose
reply no extension takes, a `get` that refuses 911 and 811, a `verdict` that is
none; after an empty secret or number of tries the arguments of `verdict` have
moved up by one, and it prints "bad" ever after (`intact`). A picker that
fails plays no prompt, and nothing reads what it left.

*Bag.* The bag is a set: the order of its lines is random and read by dealing
the first only, so the draw can as well be made when it is dealt.

*Full tmpfs.* A redirection empties the file before the write fails. So a full
disk leaves an empty bag, no last variant, or a flag that is neither on nor off;
the scripts go on, since `|| true` has switched errexit off. A full disk refuses
a new lock file, but opens one that is there (`lockfile`). `host` has one fault
at a time, which comes and goes between any two commands: `full`, `unusable` (the
folder cannot be made or written), and `bare` (no process can be started: no
`flock`, no `grep`, no `shuf`), each with the random draw that the code falls back
to. `grep` failing alone, which makes the bag look empty, is not modelled.

*Conversion.* `mp3` and `wav` are the text a file says; `torn` are the WAVs that a
kill cut short while `sox` wrote them (`KilledConverting`). A `sox` that fails by
itself removes its output or has not opened it (`ConvertFails`). A kill while the
baseline is written leaves some of its texts (`KilledSaving`). Kills are those of
processes: what a power failure does to files that are not yet on the disk is
left out. `ByHand(TRUE)` is a conversion with `--force`.

*Prompts.* A text is the number of the edit that wrote it, so two texts differ.
Texts that come back, and edits during a run, are the steps of `CarelessSpec`;
runs with `--prompt` those of `NamedSpec`. They break the promise of the tool
(section 6) and are kept out of the specification that is proved. A checkout
has an MP3 and a WAV of each prompt.

## 3. Runs

| Run | Instance | Shows |
|---|---|---|
| `relay_faults` | 2 callers, 2 pids, all five faults, symmetry | `OneMover`, `NeverBothOn`, the inductive invariant `IInv` with the types in it, refinement of `Actuator` |
| `relay_one_call` | 1 call, 2 pids, fairness, no faults | `DTypeOK`, `BrakePreempts`, `PositionTruthful`, `PowerIsOwned`, `AlreadyThereAtRest`, `CallReturns`, `MotorRests` |
| `store_two_calls` | 2 calls, 5 messages, window 3, room 2, pipe 3, fairness | `Conserved`, `SparesWindow`, `ErasesForRoom`, `RotateEnds` |
| `listen_drawer` | 1 listener, 1 other call, 4 messages, window 2, room 3, fairness | `NoneSkipped`, `DeletesNoOlder`, `SilentSessionEnds` |
| `survey_two_calls` | 2 calls, 2 options, 2 votes each, scripts may die, fairness | `IInv`, `FirstIsFirst`, `OwnVoteCounts`, refinement of `Tally`, `VoterReturns` |
| `shuffle_bag` | 2 calls, 3 variants that come and go, tmpfs full, unusable or wiped, tools that cannot be run, fairness | `IInv`, refinement of `Dealer`, `DistinctEntries`, `PickEnds` |
| `menu_calls` | 2 calls, one that dials every kind of option and one that toggles; secrets and tries up to 3, budget 70, failing helpers, tmpfs full or unwritable, fairness | `MTypeOK`, `BudgetHolds`, `GameIsFair`, refinement of `Switch`, `OwnToggleObeyed`, `EveryPathReturns` |
| `prompt_regen` | 2 prompts, 3 texts each, 2 faults (failures, and kills anywhere, also within a WAV or the baseline), fairness | `BTypeOK`, `CurrentIsVoiced`, `MtimeTells`, `SuccessIsVoiced`, `EditsArePublished` |
| `relay_brake_race`, `store_first_rotate`, `listen_delete`, `regen_named` | as small as the case allows, no faults | what a comment promises and the code does not do: section 6 |

Why these bounds are enough for the cases of interest:

* Relay: two callers are what it takes for a command beside a command; the lock
  admits one mover, so a second pid is needed only for the mover that follows
  one whose orphaned sleep, pid file or signal is still around. `DiscoControls`
  runs with one call because with two the brake race breaks `BrakePreempts` and,
  later, `PositionTruthful`; what holds for one call is worth knowing, and one
  call still overlaps with movements it has started.
* Store: five messages let two calls fill window and archive while others age
  out. In `store_two_calls` there is less room than the window asks for, so that
  only the count of `rotate`, and not the disk, spares the window. Three names
  in a pipe let listings fail and succeed.
* Listening: four messages are two past the window, so that the drawer has an
  inside and an end, and a recording can push a message out of the window while
  it plays. One listener is enough to be disturbed by another call; `Listeners`
  bounds who dials 2.
* Survey: two options give every bucket of `cmd_stats`; two votes let one call
  overtake another between vote and standing, and a reset come in between.

* Picker: two calls are what it takes for one to wait for the lock while the
  other deals. With three variants a bag may be new, partly dealt, or shrunk to
  what was removed, and the exchange that keeps the last variant from coming
  first has something to exchange. A listing is made before the lock is waited
  for, so that it may be stale.
* Menu: the second call only disturbs the flag, which is all that calls share
  here; the first dials one option of each kind and every kind of invalid entry.
  Three secrets and three tries give each verdict before and at the last try.
  The number of forwards is the dialplan's own.
* Prompts: two prompts are needed for one to fail while the other succeeds, two
  faults for a failure after a failure, three texts for an edit after a run that
  failed on an edit.

Deadlock is checked in the relay, picker, menu and prompt runs. It is switched off
in the store, listening and survey runs, where the bound on recordings and votes
lets calls come to rest.

### Fairness

* `DFairSpec`: weak fairness of everything a call does outside the menu, and of
  movers. FreeSWITCH works on a call until it ends; the kernel schedules shells;
  sleeps end. Nobody is obliged to dial, and no fault is assumed to stop.
* `MessageStore!FairSpec`: weak fairness of a call's script steps. `RotateEnds`
  also rests on the bound on recordings: if other calls recorded without end
  while a disk stayed low, a rotate could go on erasing without end.
* `LFairSpec`: weak fairness of a session, whose caller presses a key or lets the
  file play to its end, and of scripts.
* `SurveyTally!FairSpec`: weak fairness of scripts and prompts, strong fairness
  of `flock`. Weak fairness is not enough, because the lock is taken and freed
  by others. The kernel keeps a queue of waiters on a flock and wakes
  all of them when it is freed, so a waiter does not lose for ever.
* `ShuffleBag!FairSpec`: weak fairness of a pick, strong fairness of `Flock`, for
  the same reason. Installing, filling the disk and restarts owe nothing.
* `Menu!FairSpec`: weak fairness of a call's steps, since every prompt ends and
  every collection of digits times out. For the `Patient` callers, strong fairness
  of two more: a caller who is asked again and again gives a valid answer, or
  stays silent to the scold, some time (without it a caller may stay in any loop
  of the dialplan for ever, as in the code); and a helper that is run again and
  again runs some time.
* `PromptBaseline!FairSpec`: a run goes on; and the maintainer starts runs without
  options, and conversions with `--force`, again and again. The last is needed,
  for conversions that failed and for WAVs that were cut short: see section 6.

`MotorRests` holds without faults only, and not with `kill -9` or a failing GPIO
tool: then no process is left that would cut the motor, in the code as in
the model.

## 4. Properties worth a word

* `OneMover` is more than the lock: a command exits while the movement it
  forked still holds the descriptor, a mover may be killed while its sleep holds
  it, and a brake does not take the lock at all.
* `MotorSpec` says the same of any step of any shell, in any order: power is
  given only to a motor that has stood for a settle time, and it never goes from
  one direction to the other.
* `PositionTruthful`: with nothing under way, "up" is only recorded when the
  ball is at the top with the lights on.
* `PowerIsOwned` is what `MotorRests` rests on, without fairness and for callers
  who brake each other's movements: a terminal that is on has a mover with the
  cut still in its list, or a brake that has signalled it and has not cut yet. The
  case to worry about is two brakes: the second TERM kills the mover inside
  `preempt_movement`, and the motor is left to the brake that sent it. The run has
  one call, and so never two brakes; `PowerHasOwner` proves it for all numbers of
  callers, and `DiscoRelay_faults.cfg` with `Faults = {"reboot", "full"}` and this
  property as its invariant passes. After a service stop, which ends mover and brake, nobody
  is left (TLC refutes it with `stop`, `kill9` or `gpio` among the faults).
* `SparesWindow` and `ErasesForRoom` say what is left of the promises of
  `rotate` when it runs without a lock: beside `n` other calls, at most `n`
  messages of the window, and `n` messages more than needed, can go. The strict
  form, `SparesWholeWindow`, is refuted.
* `Conserved` is about `mv` and `rm` of files that others have moved since they
  were listed.
* `NoneSkipped`: a session holds an index into a list that others lengthen, and
  shortens it itself; what it plays next is the next older live message, or one
  at least as new. `DeletesNoOlder` is the same for the key 7; the strict form,
  `DeletesCurrent`, is refuted.
* `FirstIsFirst`: two callers are never both told that they were the first to
  choose the same option since the last reset.
* `BudgetHolds`: each of a hundred extensions takes one of 70 forwards, and only
  some set the number anew. A loop without a reset works in every test that is
  not longer than 70 transfers.
* `OwnToggleObeyed` ties a prompt that has been played to what a later dispatch
  does, across a variable, a file and the toggles of other calls.
* `GameIsFair` compares the game with what the player can infer from the answers.
* `EveryPathReturns` is the dialplan's own "Every path returns here", with the two
  exceptions that it has when a helper cannot run.
* `DealerSpec` is about rounds that concurrent calls share; `DistinctEntries` about
  the boundary of two rounds, and about a `last` that is not yet written or has
  been lost. It compares with the ghost `dealt`, what the bag dealt last, and not
  with what the code remembers. A repetition is possible only as the first of a
  new bag after a full tmpfs or a restart has lost the note (`forgot`). The one
  variant of a family, and a random draw, are not dealt by the bag and not noted
  by it: they may repeat, or be repeated, at any time.
* `CurrentIsVoiced` says that no text is forgotten by a run that dies, `MtimeTells`
  that no WAV is, but for one that was cut short; `SuccessIsVoiced` what a
  successful run means; `EditsArePublished` that failures are made up for, whole,
  if the maintainer converts with `--force`.

## 5. Proofs

TLAPS checks the following for every value of the constants under the modules'
assumptions: `NoPid` is no pid, faults are among the kinds named, the bounds are
numbers, `Nobody` is no caller and no option, `Nothing` is no call, no variant and
no value, and the calls of `MessageStore` are finitely many (`switch.conf.xml:3`
sets `max-sessions`). A theorem that needs more states it as a hypothesis.

* `DiscoRelayProofs`. None of the relay properties is inductive by itself:
  "at most one mover" needs to know who may still have descriptor 9 open
  (`LockInv`: the invocation holding the lock, its mover and its sleep belong
  together), and "never both terminals" needs to know what a movement has done
  by the time it reaches its n-th command (`MotorInv`, `PlaceInv`), which in turn
  needs that no other mover can write a relay. Brakes only ever cut, so they
  preserve it. The module proves `Init => IInv`, one lemma for each group of
  actions, and from `IInv`: `TypeCorrect`, `AtMostOneMover`,
  `TerminalsExclusive` and `ImplementsActuator`, in which each step maps to
  `Settle`, `Start`, `Cut` or a stutter.
  `BrakeAlwaysPreempts` holds under every fault but a full `/run`, where the pid is
  not written, and needs `OneCaller`, since two callers are the race of
  `relay_brake_race`. Its invariants are that a movement
  nobody has told to end is named by the pid file, or by the invocation about to
  write it (`PidInv`), and that a brake past its signal leaves no such movement
  (`BrakeInv`). `PositionIsTruthful` adds how far a movement has brought the ball
  by its n-th command (`DoneInv`), and that the position is true unless a brake is
  about to forget it or a movement to replace it (`PosInv`). It assumes `OneCaller`
  and no fault but reboots; TLC refutes it with any other. `PowerHasOwner`
  (`PowerIsOwned`, any number of callers, reboots, a full `/run`) is inductive with the places of
  the movers (`PlaceInv`): the lemmas `RaiseRest`, `LowerRest` and `PreemptRest` say
  until which place a list still cuts a terminal, `AdvanceOwns` that a mover which
  switches power on has the cut before it.
* `DiscoControlsProofs`: `ControlsImplementRelay` shows that calls do nothing but
  what callers of the script may do, and none of its faults, so the relay's
  theorems hold of calls: `CallsPowerHasOwner` and `ControlsTyped` for any number
  of calls, `CallsBrakePreempts` and `CallsPositionIsTruthful` for one.
  `AlreadyThereIsThere` needs one more invariant, `StillInv`: from the reading of
  the position to the command, nothing moves unless another call makes it.
* `MessageStoreProofs`: `StoreTyped` and `NoMessageLost`. `Conserved` is
  inductive once the types are known: each removal or move takes effect on what
  is in the store when it happens, not on what was listed. `RotateSparesWindow`
  and `RotateErasesForRoom` are action properties. They rest on what the one
  listed file is by the time it is removed (`ListedInv`: the oldest, or archived)
  and on a count: since a rotate has tested the disk (`SpaceInv`), or the window
  (`WindowInv`), each message that has gone was erased by a rotate that has to test
  again before it erases another, so at most one is gone per other call.
* `ListenSessionProofs`: a session adds nothing to what may happen to the store.
  `SessionImplementsStore` needs that an index which resolves to a message is one
  that `delete-all` may be called with, which is a fact about cardinalities;
  `SessionsLoseNoMessage` and `SessionTyped` follow from the store's lemmas, and
  `SessionsLeaveRotateAlone` is the store's theorems about `rotate`.
  `PagingSkipsNone` and `SevenDeletesNoOlder` rest on `IndexInv`: the index is at
  most the number of live messages at and above the one played last, the one being
  deleted left out, plus one where the next is still to be resolved; recordings
  only raise that number.
* `SurveyTallyProofs`: `SurveyInductive` proves `IInv` (whoever is past `flock`
  owns the lock; what a writer will save is still the tally plus its vote) and
  `ImplementsTally` maps the rename to `Vote` or `Reset` and everything else to
  a stutter, so the survey is atomic for any number of calls and options and
  scripts that die anywhere. `FirstForOne` and `VotesStand` add the history
  (`PlaceInv`): the count has reached the place of every vote, no two votes for an
  option have one place, and who was told "first" had the first.

* `PromptBaselineProofs`: `CurrentIsVoiced` is not inductive. `BInv` adds what a
  run has still to do (`RunInv`: what differs from the baseline is in `changed`,
  and what of that is neither left nor failed says its text), and that a new text
  is one the baseline has never seen (`OldInv`). From it `BaselineTyped`,
  `VoicedIsVoiced`, `RunVoices` (`SuccessIsVoiced`) and `ConversionsAreFound`
  (`MtimeTells`). What `MtimeTells` has to leave out is what `ForceIsEnough` is
  about: a conversion with `--force` that ends well leaves every WAV whole. Its
  invariant is that an MP3 whose turn has come (not in `todo`) has a whole WAV.
* `ShuffleBagProofs`: `BagInductive` proves `IInv`, whose core is that what the
  holder of the lock is about to write back is still the bag, or a new round, less
  one variant (`DealInv`), and that the variant dealt last is not in the bag, and
  is noted in `last`, or about to be, unless a fault has lost it (`LastInv`).
  `EntriesDiffer` follows, and `ImplementsDealer` maps the write of the bag to the
  deal.
* `MenuProofs`: `FlagsInductive` and `ImplementsSwitch` for toggles; `MenuInv` adds
  the types of the menu, what is still owed to a caller (`OwnInv`), and the tries
  of a game at each of its extensions (`FairAt`): `MenuTyped`, `OwnToggle`,
  `GameFair`. `TenForwardsSuffice` uses a measure, `Need`, which is how many
  forwards an extension may use up before the next reset: each transfer falls in
  it (`NeedFalls`) or comes after a reset. It shows more than the run: 10 forwards
  would do, the dialplan has 70.

So every invariant, action property and refinement that a passing run checks is
proved. Checked by TLC only is liveness, since the prover knows neither
fairness nor ENABLED: `MotorRests`, `CallReturns`, `RotateEnds`,
`SilentSessionEnds`, `VoterReturns`, `PickEnds`, `EveryPathReturns` and
`EditsArePublished`. Where the proofs assume one caller, or leave
a fault out, TLC has the counterexample with two, or with that fault.

## 6. Where code and comments disagree

| What the comment says | What the code does | Run |
|---|---|---|
| "brake always preempts" (`disco-relay:76`) | not between the fork of a movement and the write of its pid file (340-344) | `relay_brake_race` |
| brake "frees the flock promptly" (`:227-229`) | not when TERM lands between `sleep &` and the recording of its pid (222-223) | none: `NoSleepHoldsTheLock` in `DiscoRelay` |
| 911 raises "unless it is already up" (`50_disco_controls.xml:10`) | the position is that of the last completed movement, also while the ball moves away | none: `AlreadyThereIsTrue` in `DiscoControls` |
| "busy" is printed "so the dialplan can tell the caller" (`disco-relay:327`) | the dialplan announces the movement whatever was printed | none: `AnnouncedIsStarted` in `DiscoControls` |
| rotate is "never touching the newest PLAYBACK_LIMIT" (`bella-messages:123`) | two at a time may | none: `SparesWholeWindow` in `MessageStore` |
| "Still low? Fall back to the oldest LIVE messages" (`:123`) | a missing `archive/` ends the script before that; so does a listing larger than a pipe | `store_first_rotate` |
| "7 = delete the current message" (`30_option2_listen.xml:233`) | the index is resolved again: after a new recording, another message | `listen_delete` |
| "a brand-new pick reads as first" (`80_option9_survey.xml:48`) | another vote, or a reset, may come between vote and standing | none: `BrandNewReadsFirst` in `SurveyTally` |
| "re-synthesizes only the prompts whose text changed" (`bella-regen-prompts:5`) | a run with `--prompt` makes the whole file the baseline (376): other changes are forgotten | `regen_named` |
| "PROMPTS.md is the source of truth" (`:4`) | a text reverted after a partial run, or edited during one, is never voiced | none: `SuccessIsVoiced` under `CarelessSpec` in `PromptBaseline` |
| the tool "runs bella-convert-prompts to rebuild the 8 kHz WAVs" (`:8`) | not in the run after one whose conversion failed: nothing differs any more (324) | none: `EditsArePublished` needs `SF_vars(ByHand(TRUE))` |
| "the WAVs are generated from" the MP3s, the source of truth (`bella-convert-prompts:5`) | `sox` writes the WAV where it stands (37): cut short by a kill, it is newer than its MP3 and stays so | none: exception of `MtimeTells` |
| "Write value atomically" (`bella-flags:43`) | on a full tmpfs an empty file is installed | none: the step `Blank` of `Switch` |
| "Every path returns here" (`10_inbound_and_menu.xml:20`) | a toggle that cannot run leaves a reply that no extension takes, and the call ends | none: exception of `EveryPathReturns` |
| the catch-all is "Defensive ... nudge and re-ask" (`70_option5_game.xml:106`) | after a failed `secret` or `incr` it asks for ever | none: exception of `EveryPathReturns` |
| "Reshuffles ... whenever the bag is empty or stale" (`bella-messages:294`) | an added variant waits for the bag to be empty | none: `Dealer` states it |
| "avoids repeating the last-played entry across a refill" (`:296`), "concurrent calls get distinct entries" (`:269`) | not when a full tmpfs or a restart has lost the note of it (344), nor for a lone variant or a random draw (284, 290) | none: exceptions of `DistinctEntries` |

Each violation run checks the one property with TLC and no fault enabled. Where
the last column says "none: X in M", a configuration of `M` with `X` as its one
property finds the counterexample; the other rows say which step, fairness
condition or exception of a passing property stands for the disagreement.

## 7. Not modelled, and the plan

Most files of the repository are not its own program: FreeSWITCH's binaries,
modules and headers, sound files, and a web portal, Ember and Bootstrap with one
script of its own (`fsportal.js`), below `htdocs/portal`. The portal would be served by FreeSWITCH's
`mod_xml_rpc`, which the repository neither ships nor loads in
`modules.conf.xml`, so that none of it runs. The program is some 3,500 lines of
bash, Python and dialplan XML. Of these the models leave out:

* `bella-ring` and its timer. It keeps no state; the call it makes is
  `OffHook` with 700 in `Menu`.
* `install.sh`, the service and timer units, network and gateway configuration:
  provisioning. `ServiceStop` and `Restart` are what the models use of it.
* Commands for people: `status`, `dump`, `--list`, `--dry-run`, which change
  nothing; `bella-flags set`, which nothing calls; argument checks that the
  dialplan's constants cannot fail.
* Logging, wording, and the content of sound.

The plan has no safety property left to prove. What remains out of reach is
liveness; `PowerIsOwned` is the part of `MotorRests` that needs no fairness, and a
measure like `Need` in `MenuProofs` would be that of `RotateEnds`.

Each of the violation runs can give up its place to a passing one once the code
or the comment it is about is corrected.

## 8. Running it

    tlc -workers 2 -config DiscoRelay_faults.cfg MCDiscoRelay
    tlapm DiscoRelayProofs.tla

The other runs name their module and configuration in `PROJECT.json`.
