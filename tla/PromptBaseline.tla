---------------------------- MODULE PromptBaseline ----------------------------
(***************************************************************************)
(* scripts/bella-regen-prompts and scripts/bella-convert-prompts: texts in *)
(* PROMPTS.md, a baseline that says which of them have been voiced, an MP3 *)
(* per prompt from a service that may fail, and a WAV per MP3.  One run at *)
(* a time; it may fail, or be killed, at any of its steps.  An MP3 is put  *)
(* in place by a rename; the baseline and a WAV are written where they     *)
(* stand, and a kill in the middle of that leaves part of them.            *)
(*                                                                         *)
(* A text is the number of the edit that made it, 0 stands for no text and *)
(* no file.                                                                *)
(***************************************************************************)
EXTENDS Naturals

CONSTANTS
  Prompts,
  MaxVersion,  \* bound: texts written for each prompt
  MaxFaults    \* bound: failures of the service and of sox, and kills

ASSUME BaselineBounds == MaxVersion \in Nat \ {0} /\ MaxFaults \in Nat

VARIABLES
  written,  \* per prompt: how many texts it has had
  md,       \* per prompt: its text in PROMPTS.md
  base,     \* per prompt: its text in PROMPTS.baseline.md
  hasBase,  \* whether that file exists
  mp3,      \* per prompt: the text its MP3 says
  wav,      \* per prompt: the text its WAV says
  newer,    \* the prompts whose MP3 is newer than the WAV
  torn,     \* the prompts whose WAV is only the first part of what it says
  pc,       \* next step of the run: "idle" if there is none
  mode,     \* of the run: "default", "force", "named"; or convert only,
            \* by hand: "hand", and "all" with --force
  convert,  \* whether the run converts: not --no-convert
  current,  \* the run's copy of md
  changed,  \* what it regenerates, or with "all" converts
  todo,     \* what of it is left
  failures, \* what of it has failed
  exit,     \* how the last run ended: "none" while it runs
  faults    \* how many faults there have been

files == <<md, base, hasBase, mp3, wav, newer, torn>>
run   == <<mode, convert, current, changed, todo, failures>>
vars  == <<written, files, pc, run, exit, faults>>

Versions == 0..MaxVersion
None     == [p \in Prompts |-> 0]

\* An operator called Instead, Ignoring or Without is a deliberately wrong
\* variant of the next one: see DiscoRelay.

\* A checkout in which all is voiced, without a baseline yet.
Init ==
  /\ written = [p \in Prompts |-> 1]
  /\ md = [p \in Prompts |-> 1] /\ mp3 = md /\ wav = md /\ newer = {} /\ torn = {}
  /\ base = None /\ hasBase = FALSE
  /\ pc = "idle" /\ mode = "default" /\ convert = FALSE
  /\ current = None /\ changed = {} /\ todo = {} /\ failures = {}
  /\ exit = "none" /\ faults = 0

-----------------------------------------------------------------------------
(* The maintainer                                                          *)

Edit(p, text) ==
  /\ hasBase
  /\ md' = [md EXCEPT ![p] = text]
  /\ UNCHANGED <<base, hasBase, mp3, wav, newer, torn, pc, run, exit, faults>>

\* A new text for a prompt, also for one that is not in the file (any more).
WriteText(p) ==
  /\ written[p] < MaxVersion
  /\ written' = [written EXCEPT ![p] = @ + 1]
  /\ Edit(p, written[p] + 1)

Write(p)  == pc = "idle" /\ WriteText(p)
Remove(p) == pc = "idle" /\ md[p] # 0 /\ Edit(p, 0) /\ UNCHANGED written

\* What the tool does not stand, see the end of the specification: a text that
\* returns, and an edit while it runs.
Revert(p) ==
  /\ pc = "idle"
  /\ \E v \in 1..written[p] : v # md[p] /\ Edit(p, v)
  /\ UNCHANGED written

Race(p) == pc # "idle" /\ WriteText(p)

-----------------------------------------------------------------------------
(* bella-regen-prompts                                                     *)

\* The run ends; its variables are gone.
End(how) ==
  /\ pc' = "idle" /\ exit' = how
  /\ current' = None /\ changed' = {} /\ todo' = {} /\ failures' = {}
  /\ UNCHANGED <<mode, convert>>

\* main: parse PROMPTS.md, create the baseline from it if there is none.
Start(m, c) ==
  /\ pc = "idle" /\ md # None
  /\ mode' = m /\ convert' = c /\ exit' = "none"
  /\ current' = md
  /\ base' = IF hasBase THEN base ELSE md
  /\ hasBase' = TRUE
  /\ pc' = "decide"
  /\ UNCHANGED <<written, md, mp3, wav, newer, torn, changed, todo, failures, faults>>

\* "no prompts parsed".
StartEmpty ==
  /\ pc = "idle" /\ md = None
  /\ exit' = "failed"
  /\ UNCHANGED <<written, files, pc, run, faults>>

Parsed == {p \in Prompts : current[p] # 0}
Diff   == {p \in Parsed : base[p] # current[p]}

\* What to regenerate: what differs, or everything.
Wanted == IF mode = "default" THEN Diff ELSE Parsed

Regenerates(names) ==
  /\ pc = "decide" /\ names # {}
  /\ changed' = names /\ todo' = names
  /\ pc' = "synthesize"
  /\ UNCHANGED <<written, files, mode, convert, current, failures, exit, faults>>

Decide == mode # "named" /\ Regenerates(Wanted)

\* With --prompt, what is named, if it is known.
DecideNamed(names) == mode = "named" /\ names \subseteq Parsed /\ Regenerates(names)
UnknownNamed ==
  /\ pc = "decide" /\ mode = "named" /\ Parsed # Prompts
  /\ End("failed")
  /\ UNCHANGED <<written, files, faults>>

\* "Nothing to regenerate": the file is copied to the baseline, and nothing is
\* converted.
Nothing ==
  /\ pc = "decide" /\ mode # "named" /\ Wanted = {}
  /\ base' = md
  /\ End("ok")
  /\ UNCHANGED <<written, md, hasBase, mp3, wav, newer, torn, faults>>

\* synthesize writes a temporary file and renames it.
Generate(p) ==
  /\ pc = "synthesize" /\ p \in todo
  /\ mp3' = [mp3 EXCEPT ![p] = current[p]]
  /\ newer' = newer \cup {p}
  /\ todo' = todo \ {p}
  /\ UNCHANGED <<written, md, base, hasBase, wav, torn, pc, mode, convert, current,
                 changed, failures, exit, faults>>

Fault == faults < MaxFaults /\ faults' = faults + 1

GenerateFails_WithoutGoingOn(p) ==
  /\ pc = "synthesize" /\ p \in todo /\ Fault
  /\ failures' = failures \cup {p}
  /\ UNCHANGED <<written, files, pc, mode, convert, current, changed, todo, exit>>

GenerateFails(p) ==
  /\ pc = "synthesize" /\ p \in todo /\ Fault
  /\ todo' = todo \ {p} /\ failures' = failures \cup {p}
  /\ UNCHANGED <<written, files, pc, mode, convert, current, changed, exit>>

\* Failures end the run; the baseline is left as it is.
GiveUp ==
  /\ pc = "synthesize" /\ todo = {} /\ failures # {}
  /\ End("failed")
  /\ UNCHANGED <<written, files, faults>>

Convertible(c) == IF c THEN pc' = "convert" /\ UNCHANGED <<run, exit>> ELSE End("ok")

\* All succeeded: the file, read again, becomes the baseline.
Save_IgnoringFailures ==
  /\ pc = "synthesize" /\ todo = {}
  /\ base' = md
  /\ Convertible(convert)
  /\ UNCHANGED <<written, md, hasBase, mp3, wav, newer, torn, faults>>

Save ==
  /\ pc = "synthesize" /\ todo = {} /\ failures = {}
  /\ base' = md
  /\ Convertible(convert)
  /\ UNCHANGED <<written, md, hasBase, mp3, wav, newer, torn, faults>>

-----------------------------------------------------------------------------
(* bella-convert-prompts                                                   *)

\* An MP3 without a WAV, or newer than it.
Stale_InsteadMissing == {p \in Prompts : mp3[p] # 0 /\ wav[p] = 0}
Stale == {p \in Prompts : mp3[p] # 0 /\ (wav[p] = 0 \/ p \in newer)}

\* What is left to convert: with --force every MP3 of the folder, once.
Due_WithoutForce == Stale
Due == IF mode = "all" THEN todo ELSE Stale

ByHand(force) ==
  /\ pc = "idle" /\ exit' = "none"
  /\ mode' = IF force THEN "all" ELSE "hand"
  /\ changed' = IF force THEN {p \in Prompts : mp3[p] # 0} ELSE {}
  /\ todo' = changed'
  /\ pc' = "convert"
  /\ UNCHANGED <<written, files, convert, current, failures, faults>>

Convert(p) ==
  /\ pc = "convert" /\ p \in Due
  /\ wav' = [wav EXCEPT ![p] = mp3[p]]
  /\ newer' = newer \ {p} /\ torn' = torn \ {p}
  /\ todo' = todo \ {p}
  /\ UNCHANGED <<written, md, base, hasBase, mp3, pc, mode, convert, current, changed, failures,
                 exit, faults>>

\* sox ends the script, and has removed the WAV or not touched it.
ConvertFails(p) ==
  /\ pc = "convert" /\ p \in Due /\ Fault
  /\ \/ wav' = [wav EXCEPT ![p] = 0] /\ torn' = torn \ {p}
     \/ UNCHANGED <<wav, torn>>
  /\ End("failed")
  /\ UNCHANGED <<written, md, base, hasBase, mp3, newer>>

\* The run is killed while sox writes the WAV, which is then incomplete and newer
\* than its MP3.
KilledConverting(p) ==
  /\ pc = "convert" /\ p \in Due /\ Fault
  /\ wav' = [wav EXCEPT ![p] = mp3[p]]
  /\ newer' = newer \ {p} /\ torn' = torn \cup {p}
  /\ End("failed")
  /\ UNCHANGED <<written, md, base, hasBase, mp3>>

Converted ==
  /\ pc = "convert" /\ Due = {}
  /\ End("ok")
  /\ UNCHANGED <<written, files, faults>>

-----------------------------------------------------------------------------
\* The run is killed between its writes, or a check in between ends it.
Killed ==
  /\ pc # "idle" /\ Fault
  /\ End("failed")
  /\ UNCHANGED <<written, files>>

\* It is killed while it writes the baseline, the first, the same again or a new
\* one, and some of the texts are in the file by then.
KilledSaving ==
  /\ \/ pc = "idle" /\ md # None /\ ~hasBase
     \/ pc = "decide" /\ mode # "named" /\ Wanted = {}
     \/ pc = "synthesize" /\ todo = {} /\ failures = {}
  /\ Fault
  /\ \E kept \in SUBSET Prompts : base' = [p \in Prompts |-> IF p \in kept THEN md[p] ELSE 0]
  /\ hasBase' = TRUE
  /\ End("failed")
  /\ UNCHANGED <<written, md, mp3, wav, newer, torn>>

Regenerate ==
  \/ Decide \/ Nothing \/ GiveUp \/ Save \/ Converted
  \/ \E p \in Prompts : Generate(p) \/ Convert(p)

Next ==
  \/ Regenerate \/ Killed \/ KilledSaving \/ StartEmpty
  \/ \E force \in BOOLEAN : ByHand(force)
  \/ \E m \in {"default", "force"}, c \in BOOLEAN : Start(m, c)
  \/ \E p \in Prompts :
       Write(p) \/ Remove(p) \/ GenerateFails(p) \/ ConvertFails(p) \/ KilledConverting(p)

Spec == Init /\ [][Next]_vars

\* The maintainer runs the tool, and the conversion with --force, again and again.
FairSpec ==
  /\ Spec
  /\ WF_vars(Regenerate)
  /\ SF_vars(Start("default", TRUE)) /\ SF_vars(ByHand(TRUE))

\* Runs with --prompt.
NamedNext ==
  \/ \E c \in BOOLEAN : Start("named", c)
  \/ UnknownNamed \/ \E names \in SUBSET Prompts : DecideNamed(names)

NamedSpec    == Init /\ [][Next \/ NamedNext]_vars
CarelessSpec == Init /\ [][Next \/ \E p \in Prompts : Revert(p) \/ Race(p)]_vars

-----------------------------------------------------------------------------
(* Properties                                                              *)

BTypeOK ==
  /\ written \in [Prompts -> 1..MaxVersion]
  /\ md \in [Prompts -> Versions] /\ base \in [Prompts -> Versions]
  /\ mp3 \in [Prompts -> Versions] /\ wav \in [Prompts -> Versions]
  /\ newer \in SUBSET Prompts /\ torn \in SUBSET Prompts /\ hasBase \in BOOLEAN
  /\ pc \in {"idle", "decide", "synthesize", "convert"}
  /\ mode \in {"default", "force", "named", "hand", "all"} /\ convert \in BOOLEAN
  /\ current \in [Prompts -> Versions]
  /\ changed \subseteq Prompts /\ todo \subseteq changed
  /\ failures \subseteq changed \ todo
  /\ exit \in {"none", "ok", "failed"} /\ faults \in 0..MaxFaults

\* A text that the baseline knows to be voiced, is voiced: whatever fails, and
\* wherever a run is killed, nothing that differs is forgotten.
CurrentIsVoiced == \A p \in Prompts : base[p] = md[p] /\ md[p] # 0 => mp3[p] = md[p]

\* When a run without options ends well, each prompt says its text: "PROMPTS.md
\* is the source of truth for the spoken text of every prompt".
SuccessIsVoiced ==
  [][mode = "default" /\ pc # "idle" /\ exit' = "ok" =>
       \A p \in Prompts : md[p] # 0 => mp3'[p] = md[p]]_vars

\* A plain conversion finds every WAV that is not its MP3 from end to end: it is
\* missing or older.  The exception is a WAV that a kill cut short while sox wrote
\* it: its time says that it is done, and only --force or a new MP3 replaces it.
Whole(p) == wav[p] = mp3[p] /\ p \notin torn
MtimeTells == \A p \in Prompts : Whole(p) \/ p \in Stale \/ (p \in torn /\ wav[p] = mp3[p])

\* Each edit is heard in the end, from end to end, if the maintainer is persistent
\* and converts with --force: a run that has failed or was killed is made up for.
EditsArePublished == <>[](\A p \in Prompts : md[p] # 0 => wav[p] = md[p] /\ p \notin torn)
=============================================================================
