------------------------- MODULE PromptBaselineProofs -------------------------
(***************************************************************************)
(* Theorems about PromptBaseline: what the baseline calls current has been *)
(* voiced, a run without options that ends well leaves every prompt        *)
(* voiced, no conversion is forgotten but one that a kill cut short in the *)
(* middle of a WAV, and --force makes up for that one.                     *)
(***************************************************************************)
EXTENDS PromptBaseline, TLAPS

\* Texts that are in use have been written.
OldInv == \A p \in Prompts : md[p] <= written[p] /\ base[p] <= written[p]

\* Before there is a baseline nothing has been edited or generated.
FirstInv == ~hasBase => mp3 = md /\ pc \in {"idle", "convert"}

\* What a run knows: the file as it is, and what it has not voiced so far.
RunInv ==
  /\ pc # "idle" => exit = "none"
  /\ pc # "synthesize" => failures = {}
  /\ pc \in {"decide", "synthesize"} => current = md /\ mode \in {"default", "force"}
  /\ pc = "synthesize" =>
       /\ changed \subseteq Parsed
       /\ \A p \in Prompts : md[p] # 0 /\ base[p] # md[p] => p \in changed
       /\ \A p \in changed : p \in todo \cup failures \/ mp3[p] = md[p]
  /\ pc = "convert" /\ mode \notin {"hand", "all"} => base = md

AllVoiced == \A p \in Prompts : mp3[p] # 0

\* The inductive invariant: no MP3 is ever missing, since a checkout has them all.
BInv == BTypeOK /\ OldInv /\ FirstInv /\ RunInv /\ AllVoiced /\ CurrentIsVoiced

\* The checkout is as the invariant wants it.
LEMMA InitBInv == Init => BInv
<1> SUFFICES ASSUME Init PROVE BInv
  OBVIOUS
<1>1. 1 \in 1..MaxVersion /\ 0 \in Versions /\ 1 \in Versions /\ 0 \in 0..MaxFaults
  BY BaselineBounds DEF Versions
<1>2. \A p \in Prompts : /\ written[p] = 1 /\ md[p] = 1 /\ base[p] = 0
                         /\ mp3[p] = 1 /\ wav[p] = 1
  BY DEF Init, None
<1>3. /\ written \in [Prompts -> 1..MaxVersion]
      /\ md \in [Prompts -> Versions] /\ base \in [Prompts -> Versions]
      /\ mp3 \in [Prompts -> Versions] /\ wav \in [Prompts -> Versions]
      /\ current \in [Prompts -> Versions]
  BY <1>1 DEF Init, None
<1>4. BTypeOK
  BY <1>1, <1>3 DEF Init, BTypeOK
<1>5. OldInv /\ AllVoiced /\ CurrentIsVoiced
  BY <1>2 DEF OldInv, AllVoiced, CurrentIsVoiced
<1>6. FirstInv /\ RunInv
  BY DEF Init, FirstInv, RunInv
<1>7. QED BY <1>4, <1>5, <1>6 DEF BInv

\* A new text has a number of its own: it is neither voiced nor in the baseline.
LEMMA EditKeepsBInv ==
  ASSUME BInv, NEW p \in Prompts, Write(p) \/ Remove(p)
  PROVE  BInv'
<1> USE DEF Write, WriteText, Remove, Edit, run
<1>1. BTypeOK'
  BY BaselineBounds DEF BInv, BTypeOK, OldInv, Versions, None
<1>2. OldInv'
  BY BaselineBounds DEF BInv, BTypeOK, OldInv, Versions
<1>3. FirstInv'
  BY DEF BInv, FirstInv
<1>4. RunInv'
  BY DEF BInv, BTypeOK, RunInv, FirstInv, Parsed
<1>5. AllVoiced'
  BY DEF BInv, BTypeOK, AllVoiced, RunInv, Parsed
<1>6. CurrentIsVoiced'
  BY DEF BInv, BTypeOK, OldInv, CurrentIsVoiced, RunInv, FirstInv, Versions
<1>7. QED BY <1>1, <1>2, <1>3, <1>4, <1>5, <1>6 DEF BInv

\* The first run creates the baseline from texts that are voiced.
LEMMA StartKeepsBInv ==
  ASSUME BInv, NEW m \in {"default", "force"}, NEW c \in BOOLEAN, Start(m, c) \/ StartEmpty
  PROVE  BInv'
<1> USE DEF Start, StartEmpty, run, files
<1>1. BTypeOK'
  BY BaselineBounds DEF BInv, BTypeOK, OldInv, Versions, None
<1>2. OldInv'
  BY BaselineBounds DEF BInv, BTypeOK, OldInv, Versions
<1>3. FirstInv'
  BY DEF BInv, FirstInv
<1>4. RunInv'
  BY DEF BInv, BTypeOK, RunInv, FirstInv, Parsed
<1>5. AllVoiced'
  BY DEF BInv, BTypeOK, AllVoiced, RunInv, Parsed
<1>6. CurrentIsVoiced'
  BY DEF BInv, BTypeOK, OldInv, CurrentIsVoiced, RunInv, FirstInv, Versions
<1>7. QED BY <1>1, <1>2, <1>3, <1>4, <1>5, <1>6 DEF BInv

\* What differs from the baseline is among what is regenerated.
LEMMA DecideKeepsBInv ==
  ASSUME BInv, Decide
  PROVE  BInv'
<1> USE DEF Decide, Regenerates, files
<1>1. BTypeOK'
  BY BaselineBounds DEF BInv, BTypeOK, OldInv, Versions, None, RunInv, Wanted, Diff, Parsed
<1>2. OldInv'
  BY BaselineBounds DEF BInv, BTypeOK, OldInv, Versions
<1>3. FirstInv'
  BY DEF BInv, FirstInv
<1>4. RunInv'
  BY DEF BInv, BTypeOK, RunInv, FirstInv, Parsed, Wanted, Diff
<1>5. AllVoiced'
  BY DEF BInv, BTypeOK, AllVoiced, RunInv, Parsed
<1>6. CurrentIsVoiced'
  BY DEF BInv, BTypeOK, OldInv, CurrentIsVoiced, RunInv, FirstInv, Versions, Wanted, Diff, Parsed
<1>7. QED BY <1>1, <1>2, <1>3, <1>4, <1>5, <1>6 DEF BInv

\* Nothing differs from the baseline: the copy changes no text that is in use.
LEMMA NothingKeepsBInv ==
  ASSUME BInv, Nothing
  PROVE  BInv'
<1> USE DEF Nothing, End
<1>1. BTypeOK'
  BY BaselineBounds DEF BInv, BTypeOK, OldInv, Versions, None, RunInv, Wanted, Diff, Parsed
<1>2. OldInv'
  BY BaselineBounds DEF BInv, BTypeOK, OldInv, Versions
<1>3. FirstInv'
  BY DEF BInv, FirstInv
<1>4. RunInv'
  BY DEF BInv, BTypeOK, RunInv, FirstInv, Parsed, Wanted, Diff
<1>5. AllVoiced'
  BY DEF BInv, BTypeOK, AllVoiced, RunInv, Parsed
<1>6. CurrentIsVoiced'
  BY DEF BInv, BTypeOK, OldInv, CurrentIsVoiced, RunInv, FirstInv, Versions, Wanted, Diff, Parsed
<1>7. QED BY <1>1, <1>2, <1>3, <1>4, <1>5, <1>6 DEF BInv

\* A prompt is voiced.
LEMMA GenerateKeepsBInv ==
  ASSUME BInv, NEW p \in Prompts, Generate(p)
  PROVE  BInv'
<1> USE DEF Generate
<1>1. BTypeOK'
  BY BaselineBounds DEF BInv, BTypeOK, OldInv, Versions, None
<1>2. OldInv'
  BY BaselineBounds DEF BInv, BTypeOK, OldInv, Versions
<1>3. FirstInv'
  BY DEF BInv, FirstInv
<1>4. RunInv'
  BY DEF BInv, BTypeOK, RunInv, FirstInv, Parsed
<1>5. AllVoiced'
  BY DEF BInv, BTypeOK, AllVoiced, RunInv, Parsed
<1>6. CurrentIsVoiced'
  BY DEF BInv, BTypeOK, OldInv, CurrentIsVoiced, RunInv, FirstInv, Versions
<1>7. QED BY <1>1, <1>2, <1>3, <1>4, <1>5, <1>6 DEF BInv

\* A failure is noted.
LEMMA GenerateFailsKeepsBInv ==
  ASSUME BInv, NEW p \in Prompts, GenerateFails(p)
  PROVE  BInv'
<1> USE DEF GenerateFails, files, Fault
<1>1. BTypeOK'
  BY BaselineBounds DEF BInv, BTypeOK, OldInv, Versions, None
<1>2. OldInv'
  BY BaselineBounds DEF BInv, BTypeOK, OldInv, Versions
<1>3. FirstInv'
  BY DEF BInv, FirstInv
<1>4. RunInv'
  BY DEF BInv, BTypeOK, RunInv, FirstInv, Parsed
<1>5. AllVoiced'
  BY DEF BInv, BTypeOK, AllVoiced, RunInv, Parsed
<1>6. CurrentIsVoiced'
  BY DEF BInv, BTypeOK, OldInv, CurrentIsVoiced, RunInv, FirstInv, Versions
<1>7. QED BY <1>1, <1>2, <1>3, <1>4, <1>5, <1>6 DEF BInv

\* All that differed is voiced when the baseline is written.
LEMMA SaveKeepsBInv ==
  ASSUME BInv, Save
  PROVE  BInv'
<1> USE DEF Save, Convertible, End, run
<1>1. BTypeOK'
  BY BaselineBounds DEF BInv, BTypeOK, OldInv, Versions, None
<1>2. OldInv'
  BY BaselineBounds DEF BInv, BTypeOK, OldInv, Versions
<1>3. FirstInv'
  BY DEF BInv, FirstInv
<1>4. RunInv'
  BY DEF BInv, BTypeOK, RunInv, FirstInv, Parsed
<1>5. AllVoiced'
  BY DEF BInv, BTypeOK, AllVoiced, RunInv, Parsed
<1>6. CurrentIsVoiced'
  BY DEF BInv, BTypeOK, OldInv, CurrentIsVoiced, RunInv, FirstInv, Versions
<1>7. QED BY <1>1, <1>2, <1>3, <1>4, <1>5, <1>6 DEF BInv

\* The run ends and leaves the files alone.
LEMMA EndKeepsBInv ==
  ASSUME BInv, GiveUp \/ Killed \/ Converted
  PROVE  BInv'
<1> USE DEF GiveUp, Killed, Converted, End, files, Fault
<1>1. BTypeOK'
  BY BaselineBounds DEF BInv, BTypeOK, OldInv, Versions, None
<1>2. OldInv'
  BY BaselineBounds DEF BInv, BTypeOK, OldInv, Versions
<1>3. FirstInv'
  BY DEF BInv, FirstInv
<1>4. RunInv'
  BY DEF BInv, BTypeOK, RunInv, FirstInv, Parsed
<1>5. AllVoiced'
  BY DEF BInv, BTypeOK, AllVoiced, RunInv, Parsed
<1>6. CurrentIsVoiced'
  BY DEF BInv, BTypeOK, OldInv, CurrentIsVoiced, RunInv, FirstInv, Versions
<1>7. QED BY <1>1, <1>2, <1>3, <1>4, <1>5, <1>6 DEF BInv

\* A baseline that is cut short knows fewer texts, the first one too.
LEMMA KilledSavingKeepsBInv ==
  ASSUME BInv, KilledSaving
  PROVE  BInv'
<1> USE DEF KilledSaving, End, Fault
<1>1. BTypeOK'
  BY BaselineBounds DEF BInv, BTypeOK, OldInv, Versions, None
<1>2. OldInv'
  BY BaselineBounds DEF BInv, BTypeOK, OldInv, Versions
<1>3. FirstInv'
  BY DEF BInv, FirstInv
<1>4. RunInv'
  BY DEF BInv, BTypeOK, RunInv, FirstInv, Parsed
<1>5. AllVoiced'
  BY DEF BInv, BTypeOK, AllVoiced, RunInv, Parsed
<1>6. CurrentIsVoiced'
  <2> SUFFICES ASSUME NEW p \in Prompts, md[p] # 0 PROVE mp3[p] = md[p]
    BY DEF CurrentIsVoiced
  <2>1. CASE pc = "idle" /\ ~hasBase
    BY <2>1 DEF BInv, FirstInv
  <2>2. CASE pc = "decide" /\ mode # "named" /\ Wanted = {}
    BY <2>2 DEF BInv, RunInv, CurrentIsVoiced, Wanted, Diff, Parsed
  <2>3. CASE pc = "synthesize" /\ todo = {} /\ failures = {}
    BY <2>3 DEF BInv, RunInv, CurrentIsVoiced
  <2>4. QED BY <2>1, <2>2, <2>3
<1>7. QED BY <1>1, <1>2, <1>3, <1>4, <1>5, <1>6 DEF BInv

\* A conversion by hand begins.
LEMMA ByHandKeepsBInv ==
  ASSUME BInv, NEW force \in BOOLEAN, ByHand(force)
  PROVE  BInv'
<1> USE DEF ByHand, files
<1>1. BTypeOK'
  <2>1. /\ changed' \subseteq Prompts /\ todo' = changed'
        /\ failures' = {} /\ mode' \in {"hand", "all"}
    BY DEF BInv, RunInv
  <2>2. QED BY <2>1 DEF BInv, BTypeOK
<1>2. OldInv'
  BY BaselineBounds DEF BInv, BTypeOK, OldInv, Versions
<1>3. FirstInv'
  BY DEF BInv, FirstInv
<1>4. RunInv'
  BY DEF BInv, BTypeOK, RunInv, FirstInv, Parsed
<1>5. AllVoiced'
  BY DEF BInv, BTypeOK, AllVoiced, RunInv, Parsed
<1>6. CurrentIsVoiced'
  BY DEF BInv, BTypeOK, OldInv, CurrentIsVoiced, RunInv, FirstInv, Versions
<1>7. QED BY <1>1, <1>2, <1>3, <1>4, <1>5, <1>6 DEF BInv

\* A conversion does not touch texts, baseline or MP3s.
LEMMA ConvertKeepsBInv ==
  ASSUME BInv, NEW p \in Prompts, Convert(p) \/ ConvertFails(p) \/ KilledConverting(p)
  PROVE  BInv'
<1> USE DEF Convert, ConvertFails, KilledConverting, End, Fault
<1>1. BTypeOK'
  BY BaselineBounds DEF BInv, BTypeOK, OldInv, Versions, None
<1>2. OldInv'
  BY BaselineBounds DEF BInv, BTypeOK, OldInv, Versions
<1>3. FirstInv'
  BY DEF BInv, FirstInv
<1>4. RunInv'
  BY DEF BInv, BTypeOK, RunInv, FirstInv, Parsed
<1>5. AllVoiced'
  BY DEF BInv, BTypeOK, AllVoiced, RunInv, Parsed
<1>6. CurrentIsVoiced'
  BY DEF BInv, BTypeOK, OldInv, CurrentIsVoiced, RunInv, FirstInv, Versions
<1>7. QED BY <1>1, <1>2, <1>3, <1>4, <1>5, <1>6 DEF BInv

\* Every step keeps the invariant.
LEMMA NextKeepsBInv == BInv /\ [Next]_vars => BInv'
<1> SUFFICES ASSUME BInv, [Next]_vars PROVE BInv'
  OBVIOUS
<1>1. CASE Decide \/ Nothing \/ Save \/ GiveUp \/ Converted
  BY <1>1, DecideKeepsBInv, NothingKeepsBInv, SaveKeepsBInv, EndKeepsBInv
<1>2. CASE \E p \in Prompts : Generate(p) \/ Convert(p)
  BY <1>2, GenerateKeepsBInv, ConvertKeepsBInv
<1>3. CASE Killed \/ KilledSaving \/ \E force \in BOOLEAN : ByHand(force)
  BY <1>3, EndKeepsBInv, KilledSavingKeepsBInv, ByHandKeepsBInv
<1>4. CASE StartEmpty \/ \E m \in {"default", "force"}, c \in BOOLEAN : Start(m, c)
  BY <1>4, StartKeepsBInv
<1>5. CASE \E p \in Prompts :
             Write(p) \/ Remove(p) \/ GenerateFails(p) \/ ConvertFails(p) \/ KilledConverting(p)
  BY <1>5, EditKeepsBInv, GenerateFailsKeepsBInv, ConvertKeepsBInv
<1>6. CASE UNCHANGED vars
  BY <1>6 DEF vars, files, run, BInv, BTypeOK, OldInv, FirstInv, RunInv, AllVoiced,
              CurrentIsVoiced, Parsed
<1>7. QED BY <1>1, <1>2, <1>3, <1>4, <1>5, <1>6 DEF Next, Regenerate

\* The invariant holds in every run of the tools.
LEMMA BInvHolds == Spec => []BInv
BY InitBInv, NextKeepsBInv, PTL DEF Spec

\* The variables have their types.
THEOREM BaselineTyped == Spec => []BTypeOK
<1>1. BInv => BTypeOK
  BY DEF BInv
<1>2. QED BY <1>1, BInvHolds, PTL

\* A text the baseline knows to be voiced is voiced, wherever a run failed or
\* was killed (regenerate and the baseline of main).
THEOREM VoicedIsVoiced == Spec => []CurrentIsVoiced
<1>1. BInv => CurrentIsVoiced
  BY DEF BInv
<1>2. QED BY <1>1, BInvHolds, PTL

\* A run without options that ends well leaves each prompt with its text: the
\* three places where it may end well, one by one.
THEOREM RunVoices == Spec => SuccessIsVoiced
<1> DEFINE Success == mode = "default" /\ pc # "idle" /\ exit' = "ok"
           Says    == \A p \in Prompts : md[p] # 0 => mp3'[p] = md[p]
<1>1. ASSUME BInv, Next, Success PROVE Says
  <2>1. exit = "none"
    BY <1>1 DEF BInv, RunInv
  <2>2. Nothing \/ Save \/ Converted
    BY <1>1, <2>1 DEF Next, Regenerate, Decide, Regenerates, GiveUp, Generate, Convert, Killed,
       KilledSaving, ByHand, StartEmpty, Start, Write, Remove, GenerateFails, ConvertFails,
       KilledConverting, End
  <2>3. CASE Nothing
    BY <1>1, <2>3 DEF BInv, RunInv, CurrentIsVoiced, Nothing, Wanted, Diff, Parsed
  <2>4. CASE Save
    BY <1>1, <2>4 DEF BInv, BTypeOK, RunInv, CurrentIsVoiced, Save
  <2>5. CASE Converted
    BY <1>1, <2>5 DEF BInv, RunInv, CurrentIsVoiced, Converted, files
  <2>6. QED BY <2>2, <2>3, <2>4, <2>5
<1>2. ASSUME UNCHANGED vars, BInv, Success PROVE FALSE
  BY <1>2 DEF vars, BInv, RunInv
<1>3. BInv /\ [Next]_vars => [Success => Says]_vars
  BY <1>1, <1>2
<1>4. QED BY <1>3, BInvHolds, PTL DEF Spec, SuccessIsVoiced

-----------------------------------------------------------------------------
(* The WAVs                                                                *)

\* What a conversion with --force has not come to yet is left to do.
ForceInv ==
  pc = "convert" /\ mode = "all" => \A p \in Prompts : mp3[p] # 0 => p \in todo \/ Whole(p)

\* A WAV that is converted is whole, also one that was not.
LEMMA ConvertMakesWhole ==
  ASSUME BTypeOK, NEW p \in Prompts, Convert(p)
  PROVE  /\ Whole(p)' /\ mp3' = mp3 /\ todo' = todo \ {p} /\ mode' = mode /\ pc' = pc
         /\ \A q \in Prompts \ {p} :
              /\ wav'[q] = wav[q] /\ (q \in torn' <=> q \in torn) /\ (q \in newer' <=> q \in newer)
BY DEF Convert, Whole, BTypeOK

\* The steps that concern neither MP3s nor WAVs.
Elsewhere ==
  \/ Decide \/ Nothing \/ GiveUp \/ Save \/ Converted \/ Killed \/ KilledSaving \/ StartEmpty
  \/ \E m \in {"default", "force"}, c \in BOOLEAN : Start(m, c)
  \/ \E force \in BOOLEAN : ByHand(force)
  \/ \E p \in Prompts : Write(p) \/ Remove(p) \/ GenerateFails(p)
  \/ UNCHANGED vars

LEMMA ElsewhereKeeps == Elsewhere => UNCHANGED <<mp3, wav, newer, torn>>
BY DEF Elsewhere, Decide, Regenerates, Nothing, GiveUp, Save, Converted, Killed, KilledSaving,
   StartEmpty, Start, ByHand, Write, WriteText, Remove, Edit, GenerateFails, files, vars

\* Every step is one of those, or one of the four that write an MP3 or a WAV.
LEMMA StepsOfFiles ==
  [Next]_vars =>
    \/ Elsewhere
    \/ \E p \in Prompts : Generate(p) \/ Convert(p) \/ ConvertFails(p) \/ KilledConverting(p)
BY DEF Next, Regenerate, Elsewhere

\* No conversion is forgotten: the next one, by hand or in a run that converts,
\* finds each WAV that is not its MP3 from end to end, but for one that a kill cut
\* short while sox wrote it (bella-convert-prompts).
THEOREM ConversionsAreFound == Spec => []MtimeTells
<1> DEFINE Good == BInv /\ MtimeTells
<1>1. Init => MtimeTells
  BY DEF Init, MtimeTells, Whole
<1>2. Good /\ BInv' /\ [Next]_vars => MtimeTells'
  <2> SUFFICES ASSUME Good, BInv', [Next]_vars PROVE MtimeTells'
    OBVIOUS
  <2>1. AllVoiced' /\ BTypeOK
    BY DEF BInv
  <2>2. CASE \E p \in Prompts : Generate(p)
    BY <2>1, <2>2 DEF Generate, MtimeTells, Whole, Stale, AllVoiced, BTypeOK
  <2>3. CASE \E p \in Prompts : Convert(p)
    <3>1. PICK p \in Prompts : Convert(p)
      BY <2>3
    <3>2. QED BY <2>1, <3>1, ConvertMakesWhole DEF MtimeTells, Whole, Stale
  <2>4. CASE \E p \in Prompts : ConvertFails(p)
    BY <2>1, <2>4 DEF ConvertFails, MtimeTells, Whole, Stale, AllVoiced, BTypeOK
  <2>5. CASE \E p \in Prompts : KilledConverting(p)
    BY <2>1, <2>5 DEF KilledConverting, MtimeTells, Whole, Stale, AllVoiced, BTypeOK
  <2>6. CASE Elsewhere
    BY <2>6, ElsewhereKeeps DEF MtimeTells, Whole, Stale
  <2>7. QED BY <2>2, <2>3, <2>4, <2>5, <2>6, StepsOfFiles
<1>3. QED BY <1>1, <1>2, BInvHolds, PTL DEF Spec

\* A conversion with --force that ends well leaves every WAV whole, whatever runs
\* were killed before it, and in the middle of what: "Pass --force to regenerate
\* every WAV" (bella-convert-prompts).
ForceMends ==
  [][mode = "all" /\ pc = "convert" /\ exit' = "ok" =>
       \A p \in Prompts : mp3[p] # 0 => Whole(p)']_vars

THEOREM ForceIsEnough == Spec => ForceMends
<1> DEFINE Ends == mode = "all" /\ pc = "convert" /\ exit' = "ok"
           Mended == \A p \in Prompts : mp3[p] # 0 => Whole(p)'
<1>1. Init => ForceInv
  BY DEF Init, ForceInv
<1>2. ForceInv /\ BInv /\ [Next]_vars => ForceInv'
  <2> SUFFICES ASSUME ForceInv, BInv, [Next]_vars, pc' = "convert", mode' = "all"
               PROVE  ForceInv'
    BY DEF ForceInv
  <2>1. BTypeOK
    BY DEF BInv
  <2>2. CASE \E p \in Prompts : Generate(p) \/ ConvertFails(p) \/ KilledConverting(p)
    BY <2>2 DEF Generate, ConvertFails, KilledConverting, End
  <2>3. CASE \E p \in Prompts : Convert(p)
    <3>1. PICK p \in Prompts : Convert(p)
      BY <2>3
    <3>2. QED BY <2>1, <3>1, ConvertMakesWhole DEF ForceInv, Whole, Convert
  <2>4. CASE \E force \in BOOLEAN : ByHand(force)
    BY <2>4 DEF ByHand, ForceInv, files
  <2>5. CASE Elsewhere /\ ~\E force \in BOOLEAN : ByHand(force)
    <3>1. pc = "convert" /\ mode = "all" /\ todo' = todo
      BY <2>5 DEF BInv, RunInv, Elsewhere, Decide, Regenerates, Nothing, GiveUp, Save, Convertible,
         Converted, Killed, KilledSaving, StartEmpty, Start, Write, WriteText, Remove, Edit,
         GenerateFails, End, run, vars
    <3>2. QED BY <2>5, <3>1, ElsewhereKeeps DEF ForceInv, Whole
  <2>6. QED BY <2>2, <2>3, <2>4, <2>5, StepsOfFiles
<1>3. ForceInv /\ BInv /\ [Next]_vars => [Ends => Mended]_vars
  <2> SUFFICES ASSUME ForceInv, BInv, Next, Ends PROVE Mended
    BY DEF vars, BInv, RunInv
  <2>1. Converted
    BY DEF BInv, RunInv, Next, Regenerate, Decide, Regenerates, Nothing, GiveUp, Save, Generate,
       Convert, Killed, KilledSaving, ByHand, StartEmpty, Start, Write, WriteText, Remove, Edit,
       GenerateFails, ConvertFails, KilledConverting, End
  <2>2. todo = {} /\ UNCHANGED <<mp3, wav, torn>>
    BY <2>1 DEF Converted, Due, files
  <2>3. QED BY <2>2 DEF ForceInv, Whole
<1>4. QED BY <1>1, <1>2, <1>3, BInvHolds, PTL DEF Spec, ForceMends
=============================================================================
