-------------------------------- MODULE Dealer --------------------------------
(***************************************************************************)
(* What `bella-messages pick` promises for one family of prompts: "every   *)
(* variant is played once, in a random order, before any repeats", and     *)
(* none that it remembers to have dealt last.  A full tmpfs may cost it    *)
(* the round and that memory; where its directory or the programs it needs *)
(* fail it, a pick is a random draw.                                       *)
(***************************************************************************)
EXTENDS FiniteSets

CONSTANTS Calls, Variants, Nothing

VARIABLES
  files,    \* the variants that are installed
  host,     \* "ok", its directory "full" or "unusable", or "bare" of programs
  listing,  \* per call: the variants it found
  left,     \* the variants still to come in this round
  last,     \* the variant it remembers to have dealt last, or Nothing
  told      \* per call: what its pick printed last, or Nothing

vars == <<files, host, listing, left, last, told>>

Init ==
  /\ files \in SUBSET Variants /\ host = "ok"
  /\ listing = [c \in Calls |-> {}]
  /\ left = {} /\ last = Nothing
  /\ told = [c \in Calls |-> Nothing]

Install == files' \in SUBSET Variants /\ UNCHANGED <<host, listing, left, last, told>>

Disturb ==
  /\ host' \in {"ok", "full", "unusable", "bare"}
  /\ UNCHANGED <<files, listing, left, last, told>>

List(c) ==
  /\ listing' = [listing EXCEPT ![c] = files]
  /\ told' = [told EXCEPT ![c] = Nothing]
  /\ UNCHANGED <<files, host, left, last>>

\* The round goes on, or a new one starts with another variant than the last.
Deal(c, v) ==
  /\ \E rest \in SUBSET Variants :
       /\ \/ v \in left \cap listing[c] /\ rest = (left \cap listing[c]) \ {v}
          \/ left \cap listing[c] = {} /\ v \in listing[c] \ {last} /\ rest = listing[c] \ {v}
       /\ left' = IF host = "full" THEN {} ELSE rest
  /\ last' = v
  /\ told' = [told EXCEPT ![c] = v] /\ listing' = [listing EXCEPT ![c] = {}]
  /\ UNCHANGED <<files, host>>

\* The only variant there is, or a random one: no round is kept.
Draw(c, v) ==
  /\ v \in listing[c]
  /\ listing[c] = {v} \/ host # "ok"
  /\ told' = [told EXCEPT ![c] = v] /\ listing' = [listing EXCEPT ![c] = {}]
  /\ UNCHANGED <<files, host, left, last>>

Forget  == host = "full" /\ last' = Nothing /\ UNCHANGED <<files, host, listing, left, told>>
Restart ==
  /\ left' = {} /\ last' = Nothing
  /\ told' = [c \in Calls |-> Nothing] /\ listing' = [c \in Calls |-> {}]
  /\ host' \in {"ok", "full", "unusable", "bare"}
  /\ UNCHANGED <<files>>

Next ==
  \/ Install \/ Disturb \/ Forget \/ Restart
  \/ \E c \in Calls : List(c) \/ \E v \in Variants : Deal(c, v) \/ Draw(c, v)

Spec == Init /\ [][Next]_vars
=============================================================================
