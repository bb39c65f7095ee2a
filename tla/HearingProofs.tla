---------------------------- MODULE HearingProofs ----------------------------
(* The promises of Hearing for any logs and any chain. *)
EXTENDS Hearing, TLAPS

\* The saved block is not ahead of the current one.
SavedBehind == saved # NoBlock /\ current # NoBlock => saved <= current

HearingInv ==
  /\ HearingTypeOK /\ NothingSkipped /\ SavedBehind
  /\ current # NoBlock => base # NoBlock

\* Nothing is heard of, and nothing saved, before the first load.
LEMMA HearingInitInv == HearingInit => HearingInv
BY HearingAssumption DEF HearingInit, HearingInv, HearingTypeOK, NothingSkipped, SavedBehind

\* A block that is not nil is a number.
LEMMA HearingTypes ==
  ASSUME HearingTypeOK
  PROVE  /\ saved # NoBlock => saved \in Nat
         /\ current # NoBlock => current \in Nat
BY HearingAssumption DEF HearingTypeOK

\* Each step of a listener keeps the invariant.
LEMMA HearingNextInv == HearingInv /\ [HearingNext]_hearingVars => HearingInv'
<1> SUFFICES ASSUME HearingInv, [HearingNext]_hearingVars
             PROVE  HearingInv'
  OBVIOUS
<1> USE HearingAssumption
<1>1. ASSUME NEW b \in Blocks, Load(b)
      PROVE  HearingInv'
  BY <1>1 DEF Load, HearingInv, HearingTypeOK, NothingSkipped, SavedBehind
<1>2. ASSUME NEW b \in Blocks, Advance(b)
      PROVE  HearingInv'
  <2>1. HearingTypeOK' /\ (current # NoBlock => base # NoBlock)'
    BY <1>2 DEF Advance, HearingInv, HearingTypeOK
  <2>2. NothingSkipped'
    BY <1>2 DEF Advance, HearingInv, HearingTypeOK, NothingSkipped
  <2>3. SavedBehind'
    <3>1. current \in Nat /\ b \in Nat /\ (saved = NoBlock \/ saved \in Nat)
      BY <1>2 DEF Advance, HearingInv, HearingTypeOK
    <3>2. CASE saved' = saved
      BY <1>2, <3>1, <3>2 DEF Advance, HearingInv, SavedBehind
    <3>3. CASE saved' = b
      BY <1>2, <3>1, <3>3 DEF Advance, SavedBehind
    <3> QED BY <1>2, <3>2, <3>3 DEF Advance
  <2> QED BY <2>1, <2>2, <2>3 DEF HearingInv
<1>3. ASSUME NEW l \in HeardLogs, Hear(l)
      PROVE  HearingInv'
  BY <1>3 DEF Hear, HearingInv, HearingTypeOK, NothingSkipped, SavedBehind
<1>4. CASE Save
  <2>1. HearingTypeOK' /\ (current # NoBlock => base # NoBlock)'
    BY <1>4 DEF Save, HearingInv, HearingTypeOK
  <2>2. NothingSkipped'
    BY <1>4 DEF Save, HearingInv, NothingSkipped
  <2>3. SavedBehind'
    <3>1. saved' = current /\ current' = current /\ current \in Nat
      BY <1>4 DEF Save, HearingInv, HearingTypeOK
    <3> QED BY <3>1 DEF SavedBehind
  <2> QED BY <2>1, <2>2, <2>3 DEF HearingInv
<1>5. CASE Restart
  BY <1>5 DEF Restart, HearingInv, HearingTypeOK, NothingSkipped, SavedBehind
<1>6. CASE UNCHANGED hearingVars
  BY <1>6 DEF hearingVars, HearingInv, HearingTypeOK, NothingSkipped, SavedBehind
<1> QED BY <1>1, <1>2, <1>3, <1>4, <1>5, <1>6 DEF HearingNext

\* What a listener that implements Hearing can rely on.
LEMMA HearingInvariance == HearingSpec => []HearingInv
BY HearingInitInv, HearingNextInv, PTL DEF HearingSpec

\* A step never takes the saved block back: an Advance or a Save writes at least
\* the current block, which is not below it (controller.go:490, 325).
THEOREM HearingNeverRegresses == HearingSpec => SavedNeverRegresses
<1> USE HearingAssumption
<1>1. ASSUME HearingInv, [HearingNext]_hearingVars, saved' # saved, saved # NoBlock
      PROVE  saved' # NoBlock /\ saved' >= saved
  <2>1. PICK b \in Blocks : Advance(b) \/ (Save /\ b = current)
    BY <1>1 DEF HearingInv, HearingTypeOK, HearingNext, hearingVars,
                Load, Hear, Save, Restart
  <2>2. current \in Nat /\ b \in Nat /\ saved \in Nat
    BY <1>1, <2>1, HearingTypes DEF HearingInv, Advance, Save
  <2>3. saved <= current
    BY <1>1, <2>1, HearingTypes DEF HearingInv, SavedBehind, Advance, Save
  <2>4. saved' = b /\ b >= current
    BY <1>1, <2>1, <2>2 DEF Advance, Save
  <2> QED BY <2>2, <2>3, <2>4, HearingAssumption
<1>2. HearingInv /\ [HearingNext]_hearingVars
        => [saved # NoBlock => saved' # NoBlock /\ saved' >= saved]_hearingVars
  <2> SUFFICES ASSUME HearingInv, [HearingNext]_hearingVars, saved # NoBlock
               PROVE  saved' # NoBlock /\ saved' >= saved
    OBVIOUS
  <2>1. CASE saved' = saved
    BY <2>1, HearingTypes DEF HearingInv
  <2> QED BY <1>1, <2>1
<1> QED BY <1>2, HearingInvariance, PTL DEF HearingSpec, SavedNeverRegresses
=============================================================================
