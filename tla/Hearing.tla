------------------------------ MODULE Hearing ------------------------------
(***************************************************************************)
(* What a listener promises of the logs its subscriptions ask for, without *)
(* rounds, batches, retries and transactions: it loads the block to start  *)
(* from, never one below the saved block, hears each log from there on,    *)
(* and moves and saves its block only past what it has heard.  A restart   *)
(* leaves the saved block alone.                                           *)
(***************************************************************************)
EXTENDS Naturals

CONSTANTS
  HeardLogs,  \* the logs that the subscriptions ask for
  Height,     \* their blocks
  Blocks,     \* the heights of the chain
  NoBlock     \* a nil Block, and no row in processed_block

ASSUME HearingAssumption ==
  Height \in [HeardLogs -> Nat] /\ Blocks \subseteq Nat /\ NoBlock \notin Nat

VARIABLES
  saved,      \* the row of processed_block
  current,    \* the listener's block
  base,       \* the block this process has started from
  heard       \* the logs this process has enqueued jobs for

hearingVars == <<saved, current, base, heard>>

HearingTypeOK ==
  /\ {saved, current, base} \subseteq Blocks \cup {NoBlock}
  /\ heard \subseteq HeardLogs

HearingInit ==
  /\ saved = NoBlock /\ current = NoBlock /\ base = NoBlock
  /\ heard = {}

Load(b) ==
  /\ current = NoBlock /\ (saved # NoBlock => b >= saved)
  /\ current' = b /\ base' = b
  /\ UNCHANGED <<saved, heard>>

Hear(l) ==
  /\ current # NoBlock /\ base <= Height[l]
  /\ heard' = heard \cup {l}
  /\ UNCHANGED <<saved, current, base>>

Advance(b) ==
  /\ current # NoBlock /\ b >= current
  /\ \A l \in HeardLogs : base <= Height[l] /\ Height[l] < b => l \in heard
  /\ current' = b /\ saved' \in {saved, b}
  /\ UNCHANGED <<base, heard>>

Save ==
  /\ current # NoBlock /\ saved' = current
  /\ UNCHANGED <<current, base, heard>>

Restart ==
  /\ current' = NoBlock /\ base' = NoBlock /\ heard' = {}
  /\ UNCHANGED saved

HearingNext ==
  \/ \E b \in Blocks : Load(b) \/ Advance(b)
  \/ \E l \in HeardLogs : Hear(l)
  \/ Save \/ Restart

HearingSpec == HearingInit /\ [][HearingNext]_hearingVars
-----------------------------------------------------------------------------
(* Properties *)

\* Whatever was heard and saved, no log from the first block on is below the
\* current block and not heard (controller.go:482-490).
NothingSkipped ==
  current # NoBlock =>
    \A l \in HeardLogs : base <= Height[l] /\ Height[l] < current => l \in heard

\* The saved block never goes back, and is never ahead of the current one.
SavedNeverRegresses ==
  [][saved # NoBlock => saved' # NoBlock /\ saved' >= saved]_hearingVars
=============================================================================
