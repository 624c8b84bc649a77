---------------------------- MODULE ReliableSet ----------------------------
(***************************************************************************)
(* What ReliablePacketBuffer promises: a set of sequence numbers on the    *)
(* circle, all in the half circle that starts at base, of which the one    *)
(* nearest to base can be asked for.                                       *)
(***************************************************************************)
EXTENDS MtpSeqnum

CONSTANT NoSeqnum

VARIABLES held, base, first

setVars == <<held, base, first>>

Nearest(s, b) ==
  IF s = {} THEN NoSeqnum
  ELSE CHOOSE x \in s : \A y \in s : Distance(x, b) <= Distance(y, b)

(* Every operation leaves the nearest number as the first.                 *)
Becomes(s, b) == held' = s /\ base' = b /\ first' = Nearest(s, b)

SetInit == held = {} /\ base \in Seqnums /\ first = NoSeqnum

(* Only a number after base, within the half circle, is kept; once.        *)
Add(s) ==
  Becomes(IF Distance(s, base) \in 1 .. MAX_RELIABLE_WINDOW_SIZE - 1
          THEN held \cup {s} ELSE held, base)

Remove(s) == Becomes(held \ {s}, base)
Step      == Becomes(held \ {base}, Advance(base, 1))

SetNext == (\E s \in Seqnums : Add(s) \/ Remove(s)) \/ Step
SetSpec == SetInit /\ [][SetNext]_setVars
=============================================================================
