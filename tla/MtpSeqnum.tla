----------------------------- MODULE MtpSeqnum -----------------------------
(***************************************************************************)
(* The u16 sequence-number arithmetic of the MTP transport                 *)
(* (src/network/mtp/internal.h) for any even number of sequence numbers.   *)
(* A u16 reduction is only ever applied to a value less than twice the     *)
(* modulus, so it is written as one conditional subtraction.               *)
(***************************************************************************)
EXTENDS Integers

CONSTANT MAX_RELIABLE_WINDOW_SIZE  \* 0x8000 in the code: half of the u16 range

ASSUME WindowAssumption == MAX_RELIABLE_WINDOW_SIZE \in Nat \ {0}

SEQNUM_MAX == 2 * MAX_RELIABLE_WINDOW_SIZE - 1
Modulus    == 2 * MAX_RELIABLE_WINDOW_SIZE
Seqnums    == 0 .. SEQNUM_MAX

(* Mutant: the numbers come round after half of the circle.                *)
WrapHalf(x) ==
  IF x > SEQNUM_MAX THEN x - MAX_RELIABLE_WINDOW_SIZE ELSE x

Wrap(x) == IF x > SEQNUM_MAX THEN x - Modulus ELSE x

(* next_incoming_seqnum++ / next_outgoing_seqnum++ on a u16.               *)
Advance(s, n) == Wrap(s + n)

(* seqnum_in_window(): the half-open window [next, next + size) on the     *)
(* circle, by comparing the two ends as plain integers.                    *)
SeqnumInWindow(seqnum, next, size) ==
  LET end == Wrap(next + size)
  IN IF next < end
     THEN seqnum >= next /\ seqnum < end
     ELSE seqnum < end \/ seqnum >= next

(* Mutant: a plain comparison.                                             *)
SeqnumHigherUnwrapped(totest, base) == totest > base

(* seqnum_higher().                                                        *)
SeqnumHigher(totest, base) ==
  IF totest > base THEN totest - base <= SEQNUM_MAX \div 2
                   ELSE base - totest > SEQNUM_MAX \div 2

(* sendAsPacketReliable()'s argument of insert(): the code computes        *)
(* (n - 0x8000) % (0x8000 + 1) on ints, a remainder that never changes the *)
(* value (|n - 0x8000| <= 0x8000), and converts it to u16.                 *)
SendWindowStart(n) ==
  IF n >= MAX_RELIABLE_WINDOW_SIZE THEN n - MAX_RELIABLE_WINDOW_SIZE
                                   ELSE n - MAX_RELIABLE_WINDOW_SIZE + Modulus

(* Reference definition: how many increments lead from b to a.             *)
Distance(a, b) == IF a >= b THEN a - b ELSE a - b + Modulus

-----------------------------------------------------------------------------
(* The two comparisons against the reference definition.                   *)

(* seqnum_in_window() is membership in a circular interval, for every size *)
(* that leaves at least one sequence number outside.                       *)
InWindowIsDistance(next) ==
  \A s \in Seqnums : \A size \in 1 .. SEQNUM_MAX :
    SeqnumInWindow(s, next, size) <=> Distance(s, next) < size

(* Exactly one of two different sequence numbers is the higher one, also   *)
(* at the two ends of the half circle, where the code is asymmetric.       *)
HigherIsTotal(next) ==
  \A s \in Seqnums :
    s # next => (SeqnumHigher(s, next) <=> ~SeqnumHigher(next, s))

(* A sequence number less than half the circle ahead is higher.            *)
HigherIsAhead(next) ==
  \A s \in Seqnums :
    Distance(s, next) \in 1 .. MAX_RELIABLE_WINDOW_SIZE - 1
      => SeqnumHigher(s, next)
=============================================================================
