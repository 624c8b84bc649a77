----------------------------- MODULE MtpWindow -----------------------------
(***************************************************************************)
(* The congestion control of an MTP channel (Channel::UpdateTimers() and   *)
(* the windowCounters it reads, src/network/mtp/impl.cpp): how the window that   *)
(* MtpChannel leaves to chance moves.  Bytes are counted in packets of 512.*)
(***************************************************************************)
EXTENDS Integers

CONSTANTS
  MIN_RELIABLE_WINDOW_SIZE, START_RELIABLE_WINDOW_SIZE,
  MAX_RELIABLE_WINDOW_SIZE_SEND,
  BigStep, SmallStep, BlindStep,  \* 100, 50 and 10
  RateSeconds,                    \* 10: when current_bytes_transfered restarts
  MaxCounted                      \* bound on each counter

ASSUME CongestionAssumption ==
  /\ MIN_RELIABLE_WINDOW_SIZE \in Nat \ {0}
  /\ MAX_RELIABLE_WINDOW_SIZE_SEND \in Nat
  /\ START_RELIABLE_WINDOW_SIZE \in
       MIN_RELIABLE_WINDOW_SIZE .. MAX_RELIABLE_WINDOW_SIZE_SEND
  /\ {BigStep, SmallStep, BlindStep, RateSeconds, MaxCounted} \subseteq Nat

VARIABLES
  m_window_size,
  current_packet_loss,        \* timed out and sent again
  current_packet_too_late,    \* acks of packets no longer buffered
  current_packet_successful,  \* acks
  current_bytes_transfered,
  seconds                     \* full seconds that bpm_counter holds

windowCounters == <<current_packet_loss, current_packet_too_late,
              current_packet_successful, current_bytes_transfered>>
windowVars == <<m_window_size, windowCounters, seconds>>

WindowInit ==
  /\ m_window_size = START_RELIABLE_WINDOW_SIZE
  /\ current_packet_loss = 0 /\ current_packet_too_late = 0
  /\ current_packet_successful = 0 /\ current_bytes_transfered = 0
  /\ seconds = 0

(* runTimeouts(): a packet timed out.                                      *)
UpdatePacketLossCounter ==
  /\ current_packet_loss < MaxCounted
  /\ current_packet_loss' = current_packet_loss + 1
  /\ UNCHANGED <<m_window_size, current_packet_too_late,
                 current_packet_successful, current_bytes_transfered, seconds>>

(* An ack of a packet that is not buffered any more.                       *)
UpdatePacketTooLateCounter ==
  /\ current_packet_too_late < MaxCounted
  /\ current_packet_too_late' = current_packet_too_late + 1
  /\ UNCHANGED <<m_window_size, current_packet_loss,
                 current_packet_successful, current_bytes_transfered, seconds>>

(* An ack.                                                                 *)
UpdateBytesSent ==
  /\ current_packet_successful < MaxCounted
  /\ current_bytes_transfered < RateSeconds * MaxCounted
  /\ current_packet_successful' = current_packet_successful + 1
  /\ current_bytes_transfered' = current_bytes_transfered + 1
  /\ UNCHANGED <<m_window_size, current_packet_loss, current_packet_too_late,
                 seconds>>

-----------------------------------------------------------------------------
(* UpdateTimers()                                                          *)

(* Mutant: an unsigned size, which shrinks below zero into the largest   *)
(* window.                                                                 *)
RangeLimUnsigned(size) ==
  IF size < 0 \/ size > MAX_RELIABLE_WINDOW_SIZE_SEND
  THEN MAX_RELIABLE_WINDOW_SIZE_SEND
  ELSE IF size < MIN_RELIABLE_WINDOW_SIZE THEN MIN_RELIABLE_WINDOW_SIZE
  ELSE size

RangeLim(size) ==
  IF size < MIN_RELIABLE_WINDOW_SIZE THEN MIN_RELIABLE_WINDOW_SIZE
  ELSE IF size > MAX_RELIABLE_WINDOW_SIZE_SEND
       THEN MAX_RELIABLE_WINDOW_SIZE_SEND ELSE size

(* Has half of the window been used?                                       *)
ReasonableAmount == 2 * current_bytes_transfered > m_window_size

Congested(lost) ==
  IF lost <= current_packet_successful THEN lost ELSE current_packet_successful

(* Mutant: the quotient of floats.                                         *)
LossRatioExact(lost) == (100 * Congested(lost)) \div current_packet_successful

(* In percent; an integer division in the code, before it becomes a float. *)
LossRatio(lost) == 100 * (Congested(lost) \div current_packet_successful)

Grown(step) == IF ReasonableAmount THEN m_window_size + step ELSE m_window_size

NewSize(lost) ==
  IF current_packet_successful = 0
  THEN IF Congested(lost) > 0 THEN m_window_size - BlindStep
                              ELSE Grown(BigStep)
  ELSE LET ratio == LossRatio(lost)
       IN IF ratio < 1       THEN Grown(BigStep)
          ELSE IF ratio < 5  THEN Grown(SmallStep)
          ELSE IF ratio > 15 THEN m_window_size - BigStep
          ELSE IF ratio > 10 THEN m_window_size - SmallStep
          ELSE m_window_size

(* One call: a second may be over, and the period of the rates as well.    *)
UpdateTimers(second, period) ==
  LET elapsed == seconds + (IF second THEN 1 ELSE 0)
  IN /\ second \/ period
     /\ IF period THEN elapsed = RateSeconds ELSE elapsed <= RateSeconds
     /\ IF second
        THEN /\ m_window_size' =
                  RangeLim(NewSize(current_packet_loss + current_packet_too_late))
             /\ current_packet_loss' = 0 /\ current_packet_too_late' = 0
             /\ current_packet_successful' = 0
        ELSE UNCHANGED <<m_window_size, current_packet_loss,
                         current_packet_too_late, current_packet_successful>>
     /\ IF period
        THEN current_bytes_transfered' = 0 /\ seconds' = 0
        ELSE seconds' = elapsed /\ UNCHANGED current_bytes_transfered

WindowNext ==
  \/ UpdatePacketLossCounter \/ UpdatePacketTooLateCounter \/ UpdateBytesSent
  \/ \E second, period \in BOOLEAN : UpdateTimers(second, period)

WindowSpec == WindowInit /\ [][WindowNext]_windowVars

-----------------------------------------------------------------------------
(* Properties.                                                             *)

(* setWindowSize() works on a long: the window shrinks to its minimum and  *)
(* never wraps around below it, and never outgrows what SpanOK of the      *)
(* channel allows.                                                         *)
WindowInRange ==
  m_window_size \in MIN_RELIABLE_WINDOW_SIZE .. MAX_RELIABLE_WINDOW_SIZE_SEND

(* Whatever was lost, late or acknowledged, the window moves by BigStep or *)
(* not at all: the finer steps of the code cannot be reached, because      *)
(* successful_to_lost_ratio is an integer quotient; so the window grows in *)
(* a second in which half as many packets were late as were acknowledged,  *)
(* though UpdatePacketTooLateCounter() calls late ones "a signal of         *)
(* congestion, like packet loss".                                          *)
OnlyBigSteps ==
  [][m_window_size' \in {m_window_size, RangeLim(m_window_size + BigStep),
                         RangeLim(m_window_size - BigStep)}]_windowVars

Lost == current_packet_loss + current_packet_too_late

(* Something was acknowledged, and no less was lost or late.               *)
LossAtLeastAcks ==
  current_packet_successful > 0 /\ Lost >= current_packet_successful

(* The window shrinks in those seconds only, and never grows in them, even *)
(* where the step would lead below zero: the loss of every other packet    *)
(* that was sent in a second does not make it smaller.                     *)
LossDecides ==
  [][/\ LossAtLeastAcks => m_window_size' <= m_window_size
     /\ m_window_size' < m_window_size => LossAtLeastAcks]_windowVars

(* Loss is "a signal of congestion" (UpdateTimers()): a second in which    *)
(* packets were lost and none was acknowledged does not make the window    *)
(* larger.  The code cuts the loss down to the number of acks, here 0, so  *)
(* that its branch for this case is dead and the window grows by BigStep   *)
(* if the seconds before, within one period, have used half of it.         *)
UnackedLossHolds ==
  [][current_packet_successful = 0 /\ Lost > 0
     => m_window_size' <= m_window_size]_windowVars
=============================================================================
