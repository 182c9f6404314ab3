---------------------------- MODULE PacketNumber ----------------------------
(***************************************************************************)
(* Packet numbers on the wire (packet.py): the bytes a sender writes, and  *)
(* the number a receiver makes of them.  A length of n bytes is its window,*)
(* 1 << 8n.                                                                *)
(***************************************************************************)
EXTENDS Integers

CONSTANTS
    PnWindows,          \* 1 << 8n for the lengths n there are, 1 to 4
    PnLimit             \* 1 << 62

ASSUME PacketNumberConstants ==
    /\ \A w \in PnWindows : w \in Nat \ {0} /\ w % 2 = 0
    /\ \E longest \in PnWindows : \A w \in PnWindows : w <= longest
    /\ PnLimit \in Nat

PacketNumbers == 0 .. PnLimit - 1

\* The length the encoder takes: the shortest with room for twice the packets
\* that may be unacknowledged, or else the longest there is.  Both callers pass
\* None for largest_acked, so those are all the packets so far.
EncodedWindow(full_pn) ==
    CHOOSE w \in PnWindows :
       /\ 2 * (full_pn + 1) < w \/ \A v \in PnWindows : v <= w
       /\ \A v \in PnWindows : 2 * (full_pn + 1) < v => w <= v

\* encode_packet_number
EncodePacketNumber(full_pn) == full_pn % EncodedWindow(full_pn)

\* Mutant: any candidate up to the expected number is moved a window up.
DecodePacketNumberForward(largest_pn, truncated_pn, pn_win) ==
    LET expected_pn == largest_pn + 1
        candidate_pn == expected_pn - (expected_pn % pn_win) + truncated_pn
    IN  IF candidate_pn < expected_pn /\ candidate_pn < PnLimit - pn_win
        THEN candidate_pn + pn_win
        ELSE candidate_pn

\* decode_packet_number
DecodePacketNumber(largest_pn, truncated_pn, pn_win) ==
    LET expected_pn == largest_pn + 1
        pn_hwin == pn_win \div 2
        candidate_pn == expected_pn - (expected_pn % pn_win) + truncated_pn
    IN  IF candidate_pn <= expected_pn - pn_hwin /\ candidate_pn < PnLimit - pn_win
        THEN candidate_pn + pn_win
        ELSE IF candidate_pn > expected_pn + pn_hwin /\ candidate_pn >= pn_win
        THEN candidate_pn - pn_win
        ELSE candidate_pn
=============================================================================
