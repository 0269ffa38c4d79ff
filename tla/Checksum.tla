------------------------------ MODULE Checksum ------------------------------
(***************************************************************************)
(* The Internet checksum and the forged UDP datagrams that carry it, in    *)
(* the project's two versions: checksum and forge_udp_packet of            *)
(* kernel/net.c, which fold the sum twice, and ip_checksum, udp_checksum   *)
(* and forge_udp_packet of natghost_forge, which fold it in a loop.        *)
(*                                                                         *)
(* Data are sequences of bytes; two bytes make a word, the first one being *)
(* the less significant (the order does not matter to the sum but has to   *)
(* agree with that of the last, single byte).                              *)
(***************************************************************************)
EXTENDS Integers, SequencesExt

CONSTANT Byte           \* values of a byte, 256

ASSUME ByteAssumption == Byte \in Nat /\ Byte > 1

Word  == Byte * Byte    \* values of a word, 65536
Wide  == Word * Word    \* values of uint32_t

\* The words of b; an odd last byte counts as a word.
Words(b) == [i \in 1..((Len(b) + 1) \div 2) |->
               b[2 * i - 1] + (IF 2 * i <= Len(b) THEN Byte * b[2 * i] ELSE 0)]

\* The sum in a uint32_t.
Sum32(b) == FoldLeft(LAMBDA s, w : (s + w) % Wide, 0, Words(b))

High(s) == s \div Word
Low(s)  == s % Word
Inverted(w) == Word - 1 - w     \* (uint16_t)~sum

\* net.c: sum = (sum >> 16) + (sum & 0xFFFF); sum += sum >> 16; and the cast.
FoldTwice(s) == LET t == High(s) + Low(s) IN (t + High(t)) % Word

\* checksum.c: while (sum >> 16) sum = (sum & 0xFFFF) + (sum >> 16).
FoldLoop[s \in 0..(Wide - 1)] == IF High(s) = 0 THEN s ELSE FoldLoop[Low(s) + High(s)]

checksum(b)    == Inverted(FoldTwice(Sum32(b)))
ip_checksum(b) == Inverted(FoldLoop[Sum32(b)])

-----------------------------------------------------------------------------
(* A forged datagram.                                                      *)

Bytes(w) == <<w % Byte, w \div Byte>>

\* What the checksum covers: the pseudo-header, here one word that stands for
\* its addresses, protocol and length, and the datagram with the given
\* checksum field.
Covered(pseudo, cksum, payload) == Bytes(pseudo) \o Bytes(cksum) \o payload

\* A defective variant: the field is left as it is when the checksum is 0.
PlainField(pseudo, payload) == checksum(Covered(pseudo, 0, payload))

\* net.c l.69-70: a checksum of 0 is sent as all ones.
NetField(pseudo, payload) ==
    LET u_ck == checksum(Covered(pseudo, 0, payload))
    IN  IF u_ck = 0 THEN Word - 1 ELSE u_ck

\* udp_checksum, which returns a checksum of 0 as it is, and 0 as well when there
\* is no memory for the bytes to sum; forge_udp_packet sends what it returns.
ForgeField(memory, pseudo, payload) ==
    IF memory THEN ip_checksum(Covered(pseudo, 0, payload)) ELSE 0

-----------------------------------------------------------------------------
(* What must hold of all bytes b and all words pseudo.                     *)

\* RFC 1071, the reference: the sum of all words, with carries added at the
\* low end, is the sum modulo Word - 1, in the representative that is 0 only
\* if every word is.
Total(b) == FoldLeft(LAMBDA s, w : s + w, 0, Words(b))
OnesComplement(total) == IF total = 0 THEN 0 ELSE 1 + ((total - 1) % (Word - 1))
Reference(b) == OnesComplement(Total(b))

\* net.c l.20-22 and checksum.c l.17-20: two folds are enough, and both
\* versions compute the one's complement sum.
ChecksumCorrect(b) == /\ checksum(b) = Inverted(Reference(b))
                      /\ ip_checksum(b) = Inverted(Reference(b))

\* A receiver takes a datagram whose field is 0 unchecked, any other if its
\* one's complement sum is all ones.
Accepted(pseudo, field, payload) ==
    field = 0 \/ Reference(Covered(pseudo, field, payload)) = Word - 1

\* net.c l.69-70: every datagram of the kernel version carries a checksum, and
\* one that the receiver finds correct.
NetDatagramChecked(pseudo, payload) ==
    LET field == NetField(pseudo, payload)
    IN  field # 0 /\ Accepted(pseudo, field, payload)

\* network_core.c l.41 and checksum.c l.40-52: datagrams of the forge are accepted
\* as well, whether malloc succeeds or not; but those it fails for, and those whose
\* sum is all ones, go out without a checksum, which net.c never does.  In all
\* other cases the two versions send the same field.
ForgeDatagramAccepted(pseudo, payload) ==
    LET net == NetField(pseudo, payload) IN
    \A memory \in BOOLEAN :
        LET forge == ForgeField(memory, pseudo, payload) IN
        /\ Accepted(pseudo, forge, payload)
        /\ ~memory => forge = 0 /\ net # 0
        /\ memory  => IF forge = 0 THEN net = Word - 1 ELSE net = forge
=============================================================================
