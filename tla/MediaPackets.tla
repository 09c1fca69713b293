---------------------------- MODULE MediaPackets ----------------------------
(***************************************************************************)
(* The channel-1 packets in a decrypted record (media.py) and the          *)
(* reassembly of their payloads into JPEG images (jpeg_reassembler.py).    *)
(* Records, packets and images are sequences of words of four bytes: a     *)
(* header is five of them, the length before it is one.                    *)
(***************************************************************************)
EXTENDS Integers, Sequences

CONSTANTS
    MaxFrameSize,    \* MAX_FRAME_SIZE, of an image
    MaxPacketLength  \* MAX_FRAME_SIZE, where it bounds the length of a packet

\* What four bytes read as: a value, the marker of a header, the start, the
\* inside or the end of an image, or the zeros a buffer is extended with.
Word(kind, value) == [kind |-> kind, value |-> value]
Number(n) == Word("number", n)
Marker == Word("marker", 0)
Zeros == Word("zeros", 0)

HeaderLength == 5
OffsetField == 4
MarkerField == 5

ASSUME MediaAssumption ==
    MaxFrameSize \in Nat /\ MaxPacketLength \in Nat /\ MaxPacketLength > HeaderLength

First(positions) == CHOOSE i \in positions : \A j \in positions : i <= j
Last(positions) == CHOOSE i \in positions : \A j \in positions : j <= i

\* Mutant: the search goes on behind the marker, in the payload.
BehindMarker(marker, header, length) == marker + 1

\* Where the search goes on once it has taken a packet.
Behind(marker, header, length) == header + length

\* extract_media_packets: every marker found is taken for a header's, unless the
\* length before that header cannot be one; the search goes on behind the packet,
\* so that what its payload holds is not looked at.
ExtractMediaPackets(record) ==
    LET Found(cursor) == {i \in cursor..Len(record) : record[i] = Marker}
        Extract[cursor \in 1..(Len(record) + 1)] ==
            IF Found(cursor) = {} THEN <<>>
            ELSE LET marker == First(Found(cursor))
                     header == marker - MarkerField + 1
                     length == record[header - 1].value
                 IN IF /\ header > 1
                       /\ length \in HeaderLength..MaxPacketLength
                       /\ header + length <= Len(record) + 1
                    THEN <<SubSeq(record, header, header + length - 1)>>
                            \o Extract[Behind(marker, header, length)]
                    ELSE Extract[marker + 1]
    IN Extract[1]

\* _buffer, if a frame is in progress.  _max_end is the length of the buffer.
NoFrame == [open |-> FALSE, buffer |-> <<>>]

\* Mutant: a buffer without an end-of-image is handed back as it is.
FlushUnended(assembler) == assembler.buffer

\* _flush: the buffer up to the last end-of-image in it, or <<>> for None.  A word
\* is as long as the shortest frame.
Flush(assembler) ==
    LET ends == {i \in 1..Len(assembler.buffer) : assembler.buffer[i].kind = "eoi"}
    IN IF assembler.open /\ ends # {} /\ assembler.buffer[1].kind = "soi"
       THEN SubSeq(assembler.buffer, 1, Last(ends)) ELSE <<>>

\* A payload written into the buffer at its offset, over what is there.
Placed(buffer, offset, payload) ==
    [i \in 1..(IF offset + Len(payload) > Len(buffer) THEN offset + Len(payload) ELSE Len(buffer)) |->
        CASE i \in offset + 1..offset + Len(payload) -> payload[i - offset]
          [] i \notin offset + 1..offset + Len(payload) /\ i <= Len(buffer) -> buffer[i]
          [] OTHER -> Zeros]

\* push: the frame it returns and the reassembler after it.
Push(assembler, packet) ==
    IF Len(packet) <= HeaderLength THEN [frame |-> <<>>, assembler |-> assembler]
    ELSE LET offset == packet[OffsetField].value
             payload == SubSeq(packet, HeaderLength + 1, Len(packet))
             starts == offset = 0 /\ payload[1].kind = "soi"
             frame == IF starts THEN Flush(assembler) ELSE <<>>
             current == IF starts THEN [open |-> TRUE, buffer |-> <<>>] ELSE assembler
         IN [frame |-> frame,
             assembler |-> IF ~current.open \/ offset + Len(payload) > MaxFrameSize THEN current
                           ELSE [current EXCEPT !.buffer = Placed(@, offset, payload)]]

\* The packets of one record pushed one after the other: the frames they
\* complete, and the reassembler after the last.
PushAll(assembler, packets) ==
    LET After[n \in 0..Len(packets)] ==
            IF n = 0 THEN [frames |-> <<>>, assembler |-> assembler]
            ELSE LET pushed == Push(After[n - 1].assembler, packets[n])
                 IN [frames |-> IF pushed.frame = <<>> THEN After[n - 1].frames
                                ELSE Append(After[n - 1].frames, pushed.frame),
                     assembler |-> pushed.assembler]
    IN After[Len(packets)]
=============================================================================
