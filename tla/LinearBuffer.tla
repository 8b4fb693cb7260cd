---------------------------- MODULE LinearBuffer ----------------------------
(***************************************************************************)
(* LinearBuffer, which holds one message: headroom, data and tailroom in a *)
(* storage of fixed size. The offsets are kept as the size of the headroom *)
(* and the data themselves. The bytes outside the data are never read.     *)
(***************************************************************************)
EXTENDS Integers, Sequences

CONSTANT BufferCapacity

Buffer(Byte) == [headroom : 0..BufferCapacity,
                 data : UNION {[1..n -> Byte] : n \in 0..BufferCapacity}]

\* A new buffer, and one after reset.
NewBuffer == [headroom |-> 0, data |-> <<>>]

TailroomSize(b) == BufferCapacity - b.headroom - Len(b.data)

\* set_headroom of an empty buffer.
WithHeadroom(b, n) == [b EXCEPT !.headroom = n]

\* tailroom_span filled by the caller, and commit; append.
Appended(b, bytes) == [b EXCEPT !.data = @ \o bytes]

\* prepend.
Prepended(b, bytes) == [headroom |-> b.headroom - Len(bytes), data |-> bytes \o b.data]

\* consume: what is consumed becomes headroom.
ConsumedFront(b, n) ==
    [headroom |-> b.headroom + n, data |-> SubSeq(b.data, n + 1, Len(b.data))]
=============================================================================
