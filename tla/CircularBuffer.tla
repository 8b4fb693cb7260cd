--------------------------- MODULE CircularBuffer ---------------------------
(***************************************************************************)
(* CircularBuffer, the receive buffer of a connection: a ring whose two    *)
(* positions count bytes for ever, in an unsigned type that wraps, and are *)
(* masked to index the storage. The operations are operators on a record;  *)
(* a failing call, which changes nothing, is left to its guard.            *)
(***************************************************************************)
EXTENDS Integers, Sequences, FiniteSetsExt

CONSTANTS
    Capacity,     \* bytes the ring holds, a power of two
    SeqModulus    \* 2^w, where the positions wrap: a multiple of the capacity

Ring(Byte) == [read_seq : 0..(SeqModulus - 1), write_seq : 0..(SeqModulus - 1),
               storage : [0..(Capacity - 1) -> Byte]]

NewRing(junk) == [read_seq |-> 0, write_seq |-> 0,
                  storage |-> [i \in 0..(Capacity - 1) |-> junk]]

\* size: the difference of two wrapping positions.
RingSize(r) == (r.write_seq - r.read_seq) % SeqModulus

RingFull(r) == RingSize(r) = Capacity

WritableSize(r) == Capacity - RingSize(r)

\* index_of: the capacity is a power of two, so the mask is the remainder.
IndexOf(seq) == seq % Capacity

\* contiguous_writable_size, the length of writable_span.
ContiguousWritable(r) == Min({WritableSize(r), Capacity - IndexOf(r.write_seq)})

\* writable_span filled with bytes by the caller, and commit.
Committed(r, bytes) ==
    LET at == IndexOf(r.write_seq) IN
    [r EXCEPT !.write_seq = (@ + Len(bytes)) % SeqModulus,
              !.storage = [i \in DOMAIN @ |-> IF i - at \in 0..(Len(bytes) - 1)
                                                THEN bytes[i - at + 1] ELSE @[i]]]

\* consume.
Consumed(r, n) == [r EXCEPT !.read_seq = (@ + n) % SeqModulus]

\* Slip: what goes on at the front of the storage is left out.
Peeked_OneCopy(r, n) ==
    LET idx == IndexOf(r.read_seq) IN
    [i \in 1..n |-> r.storage[Min({idx + i - 1, Capacity - 1})]]

\* peek: up to the end of the storage and on from its front.
Peeked(r, n) ==
    LET idx == IndexOf(r.read_seq)
        first == Min({n, Capacity - idx})
    IN  [i \in 1..n |-> IF i <= first THEN r.storage[idx + i - 1]
                                      ELSE r.storage[i - first - 1]]

\* clear: the bytes stay where they are.
RingCleared(r) == [r EXCEPT !.read_seq = 0, !.write_seq = 0]
=============================================================================
