------------------------------ MODULE Payload ------------------------------
(***************************************************************************)
(* The bytes of a request and of an answer.                                *)
(*                                                                         *)
(* Inwards: S3ChunkedStream takes the aws-chunked framing off a body that  *)
(* arrives in pieces of any size, and checks the chain of chunk            *)
(* signatures.  The wire is a sequence of symbols [is |-> ...]: "CR", "LF" *)
(* and the letters of the payload stand for a byte each, [is |-> "size",   *)
(* n |-> k] for the size in a chunk header and [is |-> "sig", over |-> s]  *)
(* for the signature that the client's key makes over the chunks s.        *)
(*                                                                         *)
(* Outwards: StorageService.read and StorageCipher.  A blob encrypted in   *)
(* counter mode is read from the start of the cipher block a range falls   *)
(* in, with the counter advanced, and the surplus is skipped.              *)
(***************************************************************************)
EXTENDS Integers, Sequences, FiniteSets
Ext == INSTANCE SequencesExt

CONSTANTS MaxHeader,   \* MAX_HEADER_BYTES, in symbols
          MaxBytes,    \* the largest payload one upload may carry
          Block,       \* BLOCK_BYTES
          Radix,       \* values of one digit of the counter: 256 in the code
          CounterSize  \* digits of the counter: 16 in the code

ASSUME PayloadAssumption ==
    /\ Block \in Nat \ {0} /\ CounterSize \in Nat \ {0}
    /\ Radix \in Nat \ {0, 1}
    /\ MaxHeader \in Nat /\ MaxHeader >= 4   \* a header is shorter
    /\ MaxBytes \in Nat

CR == [is |-> "CR"]
LF == [is |-> "LF"]
Byte == {CR, LF} \cup [is : STRING \ {"size", "sig", "garbage"}]
Symbol == Byte \cup [is : {"size"}, n : Nat] \cup [is : {"sig"}, over : Seq(Seq(Byte))]
\* The values of the counter, most significant digit first.
Counters == [1 .. CounterSize -> 0 .. Radix - 1]

-----------------------------------------------------------------------------
\* The client.  It cuts a body into chunks and sends an empty one after them, each
\* with its size and, when the body is signed, the signature over it and the chunks
\* before it.

Size(n) == [is |-> "size", n |-> n]
Sig(over) == [is |-> "sig", over |-> over]

Plain(chunks) == Ext!FlattenSeq(chunks)
AllOf(chunks) == Append(chunks, <<>>)
Header(all, i, signed) ==
    <<Size(Len(all[i]))>> \o (IF signed THEN <<Sig(SubSeq(all, 1, i))>> ELSE <<>>) \o <<CR, LF>>
Frames(all, signed) == [i \in 1 .. Len(all) |-> Header(all, i, signed) \o all[i] \o <<CR, LF>>]
Framed(all, signed) == Ext!FlattenSeq(Frames(all, signed))
\* Where the first i frames end.
EndOf(all, signed, i) == Len(Ext!FlattenSeq(SubSeq(Frames(all, signed), 1, i)))

\* A wire is what the client sent up to a place where the parser looks: it ends
\* there, or a frame does not begin with a size or does not end with a line end.
BrokenAt(wire, all, signed, m) ==
    /\ SubSeq(wire, 1, m) = SubSeq(Framed(all, signed), 1, m)
    /\ \/ m \in {Len(wire), Len(Framed(all, signed))}
       \/ \E i \in 0 .. Len(all) - 1 : m = EndOf(all, signed, i) /\ wire[m + 1].is # "size"
       \/ \E i \in 1 .. Len(all) :
             m + 1 \in {EndOf(all, signed, i) - 1, EndOf(all, signed, i)} /\ wire[m + 1] # Framed(all, signed)[m + 1]

-----------------------------------------------------------------------------
\* S3ChunkedStream.  "chain" is what the last accepted signature covers; "out"
\* is what was pushed on to the storage.

NewParser(signed) ==
    [state |-> "header", pending |-> <<>>, remaining |-> 0, final |-> FALSE,
     signed |-> signed, signature |-> <<>>, chunk |-> <<>>, chain |-> <<>>, out |-> <<>>]

Fail(p) == [p EXCEPT !.state = "malformed"]
From(seq, i) == SubSeq(seq, i, Len(seq))

\* Where the first CRLF of the pending bytes starts, 0 when there is none.
LineEnd(pending) ==
    LET ends == {i \in 1 .. Len(pending) - 1 : pending[i] = CR /\ pending[i + 1] = LF} IN
    IF ends = {} THEN 0 ELSE CHOOSE i \in ends : \A j \in ends : i <= j

\* The first chunk-signature among the extensions of a header, if there is one.
Signatures(header) ==
    LET found == {i \in 2 .. Len(header) : header[i].is = "sig"} IN
    IF found = {} THEN <<>> ELSE <<header[CHOOSE i \in found : \A j \in found : i <= j]>>

ConsumeHeader(p) ==
    LET end == LineEnd(p.pending)
        header == SubSeq(p.pending, 1, end - 1)
        found == Signatures(header)
        size == header[1].n
    IN
    IF end = 0 THEN IF Len(p.pending) > MaxHeader THEN Fail(p) ELSE p
    ELSE IF header = <<>> \/ header[1].is # "size" \/ (p.signed /\ found = <<>>) THEN Fail(p)
    ELSE [p EXCEPT !.pending = From(p.pending, end + 2), !.remaining = size, !.final = size = 0,
                   !.signature = found, !.chunk = <<>>, !.state = IF size = 0 THEN "terminator" ELSE "data"]

ConsumeData(p) ==
    LET take == IF p.remaining < Len(p.pending) THEN p.remaining ELSE Len(p.pending)
        data == SubSeq(p.pending, 1, take)
    IN
    [p EXCEPT !.pending = From(p.pending, take + 1), !.remaining = @ - take, !.chunk = @ \o data,
              !.out = @ \o data, !.state = IF take = p.remaining THEN "terminator" ELSE "data"]

\* A chunk without a signature is not checked, one with a wrong one fails.
VerifyChunk(p, next) ==
    IF ~p.signed \/ p.signature = <<>> THEN [p EXCEPT !.state = next]
    ELSE IF p.signature[1].over # Append(p.chain, p.chunk) THEN [p EXCEPT !.state = "mismatch"]
    ELSE [p EXCEPT !.state = next, !.chain = p.signature[1].over]

\* A mistake: the line end after the data is not waited for.
ConsumeTerminatorEarly(p) ==
    IF p.pending = <<>> THEN p
    ELSE VerifyChunk([p EXCEPT !.pending = From(p.pending, 3)], IF p.final THEN "done" ELSE "header")

ConsumeTerminator(p) ==
    IF Len(p.pending) < 2 THEN p
    ELSE IF SubSeq(p.pending, 1, 2) # <<CR, LF>> THEN Fail(p)
    ELSE VerifyChunk([p EXCEPT !.pending = From(p.pending, 3)], IF p.final THEN "done" ELSE "header")

\* One turn of consume's loop, and whether the loop goes on.
ConsumeOnce(p) ==
    CASE p.state = "header" -> ConsumeHeader(p)
      [] p.state = "data" -> ConsumeData(p)
      [] p.state = "terminator" -> ConsumeTerminator(p)
      [] p.state = "done" -> [p EXCEPT !.pending = <<>>]
      [] OTHER -> p
Stalled(p) == ConsumeOnce(p) = p

\* _flush: the body may end with the header of the empty chunk.
Flush(p) ==
    LET q == IF p.state = "terminator" /\ p.final /\ p.pending = <<>> THEN VerifyChunk(p, "done") ELSE p IN
    IF q.state \in {"done", "mismatch"} THEN q ELSE Fail(q)

-----------------------------------------------------------------------------
\* Ranges.  A range header is [form, first, last]; positions count from 0.

NoRange == [start |-> 0, end |-> -1, whole |-> TRUE]
Unsatisfiable == [start |-> 0, end |-> 0, whole |-> FALSE, bad |-> TRUE]
Slice(start, end) == [start |-> start, end |-> end, whole |-> FALSE]
Least(x, y) == IF x < y THEN x ELSE y

ParseRange(range, size) ==
    LET start == IF range.form = "suffix" THEN IF size > range.last THEN size - range.last ELSE 0 ELSE range.first
        end == IF range.form = "between" THEN Least(range.last, size - 1) ELSE size - 1
    IN
    CASE range.form = "none" -> NoRange
      [] range.form = "suffix" -> IF range.last = 0 THEN Unsatisfiable ELSE Slice(start, end)
      [] OTHER -> IF start >= size \/ start > end THEN Unsatisfiable ELSE Slice(start, end)

\* A mistake: the carry stops at the last digit.
AdvanceLastDigit(iv, blocks) == [iv EXCEPT ![CounterSize] = (@ + blocks) % Radix]

\* advanceIv: adding blocks to a big-endian counter, the carry running from
\* its last digit to its first and over the edge.
AdvanceIv(iv, blocks) ==
    LET carry[i \in 1 .. CounterSize] ==
            IF i = CounterSize THEN blocks
            ELSE LET sum == iv[i + 1] + (carry[i + 1] % Radix) IN (carry[i + 1] \div Radix) + (sum \div Radix)
    IN [i \in 1 .. CounterSize |-> (iv[i] + (carry[i] % Radix)) % Radix]

\* The cipher itself: block n of a stream is encrypted under the counter it was
\* opened with plus n, as one number of CounterSize digits.
ValueOf(iv) ==
    LET upTo[i \in 0 .. CounterSize] == IF i = 0 THEN 0 ELSE upTo[i - 1] * Radix + iv[i] IN upTo[CounterSize]
Power == LET power[i \in 0 .. CounterSize] == IF i = 0 THEN 1 ELSE power[i - 1] * Radix IN power
KeystreamBlock(iv, n) == (ValueOf(iv) + n) % Power[CounterSize]

\* What is on the disk: each byte with the counter of its block and its place.
Encrypted(iv, plain) ==
    [i \in 1 .. Len(plain) |->
        [byte |-> plain[i], under |-> KeystreamBlock(iv, (i - 1) \div Block), at |-> (i - 1) % Block]]
InTheClear(plain) == [i \in 1 .. Len(plain) |-> [byte |-> plain[i]]]

\* A byte comes out right under the counter and the place that it went in with.
Garbage == [is |-> "garbage"]
Decrypt(c, under, at) == IF c.under = under /\ c.at = at THEN c.byte ELSE Garbage

\* A mistake: the file is read from where the range starts.
UnalignedOffset(offset) == offset

\* decryptStages: where the file is read from, the counter there, and how many
\* decrypted bytes are dropped.
AlignedOffset(offset) == offset - (offset % Block)
OpenBlob(blob, range) ==
    LET start == IF range.whole THEN 0 ELSE range.start
        end == IF range.whole THEN Len(blob.bytes) - 1 ELSE range.end
        aligned == IF blob.iv = <<>> THEN start ELSE AlignedOffset(start)
    IN [position |-> aligned, from |-> aligned, end |-> end, skip |-> start - aligned, out |-> <<>>]

\* The next n bytes of the file through the decipher stage, which counts them
\* from where the file was opened.
Deciphered(blob, r, n) ==
    [i \in 1 .. n |->
        LET c == blob.bytes[r.position + i]
            passed == r.position + i - 1 - r.from
        IN IF blob.iv = <<>> THEN c.byte
           ELSE Decrypt(c, KeystreamBlock(AdvanceIv(blob.iv, r.from \div Block), passed \div Block), passed % Block)]

\* The skip stage on a chunk of n bytes.
Skipped(r, n) == Least(r.skip, n)
ReadChunk(blob, r, n) ==
    [r EXCEPT !.position = @ + n, !.skip = @ - Skipped(r, n),
              !.out = @ \o From(Deciphered(blob, r, n), Skipped(r, n) + 1)]

=============================================================================
