----------------------------- MODULE OutputTail -----------------------------
(***************************************************************************)
(* The bounded capture of a command's output: each stream keeps its last   *)
(* bytes as chunks of any size arrive, and the outcome shows the end of    *)
(* both, rendered as text (command.rs and bounded.rs have the same tail).  *)
(*                                                                         *)
(* A byte is an ASCII character or invalid; an invalid byte is rendered by *)
(* the replacement character, which is longer than the byte it replaces.   *)
(***************************************************************************)
EXTENDS Naturals, Sequences, SequencesExt

CONSTANTS
    MaxLimit,     \* the largest limit
    MaxTotal      \* how much a stream may write

VARIABLES
    limit,        \* output_limit_bytes
    stream        \* [Stream -> [total, bytes, truncated]]

vars == <<limit, stream>>

Stream == {"stdout", "stderr"}
Byte == {"ascii", "invalid"}

\* total is what was written, for the sake of the properties.
CapturedOutput == [total : Seq(Byte), bytes : Seq(Byte), truncated : BOOLEAN]

\* tail_bytes
TailBytes(s, n) == IF Len(s) <= n THEN s ELSE SubSeq(s, Len(s) - n + 1, Len(s))

\* replace_with_tail
ReplaceWithTail(c, incoming) ==
    [bytes |-> TailBytes(incoming, limit),
     truncated |-> c.truncated \/ c.bytes # <<>> \/ Len(incoming) > limit]

\* extend_tail, retain_tail
ExtendTail(c, incoming) ==
    IF limit = 0 THEN [bytes |-> c.bytes, truncated |-> c.truncated \/ incoming # <<>>]
    ELSE IF Len(incoming) >= limit THEN ReplaceWithTail(c, incoming)
    ELSE LET total == Len(c.bytes) + Len(incoming)
             excess == IF total > limit THEN total - limit ELSE 0
         IN  [bytes |-> SubSeq(c.bytes, excess + 1, Len(c.bytes)) \o incoming,
              truncated |-> c.truncated \/ excess > 0]

\* drain_output: a chunk is read.
Extend(s, incoming) ==
    /\ Len(stream[s].total) + Len(incoming) <= MaxTotal
    /\ LET c == ExtendTail(stream[s], incoming)
       IN  stream' = [stream EXCEPT ![s] = [total |-> @.total \o incoming, bytes |-> c.bytes,
                                            truncated |-> c.truncated]]
    /\ UNCHANGED limit

----------------------------------------------------------------------------
(* The outcome: finish_command *)

\* String::from_utf8_lossy, and the bytes its characters take.
Width(char) == IF char = "replacement" THEN 3 ELSE 1
Rendered(bytes) == [i \in DOMAIN bytes |-> IF bytes[i] = "invalid" THEN "replacement" ELSE bytes[i]]
WidthOf(text) == FoldLeft(LAMBDA w, char : w + Width(char), 0, text)

\* Wrong: characters are counted instead of bytes.
LossyByCharacters(bytes) == TailBytes(Rendered(bytes), limit)

\* bounded_lossy: the longest end, of whole characters, that fits.
BoundedLossy(bytes) ==
    LET text == Rendered(bytes)
        fits == {n \in 0..Len(text) : WidthOf(TailBytes(text, n)) <= limit}
    IN  TailBytes(text, CHOOSE n \in fits : \A k \in fits : k <= n)

Combined == stream["stdout"].bytes \o stream["stderr"].bytes
Kept == TailBytes(Combined, limit)
Output == BoundedLossy(Kept)

OutputTruncated ==
    \/ stream["stdout"].truncated \/ stream["stderr"].truncated
    \/ Len(Combined) > limit
    \/ Output # Rendered(Kept)

----------------------------------------------------------------------------

Init ==
    /\ limit \in 0..MaxLimit
    /\ stream = [s \in Stream |-> [total |-> <<>>, bytes |-> <<>>, truncated |-> FALSE]]

\* A read that returns something; the end of the stream is not a chunk.
Chunk == UNION {[1..n -> Byte] : n \in 1..MaxTotal}

Next == \E s \in Stream, incoming \in Chunk : Extend(s, incoming)

Spec == Init /\ [][Next]_vars

----------------------------------------------------------------------------
(* Properties *)

TypeOK ==
    /\ limit \in 0..MaxLimit
    /\ stream \in [Stream -> CapturedOutput]

\* However the streams are cut into chunks, the text of the outcome fits into the
\* limit in spite of what rendering adds; it is an end of what both streams would
\* render to, and the outcome says so if it is not all of it.
OutputIsAnEnd ==
    LET all == Rendered(stream["stdout"].total \o stream["stderr"].total)
    IN  /\ WidthOf(Output) <= limit
        /\ Output = TailBytes(all, Len(Output))
        /\ OutputTruncated <=> Output # all
=============================================================================
