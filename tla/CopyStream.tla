------------------------------ MODULE CopyStream ------------------------------
(***************************************************************************)
(* The copy stream (pigeonhole/copy_stream.go): an application has the     *)
(* daemon turn payloads and ranges of tombstones into courier envelopes    *)
(* (client/pigeonhole.go), in any number of calls, and writes the elements *)
(* it gets back to boxes; a courier reads the boxes and takes the          *)
(* envelopes out again (courier/server/plugin.go).                         *)
(*                                                                         *)
(* A byte is <<envelope, position>>: a length prefix, then the envelope.   *)
(* Every envelope has the same length, which the geometry fixes.           *)
(***************************************************************************)
EXTENDS Integers, Sequences, FiniteSets, TLC
LOCAL INSTANCE SequencesExt

CONSTANTS
    PrefixLength,       \* 4
    ElementOverhead,    \* CopyStreamElementOverhead, 5
    CsBudgets           \* box: MaxPlaintextPayloadLength; envelope: its length; calls, counts, kinds

VARIABLES
    csBudget,
    held,       \* the encoder's buffer, which the application keeps between calls
    made,       \* number of envelopes so far
    boxes,      \* the elements that the application wrote, in order
    progress,   \* [n: calls so far, ended, empty: the last call had nothing to flush,
                \*  forfeited: a call dropped the buffer]
    copier      \* the courier

csVars == <<csBudget, held, made, boxes, progress, copier>>

\* An element has to fit a box.
MaxChunkSize == csBudget.box - ElementOverhead

EnvelopeSize == PrefixLength + csBudget.envelope

\* AddEnvelope appends these to the buffer.
Serialize(k) == [i \in 1..EnvelopeSize |-> <<k, i>>]
Serialized(from, to) == FlattenSeq([j \in 1..(to - from) |-> Serialize(from + j)])

CsInit ==
    /\ csBudget \in CsBudgets
    /\ held = <<>> /\ made = 0 /\ boxes = <<>>
    /\ progress = [n |-> 0, ended |-> FALSE, empty |-> FALSE, forfeited |-> FALSE]
    /\ copier = [at |-> "off", box |-> 0, buffer |-> <<>>, envelopes |-> <<>>]

----------------------------------------------------------------------------
(* The encoder. *)

Bug_CompleteChunks(buffer) == Len(buffer) \div MaxChunkSize

\* Full chunks are taken off as long as something remains for the final element.
CompleteChunks(buffer) == (Len(buffer) - 1) \div MaxChunkSize

Chunk(buffer, i) == SubSeq(buffer, (i - 1) * MaxChunkSize + 1,
                           IF i * MaxChunkSize < Len(buffer) THEN i * MaxChunkSize ELSE Len(buffer))

\* The first n chunks as elements; the very first one of the stream is marked.
Elements(buffer, n, isStart) ==
    [i \in 1..n |-> [start |-> isStart /\ i = 1, final |-> FALSE, data |-> Chunk(buffer, i)]]

\* extractElements
Extract(buffer, isStart) == IF buffer = <<>> THEN <<>> ELSE Elements(buffer, CompleteChunks(buffer), isStart)
Residue(buffer) == IF buffer = <<>> THEN <<>> ELSE SubSeq(buffer, CompleteChunks(buffer) * MaxChunkSize + 1, Len(buffer))

\* FlushWithoutFinal, after all envelopes are added
FlushAll(buffer, isStart) ==
    IF buffer = <<>> THEN <<>>
    ELSE Elements(buffer, (Len(buffer) + MaxChunkSize - 1) \div MaxChunkSize, isStart)

\* Flush: the last element is marked, if there is one.
Flush(buffer, isStart) ==
    LET all == FlushAll(buffer, isStart)
    IN  IF all = <<>> THEN <<>> ELSE [all EXCEPT ![Len(all)].final = TRUE]

----------------------------------------------------------------------------
(* The daemon's handlers, called by the application.  They keep no state,  *)
(* so one that fails returns an error and changes nothing.                 *)

Write(elements) == boxes' = boxes \o elements
Called(isLast, buffer) ==
    progress' = [progress EXCEPT !.n = @ + 1, !.ended = isLast, !.empty = isLast /\ buffer = <<>>]
MayCall(kind) == kind \in csBudget.kinds /\ progress.n < csBudget.calls /\ ~progress.ended

\* createCourierEnvelopesFromPayload: a fresh encoder that keeps nothing back.  It takes no buffer,
\* so it has its place only where the application holds none.
FromPayload(n, isLast) ==
    /\ MayCall("payload") /\ held = <<>>
    /\ LET buffer == Serialized(made, made + n)
       IN  /\ Write(IF isLast THEN Flush(buffer, progress.n = 0) ELSE FlushAll(buffer, progress.n = 0))
           /\ Called(isLast, buffer)
    /\ made' = made + n
    /\ UNCHANGED <<csBudget, held, copier>>

\* createCourierEnvelopesFromPayloads, and the rest of createCourierEnvelopesFromTombstoneRange: the
\* encoder goes on with the buffer of the call before.
Continue(n, isLast) ==
    LET buffer == held \o Serialized(made, made + n)
    IN  /\ Write(IF isLast THEN Flush(buffer, progress.n = 0) ELSE Extract(buffer, progress.n = 0))
        /\ held' = IF isLast THEN <<>> ELSE Residue(buffer)
        /\ Called(isLast, buffer)
        /\ made' = made + n
        /\ UNCHANGED <<csBudget, copier>>

FromPayloads(n, isLast) == MayCall("payloads") /\ Continue(n, isLast)

\* A range of no tombstones is answered before the buffer is looked at, and with no buffer.
FromTombstoneRange(n, isLast) ==
    /\ MayCall("tombstones")
    /\ \/ n > 0 /\ Continue(n, isLast)
       \/ /\ n = 0
          /\ progress' = [progress EXCEPT !.n = @ + 1, !.ended = isLast, !.empty = isLast,
                                  !.forfeited = @ \/ held # <<>>]
          /\ held' = <<>>
          /\ UNCHANGED <<csBudget, made, boxes, copier>>

----------------------------------------------------------------------------
(* The courier. *)

\* A Copy command is sent once the stream is written.
StartCopy ==
    /\ progress.ended /\ copier.at = "off"
    /\ copier' = [copier EXCEPT !.at = "reading"]
    /\ UNCHANGED <<csBudget, held, made, boxes, progress>>

\* The loop of DecodeEnvelopes over the accumulated chunks.  Where no length prefix starts, what is
\* read for a length or an envelope is malformed.
Decode(buffer) ==
    LET n == Len(buffer) \div EnvelopeSize
        at(j) == SubSeq(buffer, (j - 1) * EnvelopeSize + 1, j * EnvelopeSize)
    IN  [ok |-> \A j \in 1..n : at(j) = Serialize(at(j)[1][1]), envelopes |-> [j \in 1..n |-> at(j)[1][1]],
         rest |-> SubSeq(buffer, n * EnvelopeSize + 1, Len(buffer))]

\* An iteration of processCopyCommand: read a box, decode its element, send the complete envelopes.
\* A box that was not written, or an element larger than a box, fails the command.  (The limits on
\* boxes and envelopes are above what a budget has.)
ReadBox ==
    /\ copier.at = "reading"
    /\ copier' =
         IF copier.box = Len(boxes) THEN [copier EXCEPT !.at = "failed"]
         ELSE LET e == boxes[copier.box + 1]
                  d == Decode(copier.buffer \o e.data)
              IN  IF Len(e.data) + ElementOverhead > csBudget.box \/ ~d.ok THEN [copier EXCEPT !.at = "failed"]
                  ELSE [at |-> IF e.final THEN "done" ELSE "reading", box |-> copier.box + 1, buffer |-> d.rest,
                        envelopes |-> copier.envelopes \o d.envelopes]
    /\ UNCHANGED <<csBudget, held, made, boxes, progress>>

\* The replicas do not answer for a box, or reject an envelope: those before it are copied.
CopyFails ==
    /\ copier.at = "reading" /\ copier.box < Len(boxes)
    /\ LET d == Decode(copier.buffer \o boxes[copier.box + 1].data)
       IN  /\ d.ok
           /\ \E k \in 0..Len(d.envelopes) :
                 copier' = [copier EXCEPT !.at = "aborted", !.envelopes = @ \o SubSeq(d.envelopes, 1, k)]
    /\ UNCHANGED <<csBudget, held, made, boxes, progress>>

CsNext ==
    \/ \E n \in csBudget.counts, isLast \in BOOLEAN :
          FromPayload(n, isLast) \/ FromPayloads(n, isLast) \/ FromTombstoneRange(n, isLast)
    \/ StartCopy \/ ReadBox \/ CopyFails

CsSpec == CsInit /\ [][CsNext]_csVars

----------------------------------------------------------------------------
(* Properties. *)

\* What is in the boxes and in the buffer that the application holds is, at every moment, the
\* serialization of all envelopes so far, however the calls were cut; except after a call for no
\* tombstones that was given a buffer.
NothingLostBetweenCalls ==
    progress.forfeited \/ FlattenSeq([i \in DOMAIN boxes |-> boxes[i].data]) \o held = Serialized(0, made)

\* Every element fits a box and none is empty; the calls that continue a buffer leave no box partly
\* filled before the last; only the first is marked as the start and only the last as the final one.
BoxesFilled ==
    \A i \in DOMAIN boxes :
        /\ boxes[i].data # <<>> /\ Len(boxes[i].data) + ElementOverhead <= csBudget.box
        /\ boxes[i].start => i = 1
        /\ boxes[i].final => progress.ended /\ i = Len(boxes)
        /\ i < Len(boxes) /\ "payload" \notin csBudget.kinds => Len(boxes[i].data) = MaxChunkSize

\* The courier sees the envelopes in order, each once, and at the end all of them with nothing left
\* over: a Copy command that succeeds has copied the whole stream.  For want of a final element one
\* fails only if the last call had nothing to mark, which a call that continues a buffer always has
\* once there is an envelope.
CopiedInOrder ==
    ~progress.forfeited =>
        /\ copier.envelopes = [j \in DOMAIN copier.envelopes |-> j]
        /\ copier.at = "done" => Len(copier.envelopes) = made /\ copier.buffer = <<>> /\ copier.box = Len(boxes)
        /\ copier.at = "failed" => progress.empty /\ (made = 0 \/ "payload" \in csBudget.kinds)

\* A stream encoded over any number of calls fills its boxes, loses nothing in the buffer between
\* calls, and is read back by the courier as the same envelopes in the same order, unless a call for
\* no tombstones was given a buffer (CopyStreamEncoder, CopyStreamEnvelopeDecoder).
StreamSound == NothingLostBetweenCalls /\ BoxesFilled /\ CopiedInOrder
=============================================================================
