--------------------------------- MODULE Zstd ---------------------------------
(***************************************************************************)
(* Streaming decompression (fd_zstd) and decompress_all, the loop that     *)
(* runs a stream over a whole buffer.  Compressed data is a sequence of    *)
(* frames, each of a number of compressed bytes, of content bytes and a    *)
(* window; the last frame may be cut short.  The C decompressor is         *)
(* external: a read takes some of the input of the current frame and       *)
(* writes some of its content, and it keeps the last input byte of a frame *)
(* until all of the content is written.                                    *)
(***************************************************************************)
EXTENDS Integers, Sequences, FiniteSetsExt

CONSTANTS
    ZFrames,      \* the frames of a run: records of packed, content and window
    FramesMax,    \* bound: the frames in a buffer
    ChunkSize,    \* the room of temp_buffer
    HeaderMin,    \* the bytes below which there is no frame at all
    OutputMax     \* bound: max_output_size of a call

ASSUME ZstdAssumption ==
    /\ {FramesMax, ChunkSize, HeaderMin, OutputMax} \subseteq Nat \ {0}
    /\ ZFrames \subseteq [packed : Nat \ {0}, content : Nat, window : Nat]

VARIABLES
    packed,      \* the compressed data: its frames, and how many bytes of the last are missing
    dstream,     \* the C stream: "none", or its window
    zmem,        \* the memory of the DecompressionStream: "none" or "held"
    zAt,         \* the frame being read, its bytes consumed and its content written
    zOut,      \* bytes in the output vector
    zLimit,       \* max_output_size
    unpack       \* "idle", "loop", "ok" or the error decompress_all returned

zstdVars == <<packed, dstream, zmem, zAt, zOut, zLimit, unpack>>

NoData == [frames |-> <<>>, cut |-> 0]
FirstFrame == [frame |-> 1, in |-> 0, out |-> 0]

ZInit ==
    /\ packed = NoData /\ dstream = -1 /\ zmem = "none"
    /\ zAt = FirstFrame /\ zOut = 0 /\ zLimit = 0 /\ unpack = "idle"

\* The sums of a sequence of sizes: Totals(a)[n] is what the first n come to.
Totals(a) == LET total[n \in 0..Len(a)] == IF n = 0 THEN 0 ELSE total[n - 1] + a[n] IN total

\* The content of the first n frames.
Content(frames, n) == Totals([i \in 1..Len(frames) |-> frames[i].content])[n]

\* The bytes of frame i that the buffer holds, and of the first n frames.
ZHeld(i) == packed.frames[i].packed - (IF i = Len(packed.frames) THEN packed.cut ELSE 0)
HeldUpTo(n) == Totals([i \in 1..Len(packed.frames) |-> ZHeld(i)])[n]
ZLeft == IF zAt.frame > Len(packed.frames) THEN 0
         ELSE HeldUpTo(Len(packed.frames)) - HeldUpTo(zAt.frame - 1) - zAt.in

\* FramePeek::new: no bytes are UnexpectedEof, a header the C code cannot read InvalidInput.
FramePeek(frames, readable) ==
    IF frames = <<>> THEN "UnexpectedEof" ELSE IF readable THEN "ok" ELSE "InvalidInput"

\* DecompressionStream::new: a window without a valid layout, no memory, and a C stream
\* that cannot be made in the memory, which is given back.
StreamResults == {"ok", "InvalidInput", "AllocationFailed", "InternalError"}

(***************************************************************************)
(* decompress_all up to its loop: the size check, the peek at the first    *)
(* frame, and DecompressionStream::new with that frame's window.           *)
(***************************************************************************)
DecompressAll(frames, cut, max, made) ==
    /\ unpack = "idle"
    /\ packed' = [frames |-> frames, cut |-> cut] /\ zLimit' = max
    /\ LET size == Totals([i \in 1..Len(frames) |-> frames[i].packed])[Len(frames)] - cut
           peek == FramePeek(frames, Len(frames) = 1 => cut < frames[1].packed - 1)
       IN  IF size < HeaderMin
           THEN unpack' = "UnexpectedEof" /\ UNCHANGED <<dstream, zmem>>
           ELSE IF peek # "ok" \/ made # "ok"
           THEN unpack' = (IF peek # "ok" THEN peek ELSE made) /\ UNCHANGED <<dstream, zmem>>
           ELSE unpack' = "loop" /\ dstream' = frames[1].window /\ zmem' = "held"
    /\ UNCHANGED <<zAt, zOut>>

\* Drop of the DecompressionStream when decompress_all returns: the C stream, then the memory.
ZReturn(answer) ==
    /\ unpack' = answer /\ dstream' = -1 /\ zmem' = "none"

(***************************************************************************)
(* One round of the loop: read takes `in` bytes of the frame and writes    *)
(* `out`; the output is checked against the limit before it is copied; a   *)
(* complete frame resets the stream for the next one; a round that did     *)
(* nothing is an error.  The loop ends when no input is left, whether or   *)
(* not the frame was complete.                                             *)
(***************************************************************************)
ReadLoop(in, out) ==
    LET f     == packed.frames[zAt.frame]
        done  == zAt.in + in = f.packed /\ zAt.out + out = f.content
    IN  /\ unpack = "loop" /\ ZLeft > 0
        /\ in <= ZHeld(zAt.frame) - zAt.in /\ out <= f.content - zAt.out /\ out <= ChunkSize
        /\ f.window <= dstream
        /\ zAt.in + in = f.packed => zAt.out + out = f.content
        /\ in = 0 /\ out = 0 => (zAt.in = ZHeld(zAt.frame) /\ zAt.out = f.content)
        /\ zAt' = IF done THEN [frame |-> zAt.frame + 1, in |-> 0, out |-> 0]
                 ELSE [zAt EXCEPT !.in = @ + in, !.out = @ + out]
        /\ IF zOut + out > zLimit THEN ZReturn("InsufficientBuffer") /\ UNCHANGED zOut
           ELSE /\ zOut' = zOut + out
                /\ IF ZLeft = in THEN ZReturn("ok")
                   ELSE IF in = 0 /\ out = 0 THEN ZReturn("InternalError")
                   ELSE UNCHANGED <<unpack, dstream, zmem>>
        /\ UNCHANGED <<packed, zLimit>>

\* A frame whose window is larger than the one the stream was made for, or damaged data:
\* the C stream answers EPROTO.
ReadFails ==
    /\ unpack = "loop" /\ ZLeft > 0
    /\ packed.frames[zAt.frame].window > dstream
    /\ ZReturn("ProtocolError")
    /\ UNCHANGED <<packed, zAt, zOut, zLimit>>

ZNext ==
    \/ \E n \in 0..FramesMax : \E frames \in [1..n -> ZFrames], max \in 0..OutputMax, made \in StreamResults :
          \E cut \in 0..(IF n = 0 THEN 0 ELSE frames[n].packed - 1) : DecompressAll(frames, cut, max, made)
    \/ \E in, out \in 0..Max({f.packed : f \in ZFrames} \cup {f.content : f \in ZFrames}) : ReadLoop(in, out)
    \/ ReadFails

\* decompress_all runs its loop to the end: nothing in it waits.
ZFairness == WF_zstdVars(ReadFails \/ \E in, out \in 0..Max({f.packed : f \in ZFrames} \cup {f.content : f \in ZFrames}) : ReadLoop(in, out))

ZSpec == ZInit /\ [][ZNext]_zstdVars /\ ZFairness

----------------------------------------------------------------------------
ZTypeOK == unpack \in {"idle", "loop", "ok", "UnexpectedEof", "InvalidInput", "AllocationFailed",
                       "InsufficientBuffer", "ProtocolError", "InternalError"}

(***************************************************************************)
(* decompress_all returns the content of every frame of the buffer, in     *)
(* full, when the buffer ends where a frame does, and never more than the  *)
(* limit; the stream and its memory live exactly as long as the loop.  For *)
(* a buffer that was cut short the content of the complete frames is       *)
(* there; the call succeeds all the same.                                  *)
(***************************************************************************)
UnpackedWhole ==
    /\ (zmem = "held") = (unpack = "loop") /\ (dstream = -1) = (zmem = "none")
    /\ zOut <= zLimit
    /\ unpack = "ok" =>
          /\ zOut <= Content(packed.frames, Len(packed.frames))
          /\ packed.cut = 0 => zOut = Content(packed.frames, Len(packed.frames))
          /\ zOut >= Content(packed.frames, Len(packed.frames) - 1)

\* The loop ends: every round takes input or writes content, or the call fails.
UnpackEnds == unpack = "loop" ~> unpack # "loop"
=============================================================================
