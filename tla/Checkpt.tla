------------------------------ MODULE Checkpt -------------------------------
(***************************************************************************)
(* Checkpoint and restore streams (fd_checkpt): a Checkpt writes frames,   *)
(* each a sequence of buffers in one style; a Restore opens a frame at an  *)
(* offset and reads buffers back in the same order.                        *)
(*                                                                         *)
(* The library is external.  Any call may fail (a full file, an I/O error, *)
(* a wrong style or offset): inside a frame, or in opening and closing     *)
(* one, that leaves the object failed, and it can only be dropped.  A call *)
(* in the wrong state (a frame is open, none is, the object has failed) is *)
(* refused and changes nothing.  The wrappers hand the error on and keep   *)
(* no state of their own.  Offsets count buffers.                          *)
(***************************************************************************)
EXTENDS Integers, Sequences, FiniteSets

CONSTANTS
  Buffers,    \* the contents checkpointed
  FileMax,    \* the buffers a memory-mapped file holds
  FrameBound, \* bound on the frames written
  Supported   \* the styles the library was built with

ASSUME CheckptAssumption == FileMax \in Nat /\ FrameBound \in Nat /\ Supported \subseteq {"raw", "lz4"}

VARIABLES
  writer,     \* "none", "idle", "frame", "failed" or "done"
  ckStyle,      \* style of the open frame
  ckStart,      \* offset at which it was opened
  ckFile,       \* the buffers written, each with the style of its frame
  ckIndex,      \* frames closed so far: [lo, hi, style], by offset, as close_frame returned them
  reader,     \* "none", "idle", "frame" or "failed"
  rAt,         \* offset of the reader
  rStyle,     \* style of the frame the reader has opened
  readFrame,  \* the frame of index it was told to read
  got         \* the buffers restored from that frame

checkptVars == <<writer, ckStyle, ckStart, ckFile, ckIndex, reader, rAt, rStyle, readFrame, got>>

Styles   == {"raw", "lz4"}
NoFrame  == [lo |-> 0, hi |-> 0, style |-> "raw"]

CheckptTypeOK ==
  /\ writer \in {"none", "idle", "frame", "failed", "done"} /\ ckStyle \in Styles
  /\ reader \in {"none", "idle", "frame", "failed"} /\ rStyle \in Styles
  /\ ckFile \in Seq([data: Buffers, style: Styles]) /\ Len(ckFile) <= FileMax
  /\ ckStart \in 0..FileMax /\ rAt \in 0..FileMax
  /\ ckIndex \cup {readFrame} \subseteq [lo: 0..FileMax, hi: 0..FileMax, style: Styles]
  /\ got \in Seq(Buffers)

CheckptInit ==
  /\ writer = "none" /\ ckStyle = "raw" /\ ckStart = 0 /\ ckFile = <<>> /\ ckIndex = {}
  /\ reader = "none" /\ rAt = 0 /\ rStyle = "raw" /\ readFrame = NoFrame /\ got = <<>>

Reading == <<reader, rAt, rStyle, readFrame, got>>
Writing == <<writer, ckStyle, ckStart, ckFile, ckIndex>>

-----------------------------------------------------------------------------
\* new_stream or new_mmio; when it fails there is no value.
CheckptNew ==
  /\ writer = "none" /\ writer' = "idle"
  /\ UNCHANGED <<ckStyle, ckStart, ckFile, ckIndex, Reading>>

\* open_frame: a style that is not supported is refused before the library is asked.
CheckptOpen(s) ==
  /\ s \in Supported
  /\ \/ /\ writer = "idle" /\ Cardinality(ckIndex) < FrameBound
        /\ writer' = "frame" /\ ckStyle' = s /\ ckStart' = Len(ckFile)
     \/ writer = "idle" /\ writer' = "failed" /\ UNCHANGED <<ckStyle, ckStart>>
     \/ writer # "idle" /\ UNCHANGED <<writer, ckStyle, ckStart>>
  /\ writer # "none" /\ writer # "done" /\ UNCHANGED <<ckFile, ckIndex, Reading>>

\* checkpoint_meta and checkpoint_data.
CheckptData(b) ==
  /\ \/ /\ writer = "frame" /\ Len(ckFile) < FileMax
        /\ ckFile' = Append(ckFile, [data |-> b, style |-> ckStyle]) /\ UNCHANGED writer
     \/ writer = "frame" /\ writer' = "failed" /\ UNCHANGED ckFile
     \/ writer \in {"idle", "failed"} /\ UNCHANGED <<writer, ckFile>>
  /\ UNCHANGED <<ckStyle, ckStart, ckIndex, Reading>>

\* close_frame returns the end of the frame, or an error and no offset.
CheckptClose ==
  /\ \/ /\ writer = "frame" /\ writer' = "idle"
        /\ ckIndex' = ckIndex \cup {[lo |-> ckStart, hi |-> Len(ckFile), style |-> ckStyle]}
     \/ writer = "frame" /\ writer' = "failed" /\ UNCHANGED ckIndex
     \/ writer \in {"idle", "failed"} /\ UNCHANGED <<writer, ckIndex>>
  /\ UNCHANGED <<ckStyle, ckStart, ckFile, Reading>>

CheckptDrop ==
  /\ writer \in {"idle", "frame", "failed"}
  /\ writer' = "done"
  /\ UNCHANGED <<ckStyle, ckStart, ckFile, ckIndex, Reading>>

-----------------------------------------------------------------------------
RestoreNew ==
  /\ writer = "done" /\ reader = "none" /\ reader' = "idle"
  /\ UNCHANGED <<rAt, rStyle, readFrame, got, Writing>>

\* seek, to an offset at which a frame was opened.
RestoreSeek(f) ==
  /\ \/ reader = "idle" /\ rAt' = f.lo /\ UNCHANGED reader
     \/ reader = "idle" /\ reader' = "failed" /\ UNCHANGED rAt
     \/ reader \in {"frame", "failed"} /\ UNCHANGED <<reader, rAt>>
  /\ UNCHANGED <<rStyle, readFrame, got, Writing>>

\* open_frame, where the reader is: behind a seek, a frame that was read to its end, or one
\* that was not.  The caller names the style, which the wrapper does not check.
RestoreOpen(s) ==
  LET here == {f \in ckIndex : f.lo = rAt}
  IN  /\ \/ /\ reader = "idle" /\ reader' = "frame" /\ rStyle' = s /\ got' = <<>>
            /\ IF here = {} THEN readFrame' = [NoFrame EXCEPT !.lo = rAt, !.hi = rAt]
                            ELSE readFrame' \in here
         \/ reader = "idle" /\ reader' = "failed" /\ UNCHANGED <<rStyle, got, readFrame>>
         \/ reader \in {"frame", "failed"} /\ UNCHANGED <<reader, rStyle, got, readFrame>>
      /\ UNCHANGED <<rAt, Writing>>

\* restore_meta and restore_data: past the end of what was written, or in a style other
\* than that of the frame, the library fails.
RestoreData ==
  /\ \/ /\ reader = "frame" /\ rAt < Len(ckFile) /\ ckFile[rAt + 1].style = rStyle
        /\ got' = Append(got, ckFile[rAt + 1].data) /\ rAt' = rAt + 1 /\ UNCHANGED reader
     \/ reader = "frame" /\ reader' = "failed" /\ UNCHANGED <<got, rAt>>
     \/ reader \in {"idle", "failed"} /\ UNCHANGED <<reader, got, rAt>>
  /\ UNCHANGED <<rStyle, readFrame, Writing>>

RestoreClose ==
  /\ \/ reader = "frame" /\ reader' \in {"idle", "failed"}
     \/ reader \in {"idle", "failed"} /\ UNCHANGED reader
  /\ UNCHANGED <<rAt, rStyle, readFrame, got, Writing>>

CheckptNext ==
  \/ CheckptNew \/ CheckptClose \/ CheckptDrop
  \/ \E s \in Styles : CheckptOpen(s)
  \/ \E b \in Buffers : CheckptData(b)
  \/ RestoreNew \/ RestoreData \/ RestoreClose
  \/ \E f \in ckIndex : RestoreSeek(f)
  \/ \E s \in Styles : RestoreOpen(s)

CheckptSpec == CheckptInit /\ [][CheckptNext]_checkptVars

-----------------------------------------------------------------------------
\* What a reader has restored from a frame are the buffers written in it, in order, for
\* as long as it asks for no more than the frame holds, and the frames whose close was
\* reported do not overlap: calls that fail or come in the wrong state, before, between
\* and after them, spoil nothing.  This rests on the library as it is described above.
RestoredIsWritten ==
  /\ LET n == readFrame.hi - readFrame.lo
     IN  \A i \in 1..Len(got) : i <= n => got[i] = ckFile[readFrame.lo + i].data
                                          /\ ckFile[readFrame.lo + i].style = readFrame.style
  /\ \A f, g \in ckIndex : f # g => f.hi <= g.lo \/ g.hi <= f.lo
=============================================================================
