--------------------------------- MODULE IO61 ---------------------------------
(***************************************************************************)
(* io61.cc: a block of a file kept in cbuf, with the file offsets tag (of  *)
(* cbuf[0]), end (past the valid bytes) and pos (of the next byte).  Below *)
(* is the system: a file with an offset, or a pipe; any of its reads and   *)
(* writes may fail, those of a pipe may stop short.                        *)
(*                                                                         *)
(* The user keeps to what the code supports: a file is opened either to be *)
(* read or to be written; no seek past the end of a file that is read, none*)
(* back into bytes that still wait to be written.                          *)
(***************************************************************************)
EXTENDS Integers, Sequences

CONSTANTS BufSize,   \* bufsize, 4096 in the code
          Originals, \* the bytes a file may have when it is opened
          Sizes,     \* sizes of the user's reads and writes
          Targets,   \* positions the user seeks to
          Byte,      \* values of a byte
          MaxPos     \* bound on the length of a file

Zero == 0           \* a byte never set
SizeModulus == 65536 \* where size_t wraps, 2^64 in the code

ASSUME IOAssumption ==
  /\ BufSize \in Nat \ {0} /\ MaxPos \in Nat
  /\ Zero \notin Byte
  /\ Originals \subseteq Seq(Byte) /\ \A d \in Originals : Len(d) <= MaxPos
  /\ Sizes \subseteq 1..MaxPos /\ Targets \subseteq 0..MaxPos

VARIABLES disk,     \* the bytes of the file, as the system has them
          offset,   \* the descriptor's offset
          mode,     \* O_RDONLY as "read", O_WRONLY as "write"
          seekable, \* a regular file, or else a pipe
          tag, end, pos, cbuf,
          call,     \* the call in progress: what is left, what was read or is to be written
          answer,   \* what the last read returned, or the result of the last other call
          status    \* "open", "closed" or "aborted"

file == <<mode, seekable>>
tags == <<tag, end, pos>>
vars == <<disk, offset, file, tags, cbuf, call, answer, status>>

Error == <<-1>>
Done == <<>>
Idle == [op |-> "none", asked |-> 0, left |-> 0, data |-> <<>>]

\* the caller's descriptor, and io61_fdopen; cbuf is not initialised
Init ==
  /\ disk \in Originals
  /\ offset = 0
  /\ mode \in {"read", "write"}
  /\ seekable \in BOOLEAN
  /\ (~seekable /\ mode = "write") => disk = <<>>
  /\ tag = 0 /\ end = 0 /\ pos = 0
  /\ cbuf = [i \in 0..BufSize - 1 |-> Zero]
  /\ call = Idle
  /\ answer = Done
  /\ status = "open"

Ready == status = "open" /\ call = Idle
Smaller(a, b) == IF a < b THEN a ELSE b

\* s written over d from offset o on
Overlay(d, o, s) ==
  [i \in 1..(IF s # <<>> /\ o + Len(s) > Len(d) THEN o + Len(s) ELSE Len(d)) |->
     IF i > o /\ i <= o + Len(s) THEN s[i - o] ELSE IF i <= Len(d) THEN d[i] ELSE Zero]
-----------------------------------------------------------------------------
\* How many bytes read(fd, cbuf, bufsize) may give at offset o.
Readable(o) ==
  LET most == Smaller(BufSize, IF o < Len(disk) THEN Len(disk) - o ELSE 0)
  IN  IF seekable \/ most = 0 THEN {most} ELSE 1..most

\* cbuf after n bytes from offset o were read into it
Loaded(o, n) == [i \in 0..BufSize - 1 |-> IF i < n THEN disk[o + i + 1] ELSE cbuf[i]]

\* n bytes at cache_ptr()
FromCache(n) ==
  [i \in 1..n |-> LET k == pos - tag + i - 1 IN IF k < BufSize THEN cbuf[k] ELSE Zero]
DataSize == (end - pos) % SizeModulus

CallRead(n) ==
  /\ Ready /\ mode = "read"
  /\ call' = [op |-> "read", asked |-> n, left |-> n, data |-> <<>>]
  /\ UNCHANGED <<disk, offset, file, tags, cbuf, answer, status>>

ReadReturns(bytes) == call' = Idle /\ answer' = bytes

\* (mutant) The end of the file does not leave the loop.
ReadFill_NoBreak ==
  /\ call.op = "read" /\ call.left > 0 /\ pos = end
  /\ tag' = end /\ pos' = end
  /\ \E n \in Readable(offset) :
       /\ cbuf' = Loaded(offset, n)
       /\ end' = end + n
       /\ offset' = offset + n
  /\ UNCHANGED <<disk, file, call, answer, status>>

\* io61_fill from io61_read, and its two early exits: end of file, and an error
ReadFill ==
  /\ call.op = "read" /\ call.left > 0 /\ pos = end
  /\ tag' = end /\ pos' = end
  /\ \/ \E n \in Readable(offset) :
          /\ cbuf' = Loaded(offset, n)
          /\ end' = end + n
          /\ offset' = offset + n
          /\ IF n = 0 THEN ReadReturns(call.data) ELSE UNCHANGED <<call, answer>>
     \/ /\ ReadReturns(Error)
        /\ UNCHANGED <<cbuf, end, offset>>
  /\ UNCHANGED <<disk, file, status>>

ReadCopy ==
  /\ call.op = "read" /\ call.left > 0 /\ pos # end
  /\ LET n == Smaller(call.left, DataSize)
     IN  /\ call' = [call EXCEPT !.left = @ - n, !.data = @ \o FromCache(n)]
         /\ pos' = pos + n
  /\ UNCHANGED <<disk, offset, file, tag, end, cbuf, answer, status>>

ReadDone ==
  /\ call.op = "read" /\ call.left = 0
  /\ ReadReturns(call.data)
  /\ UNCHANGED <<disk, offset, file, tags, cbuf, status>>
-----------------------------------------------------------------------------
\* the n first bytes of cbuf
Cached(n) == [i \in 1..n |-> cbuf[i - 1]]
\* write(fd, cbuf, n) with nothing left out
Written(n) == disk' = Overlay(disk, offset, Cached(n)) /\ offset' = offset + n

CallWrite(s) ==
  /\ Ready /\ mode = "write"
  /\ pos + Len(s) <= MaxPos
  /\ call' = [op |-> "write", asked |-> 0, left |-> Len(s), data |-> s]
  /\ UNCHANGED <<disk, offset, file, tags, cbuf, answer, status>>

Writing == status = "open" /\ call.op = "write" /\ call.left > 0
Full == end = tag + BufSize

\* io61_flush from io61_write
WriteFlush ==
  /\ Writing /\ Full
  /\ Written(pos - tag)
  /\ tag' = pos
  /\ UNCHANGED <<file, end, pos, cbuf, call, answer, status>>

\* (mutant) The copy ignores how much room the block has.
WriteCopy_Whole ==
  /\ Writing /\ ~Full
  /\ LET n == call.left
         k == pos - tag
     IN  /\ cbuf' = [i \in 0..BufSize - 1 |-> IF k <= i /\ i < k + n THEN call.data[i - k + 1] ELSE cbuf[i]]
         /\ pos' = pos + n
         /\ end' = end + n
         /\ call' = [call EXCEPT !.left = @ - n, !.data = SubSeq(@, n + 1, Len(@))]
  /\ UNCHANGED <<disk, offset, file, tag, answer, status>>

WriteCopy ==
  /\ Writing /\ ~Full
  /\ LET n == Smaller(call.left, BufSize + tag - end)
         k == pos - tag
     IN  /\ cbuf' = [i \in 0..BufSize - 1 |-> IF k <= i /\ i < k + n THEN call.data[i - k + 1] ELSE cbuf[i]]
         /\ pos' = pos + n
         /\ end' = end + n
         /\ call' = [call EXCEPT !.left = @ - n, !.data = SubSeq(@, n + 1, Len(@))]
  /\ UNCHANGED <<disk, offset, file, tag, answer, status>>

WriteDone ==
  /\ status = "open" /\ call.op = "write" /\ call.left = 0
  /\ call' = Idle
  /\ UNCHANGED <<disk, offset, file, tags, cbuf, answer, status>>

\* io61_flush's assertion: write() failed or stopped short, under whichever call flushes.
FlushAsserts ==
  /\ mode = "write" /\ (Ready \/ (Writing /\ Full))
  /\ \E n \in 0..pos - tag - 1 : Written(n)
  /\ status' = "aborted"
  /\ UNCHANGED <<file, tags, cbuf, call, answer>>

Flush ==
  /\ Ready
  /\ IF mode = "write"
     THEN Written(pos - tag) /\ tag' = pos /\ answer' = Done
     ELSE answer' = Error /\ UNCHANGED <<disk, offset, tag>>
  /\ UNCHANGED <<file, end, pos, cbuf, call, status>>

\* (mutant) close without flush
Close_Unflushed ==
  /\ Ready
  /\ answer' = Done
  /\ status' = "closed"
  /\ UNCHANGED <<disk, offset, file, tags, cbuf, call>>

\* what close(2) says of it, which is what io61_close returns
Close ==
  /\ Ready
  /\ IF mode = "write" THEN Written(pos - tag) /\ tag' = pos ELSE UNCHANGED <<disk, offset, tag>>
  /\ answer' \in {Done, Error}
  /\ status' = "closed"
  /\ UNCHANGED <<file, end, pos, cbuf, call>>
-----------------------------------------------------------------------------
Aligned(p) == BufSize * (p \div BufSize)
Inside(p) == tag <= p /\ p <= end

SeekInside(p) ==
  /\ Ready /\ Inside(p)
  /\ mode = "write" => p = pos
  /\ pos' = p
  /\ answer' = Done
  /\ UNCHANGED <<disk, offset, file, tag, end, cbuf, call, status>>

\* (mutant) The seek reads from the position it was given, but labels the block as aligned.
SeekOutside_Unaligned(p) ==
  /\ Ready /\ seekable /\ ~Inside(p)
  /\ mode = "read" => p <= Len(disk)
  /\ tag' = Aligned(p)
  /\ IF mode = "write" THEN disk' = Overlay(disk, offset, Cached(end - tag)) ELSE UNCHANGED disk
  /\ \/ /\ mode = "read"
        /\ \E n \in Readable(p) :
             /\ cbuf' = Loaded(p, n)
             /\ end' = Aligned(p) + n
             /\ offset' = p + n
        /\ pos' = p
        /\ answer' = Done
     \/ /\ end' = Aligned(p) /\ pos' = Aligned(p) /\ offset' = p
        /\ answer' = Error
        /\ UNCHANGED cbuf
  /\ UNCHANGED <<file, call, status>>

\* Out of the block: flush, move to the aligned position and fill from there.  The fill may
\* fail, and does in a file opened for writing.
SeekOutside(p) ==
  /\ Ready /\ seekable /\ ~Inside(p)
  /\ mode = "read" => p <= Len(disk)
  /\ tag' = Aligned(p)
  /\ IF mode = "write" THEN disk' = Overlay(disk, offset, Cached(end - tag)) ELSE UNCHANGED disk
  /\ \/ /\ mode = "read"
        /\ \E n \in Readable(Aligned(p)) :
             /\ cbuf' = Loaded(Aligned(p), n)
             /\ end' = Aligned(p) + n
             /\ offset' = Aligned(p) + n
        /\ pos' = p
        /\ answer' = Done
     \/ /\ end' = Aligned(p) /\ pos' = Aligned(p) /\ offset' = Aligned(p)
        /\ answer' = Error
        /\ UNCHANGED cbuf
  /\ UNCHANGED <<file, call, status>>

\* lseek fails on a pipe, after the rest of the block was given up.
SeekPipe(p) ==
  /\ Ready /\ ~seekable /\ ~Inside(p)
  /\ pos' = end
  /\ answer' = Error
  /\ IF mode = "write" THEN Written(end - tag) /\ tag' = end ELSE UNCHANGED <<disk, offset, tag>>
  /\ UNCHANGED <<file, end, cbuf, call, status>>

LoopStep == ReadFill \/ ReadCopy \/ ReadDone \/ WriteFlush \/ WriteCopy \/ WriteDone

Next ==
  \/ LoopStep \/ FlushAsserts \/ Flush \/ Close
  \/ \E n \in Sizes : CallRead(n) \/ \E s \in [1..n -> Byte] : CallWrite(s)
  \/ \E p \in Targets : SeekInside(p) \/ SeekOutside(p) \/ SeekPipe(p)

Spec == Init /\ [][Next]_vars
\* A call's loop goes on, the system answers; the user need not make another call.
FairSpec == Spec /\ WF_vars(LoopStep)
-----------------------------------------------------------------------------
\* Types; the valid bytes are at most one block.
TypeOK ==
  /\ disk \in Seq(Byte \cup {Zero}) /\ offset \in Nat
  /\ mode \in {"read", "write"} /\ seekable \in BOOLEAN
  /\ tag \in Nat /\ pos \in Nat /\ end \in tag..tag + BufSize
  /\ cbuf \in [0..BufSize - 1 -> Byte \cup {Zero}]
  /\ call \in [op : {"none", "read", "write"}, asked : Nat, left : Nat, data : Seq(Byte \cup {Zero})]
  /\ answer \in Seq(Byte \cup {Zero}) \cup {Error}
  /\ status \in {"open", "closed", "aborted"}

\* The tags agree with the descriptor between any two system calls: a block that was read ends
\* at the descriptor's offset and holds the file's bytes, one that is written starts at it and
\* has no byte after the pointer (io61_check_invariants and io61_check_write_invariants, whose
\* assertions are commented out); no block outgrows its buffer.
CacheAtOffset ==
  /\ TypeOK
  /\ status = "open" =>
       /\ tag <= pos /\ pos <= end
       /\ mode = "read" => offset = end /\ \A i \in 0..end - tag - 1 : cbuf[i] = disk[tag + i + 1]
       /\ mode = "write" => offset = tag /\ pos = end

\* what the user sees: the file under the bytes not yet written
Content ==
  IF status = "closed" \/ mode = "read" THEN disk
  ELSE LET kept == IF status = "aborted" THEN Overlay(disk, tag, Cached(pos - tag))
                   ELSE Overlay(disk, offset, Cached(pos - tag))
       IN  Overlay(kept, pos, call.data)

F == INSTANCE File WITH
       content <- Content,
       stored  <- disk,
       at      <- IF mode = "read" THEN pos - Len(call.data) ELSE pos + call.left,
       asked   <- call.asked

\* Reads and writes through the cache, in blocks, with seeks, errors, pipes and short reads, are
\* those of a plain file pointer.
ImplementsFile == F!FileSpec

\* The loops of io61_read and io61_write end, unless an assertion ends the program.
CallsReturn == (call # Idle) ~> (call = Idle \/ status = "aborted")
=============================================================================
