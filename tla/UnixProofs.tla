------------------------------ MODULE UnixProofs ------------------------------
(***************************************************************************)
(* The two problem sets over Unix.  The cache of io61.cc, for every block  *)
(* size, file and sequence of calls: its tags agree with the descriptor,   *)
(* and what its user sees is a plain file pointer (File).  The shell of    *)
(* sh61.cc, for whatever the user types and the programs do: lists run as  *)
(* they read, and the prompt is clean.                                     *)
(***************************************************************************)
EXTENDS IO61, Sh61, FiniteSetTheorems, SequenceTheorems, WellFoundedInduction, TLAPS

-----------------------------------------------------------------------------
(* The inductive invariant: CacheAtOffset and what its parts rest on.      *)

\* A call in progress fits the way the file was opened, and the file is open, or was when a
\* flush under the call failed.
CallFits ==
  /\ call.op = "none" => call = Idle
  /\ call.op = "read" => mode = "read" /\ status = "open" /\ call.asked = Len(call.data) + call.left
  /\ call.op = "write" => mode = "write" /\ status # "closed" /\ call.asked = 0
                          /\ call.left = Len(call.data)

\* What a read has gathered so far are the bytes just before the pointer.
Gathered ==
  call.op = "read" =>
    /\ call.asked \in 1 .. MaxPos /\ Len(call.data) <= pos
    /\ \A i \in 1 .. Len(call.data) : call.data[i] = disk[pos - Len(call.data) + i]

\* The pointer is in the block, and neither leaves the file that is read.
Bounded ==
  /\ tag <= pos /\ pos <= end
  /\ mode = "read" => end <= Len(disk) /\ Len(disk) <= MaxPos
  /\ mode = "write" => pos + call.left <= MaxPos

IInv == CacheAtOffset /\ CallFits /\ Gathered /\ Bounded

-----------------------------------------------------------------------------
(* Sequences of bytes.                                                     *)
Bytes == Byte \cup {Zero}

\* A sequence is its length and its elements.
LEMMA SeqIs ==
  /\ \A s \in Seq(Bytes) : /\ Len(s) \in Nat /\ DOMAIN s = 1 .. Len(s) /\ s \in [1 .. Len(s) -> Bytes]
                           /\ \A i \in 1 .. Len(s) : s[i] \in Bytes
                           /\ s = <<>> <=> Len(s) = 0
  /\ \A n \in Nat : \A s \in [1 .. n -> Bytes] : s \in Seq(Bytes) /\ Len(s) = n
<1>1. \A s \in Seq(Bytes) : /\ Len(s) \in Nat /\ DOMAIN s = 1 .. Len(s) /\ s \in [1 .. Len(s) -> Bytes]
                            /\ \A i \in 1 .. Len(s) : s[i] \in Bytes
                            /\ s = <<>> <=> Len(s) = 0
  BY LenProperties, ElementOfSeq, EmptySeq
<1>2. ASSUME NEW n \in Nat, NEW s \in [1 .. n -> Bytes] PROVE s \in Seq(Bytes) /\ Len(s) = n
  <2>1. s \in Seq(Bytes)
    BY SeqDef
  <2>2. 1 .. Len(s) = 1 .. n /\ Len(s) \in Nat
    BY <1>1, <2>1
  <2>3. QED
    BY <2>1, <2>2
<1>3. QED
  BY <1>1, <1>2

\* Two sequences of the same length and elements are the same.
LEMMA SeqSame ==
  ASSUME NEW s \in Seq(Bytes), NEW t \in Seq(Bytes), Len(s) = Len(t),
         \A i \in 1 .. Len(s) : s[i] = t[i]
  PROVE  s = t
BY SeqIs, SeqEqual

\* What a write at an offset leaves of the bytes below it.
LEMMA OverlayIs ==
  ASSUME NEW d \in Seq(Bytes), NEW o \in Nat, NEW s \in Seq(Bytes)
  PROVE  /\ Overlay(d, o, s) \in Seq(Bytes)
         /\ Len(Overlay(d, o, s)) = IF s # <<>> /\ o + Len(s) > Len(d) THEN o + Len(s) ELSE Len(d)
         /\ \A i \in 1 .. Len(Overlay(d, o, s)) :
              Overlay(d, o, s)[i] = IF i > o /\ i <= o + Len(s) THEN s[i - o]
                                    ELSE IF i <= Len(d) THEN d[i] ELSE Zero
<1> DEFINE n == IF s # <<>> /\ o + Len(s) > Len(d) THEN o + Len(s) ELSE Len(d)
           v == Overlay(d, o, s)
<1>1. Len(d) \in Nat /\ Len(s) \in Nat /\ n \in Nat
  BY SeqIs
<1>2. /\ DOMAIN v = 1 .. n
      /\ \A i \in 1 .. n : v[i] = IF i > o /\ i <= o + Len(s) THEN s[i - o]
                                  ELSE IF i <= Len(d) THEN d[i] ELSE Zero
      /\ v = [i \in 1 .. n |-> v[i]]
  BY DEF Overlay
<1>3. ASSUME NEW i \in 1 .. n PROVE v[i] \in Bytes
  <2>1. CASE i > o /\ i <= o + Len(s)
    <3>1. i - o \in 1 .. Len(s)
      BY <1>1, <2>1
    <3>2. QED
      BY <1>2, <2>1, <3>1, SeqIs
  <2>2. CASE ~ (i > o /\ i <= o + Len(s)) /\ i <= Len(d)
    <3>1. i \in 1 .. Len(d)
      BY <1>1, <2>2
    <3>2. QED
      BY <1>2, <2>2, <3>1, SeqIs
  <2>3. CASE ~ (i > o /\ i <= o + Len(s)) /\ ~ (i <= Len(d))
    BY <1>2, <2>3 DEF Bytes
  <2>4. QED
    BY <2>1, <2>2, <2>3
<1>4. v \in [1 .. n -> Bytes]
  BY <1>2, <1>3
<1>5. v \in Seq(Bytes) /\ Len(v) = n
  BY <1>1, <1>4, SeqIs
<1>6. QED
  BY <1>2, <1>5

\* The bytes of the block up to the pointer.
LEMMA CachedIs ==
  ASSUME TypeOK, NEW n \in 0 .. BufSize
  PROVE  /\ Cached(n) \in Seq(Bytes) /\ Len(Cached(n)) = n
         /\ \A i \in 1 .. n : Cached(n)[i] = cbuf[i - 1]
<1>1. BufSize \in Nat /\ n \in Nat /\ cbuf \in [0 .. BufSize - 1 -> Bytes]
  BY IOAssumption DEF TypeOK, Bytes
<1>2. \A i \in 1 .. n : i - 1 \in 0 .. BufSize - 1
  BY <1>1
<1>3. Cached(n) \in [1 .. n -> Bytes] /\ \A i \in 1 .. n : Cached(n)[i] = cbuf[i - 1]
  BY <1>1, <1>2 DEF Cached
<1>4. QED
  BY <1>1, <1>3, SeqIs

\* An empty write leaves what there is.
LEMMA OverlayNothing ==
  ASSUME NEW d \in Seq(Bytes), NEW o \in Nat
  PROVE  Overlay(d, o, <<>>) = d
<1>1. <<>> \in Seq(Bytes) /\ Len(<<>>) = 0 /\ Len(d) \in Nat
  BY SeqIs, EmptySeq
<1>2. /\ Overlay(d, o, <<>>) \in Seq(Bytes) /\ Len(Overlay(d, o, <<>>)) = Len(d)
      /\ \A i \in 1 .. Len(Overlay(d, o, <<>>)) :
           Overlay(d, o, <<>>)[i] = IF i > o /\ i <= o + Len(<<>>) THEN <<>>[i - o]
                                    ELSE IF i <= Len(d) THEN d[i] ELSE Zero
  BY <1>1, OverlayIs
<1>3. \A i \in 1 .. Len(d) : Overlay(d, o, <<>>)[i] = d[i]
  BY <1>1, <1>2
<1>4. QED
  BY <1>2, <1>3, SeqSame

\* What read(2) may give, and where it leaves the block.
LEMMA ReadableIs ==
  ASSUME TypeOK, NEW o \in Nat, NEW n \in Readable(o)
  PROVE  /\ n \in 0 .. BufSize
         /\ n > 0 => o + n <= Len(disk)
         /\ n = 0 => o >= Len(disk)
         /\ seekable => n = BufSize \/ o + n >= Len(disk)
         /\ Loaded(o, n) \in [0 .. BufSize - 1 -> Bytes]
         /\ \A i \in 0 .. n - 1 : Loaded(o, n)[i] = disk[o + i + 1]
<1>1. Len(disk) \in Nat /\ BufSize \in Nat \ {0} /\ disk \in Seq(Bytes)
  BY IOAssumption, SeqIs DEF TypeOK, Bytes
<1>2. /\ n \in 0 .. BufSize
      /\ n > 0 => o + n <= Len(disk)
      /\ n = 0 => o >= Len(disk)
      /\ seekable => n = BufSize \/ o + n >= Len(disk)
  BY <1>1 DEF Readable, Smaller
<1>3. \A i \in 0 .. BufSize - 1 : i < n => o + i + 1 \in 1 .. Len(disk)
  BY <1>1, <1>2
<1>4. \A i \in 0 .. BufSize - 1 : i < n => disk[o + i + 1] \in Bytes
  BY <1>1, <1>3, SeqIs
<1>5. cbuf \in [0 .. BufSize - 1 -> Bytes]
  BY DEF TypeOK, Bytes
<1>6. Loaded(o, n) \in [0 .. BufSize - 1 -> Bytes]
  BY <1>4, <1>5 DEF Loaded
<1>7. \A i \in 0 .. n - 1 : i \in 0 .. BufSize - 1 /\ i < n
  BY <1>1, <1>2
<1>8. \A i \in 0 .. n - 1 : Loaded(o, n)[i] = disk[o + i + 1]
  BY <1>7 DEF Loaded
<1>9. QED
  BY <1>2, <1>6, <1>8

\* Bytes copied out of the block, which never reach past its valid part.
LEMMA FromCacheIs ==
  ASSUME TypeOK, tag <= pos, pos <= end, NEW n \in Nat, n <= end - pos
  PROVE  /\ FromCache(n) \in Seq(Bytes) /\ Len(FromCache(n)) = n
         /\ \A i \in 1 .. n : /\ pos - tag + i - 1 \in 0 .. end - tag - 1
                              /\ FromCache(n)[i] = cbuf[pos - tag + i - 1]
<1>1. BufSize \in Nat /\ tag \in Nat /\ pos \in Nat /\ end \in tag .. tag + BufSize
  BY IOAssumption DEF TypeOK
<1>2. ASSUME NEW i \in 1 .. n
      PROVE  /\ pos - tag + i - 1 \in 0 .. end - tag - 1
             /\ pos - tag + i - 1 \in 0 .. BufSize - 1 /\ pos - tag + i - 1 < BufSize
  BY <1>1
<1>3. cbuf \in [0 .. BufSize - 1 -> Bytes]
  BY DEF TypeOK, Bytes
<1>4. FromCache(n) \in [1 .. n -> Bytes]
  BY <1>2, <1>3 DEF FromCache
<1>5. \A i \in 1 .. n : FromCache(n)[i] = cbuf[pos - tag + i - 1]
  BY <1>2 DEF FromCache
<1>6. QED
  BY <1>2, <1>4, <1>5, SeqIs

\* The start of the block a position is in.
LEMMA AlignedIs ==
  ASSUME NEW p \in Nat
  PROVE  Aligned(p) \in Nat /\ Aligned(p) <= p /\ p < Aligned(p) + BufSize
<1>1. BufSize \in Nat \ {0}
  BY IOAssumption
<1>2. BufSize * (p \div BufSize) <= p
  BY <1>1
<1>3. p < BufSize * (p \div BufSize) + BufSize
  BY <1>1
<1>4. BufSize * (p \div BufSize) \in Nat
  BY <1>1
<1>5. QED
  BY <1>2, <1>3, <1>4 DEF Aligned

\* bufsize and the tags are counts; the invariant's parts in a form the steps use.
LEMMA Counts ==
  ASSUME IInv
  PROVE  /\ BufSize \in Nat \ {0} /\ MaxPos \in Nat
         /\ tag \in Nat /\ pos \in Nat /\ end \in Nat /\ tag <= pos /\ pos <= end /\ end <= tag + BufSize
         /\ offset \in Nat /\ disk \in Seq(Bytes) /\ Len(disk) \in Nat
         /\ call.data \in Seq(Bytes) /\ call.left \in Nat /\ call.asked \in Nat
         /\ Len(call.data) \in Nat
         /\ pos - tag \in 0 .. BufSize /\ end - tag \in 0 .. BufSize
<1>1. TypeOK /\ tag <= pos /\ pos <= end
  BY DEF IInv, CacheAtOffset, Bounded
<1>2. QED
  BY <1>1, IOAssumption, SeqIs DEF TypeOK, Bytes

\* When nothing is called, nothing is asked or gathered.
LEMMA IdleIs ==
  /\ Idle.op = "none" /\ Idle.asked = 0 /\ Idle.left = 0 /\ Idle.data = <<>>
  /\ Idle \in [op : {"none", "read", "write"}, asked : Nat, left : Nat, data : Seq(Bytes)]
BY EmptySeq DEF Idle

\* A copy out of the block takes no more than is asked for, and no more than there is.
LEMMA CopiedIs ==
  ASSUME IInv, NEW n, n = Smaller(call.left, DataSize)
  PROVE  n \in Nat /\ n <= call.left /\ n <= end - pos
<1>1. PICK m : m = end - pos
  OBVIOUS
<1>2. m \in Nat /\ DataSize = m % 65536
  <2>1. m \in Nat
    BY <1>1, Counts, SMTT(30)
  <2>2. DataSize = m % 65536
    BY <1>1 DEF DataSize, SizeModulus
  <2>3. QED
    BY <2>1, <2>2
<1>3. m % 65536 \in Nat /\ m % 65536 <= m
  BY <1>2
<1>4. \A l, k \in Nat : Smaller(l, k) \in Nat /\ Smaller(l, k) <= l /\ Smaller(l, k) <= k
  BY DEF Smaller
<1>5. call.left \in Nat /\ DataSize \in Nat
  BY <1>2, <1>3, Counts
<1>6. n \in Nat /\ n <= call.left /\ n <= DataSize
  BY <1>4, <1>5
<1>7. n <= m
  BY <1>2, <1>3, <1>5, <1>6
<1>8. QED
  BY <1>1, <1>6, <1>7

-----------------------------------------------------------------------------
(* io61_read.                                                              *)
LEMMA ReadSteps ==
  ASSUME IInv, ReadFill \/ ReadCopy \/ ReadDone \/ \E n \in Sizes : CallRead(n)
  PROVE  IInv'
<1> USE DEF IInv
<1>1. CASE \E n \in Sizes : CallRead(n)
  <2>1. PICK n \in Sizes : CallRead(n)
    BY <1>1
  <2>2. /\ status = "open" /\ call = Idle /\ mode = "read" /\ n \in 1 .. MaxPos
        /\ call' = [op |-> "read", asked |-> n, left |-> n, data |-> <<>>]
        /\ UNCHANGED <<disk, offset, mode, seekable, tag, end, pos, cbuf, answer, status>>
    BY <2>1, IOAssumption DEF CallRead, Ready, file, tags
  <2>3. Len(<<>>) = 0 /\ <<>> \in Seq(Bytes)
    BY EmptySeq
  <2>4. call' \in [op : {"none", "read", "write"}, asked : Nat, left : Nat, data : Seq(Bytes)]
    BY <2>2, <2>3, IOAssumption
  <2>5. CacheAtOffset'
    BY <2>2, <2>4 DEF CacheAtOffset, TypeOK, Bytes
  <2>6. CallFits' /\ Gathered' /\ Bounded'
    BY <2>2, <2>3, Counts DEF CallFits, Gathered, Bounded
  <2>7. QED
    BY <2>5, <2>6
<1>2. CASE ReadDone
  <2>1. /\ call.op = "read" /\ call.left = 0 /\ call' = Idle /\ answer' = call.data
        /\ UNCHANGED <<disk, offset, mode, seekable, tag, end, pos, cbuf, status>>
    BY <1>2 DEF ReadDone, ReadReturns, file, tags
  <2>2. CacheAtOffset'
    BY <2>1, IdleIs DEF CacheAtOffset, TypeOK, Bytes
  <2>3. CallFits' /\ Gathered' /\ Bounded'
    BY <2>1, IdleIs, Counts DEF CallFits, Gathered, Bounded
  <2>4. QED
    BY <2>2, <2>3
<1>3. CASE ReadFill
  <2>1. /\ call.op = "read" /\ pos = end /\ tag' = end /\ pos' = end
        /\ mode = "read" /\ status = "open" /\ offset = end
        /\ UNCHANGED <<disk, mode, seekable, status>>
    BY <1>3 DEF ReadFill, file, CallFits, CacheAtOffset
  <2>2. CASE \E n \in Readable(offset) :
               /\ cbuf' = Loaded(offset, n) /\ end' = end + n /\ offset' = offset + n
               /\ IF n = 0 THEN ReadReturns(call.data) ELSE UNCHANGED <<call, answer>>
    <3>1. PICK n \in Readable(offset) :
               /\ cbuf' = Loaded(offset, n) /\ end' = end + n /\ offset' = offset + n
               /\ IF n = 0 THEN ReadReturns(call.data) ELSE UNCHANGED <<call, answer>>
      BY <2>2
    <3>2. /\ n \in 0 .. BufSize /\ (n > 0 => offset + n <= Len(disk))
          /\ cbuf' \in [0 .. BufSize - 1 -> Bytes]
          /\ \A i \in 0 .. n - 1 : cbuf'[i] = disk[offset + i + 1]
      BY <3>1, ReadableIs, Counts DEF CacheAtOffset
    <3>3. \/ call' = Idle /\ answer' = call.data
          \/ call' = call /\ answer' = answer
      BY <3>1 DEF ReadReturns
    <3>4. call' \in [op : {"none", "read", "write"}, asked : Nat, left : Nat, data : Seq(Bytes)]
          /\ answer' \in Seq(Bytes) \cup {Error}
      BY <3>3, IdleIs, Counts DEF CacheAtOffset, TypeOK, Bytes
    <3>5. /\ tag' \in Nat /\ pos' \in Nat /\ end' \in tag' .. tag' + BufSize /\ offset' \in Nat
          /\ tag' <= pos' /\ pos' <= end' /\ offset' = end'
          /\ end' - tag' = n
      BY <2>1, <3>1, <3>2, Counts, SMTT(30)
    <3>6. \A i \in 0 .. end' - tag' - 1 : cbuf'[i] = disk'[tag' + i + 1]
      BY <2>1, <3>2, <3>5
    <3>7. TypeOK'
      BY <2>1, <3>2, <3>4, <3>5 DEF CacheAtOffset, TypeOK, Bytes
    <3>8. CacheAtOffset'
      BY <2>1, <3>5, <3>6, <3>7 DEF CacheAtOffset
    <3>9. CallFits' /\ Gathered'
      BY <2>1, <3>3, IdleIs, Counts DEF CallFits, Gathered
    <3>10. Bounded'
      BY <2>1, <3>1, <3>2, <3>5, Counts DEF Bounded
    <3>11. QED
      BY <3>8, <3>9, <3>10
  <2>3. CASE ReadReturns(Error) /\ UNCHANGED <<cbuf, end, offset>>
    <3>1. /\ call' = Idle /\ answer' = Error /\ end' = end /\ offset' = offset /\ cbuf' = cbuf
      BY <2>3 DEF ReadReturns
    <3>2. TypeOK'
      <4>1. tag' \in Nat /\ pos' \in Nat /\ end' \in tag' .. tag' + BufSize
        BY <2>1, <3>1, Counts
      <4>2. QED
        BY <2>1, <3>1, <4>1, IdleIs DEF CacheAtOffset, TypeOK, Bytes
    <3>3. CacheAtOffset' /\ CallFits' /\ Gathered' /\ Bounded'
      BY <2>1, <3>1, <3>2, IdleIs, Counts DEF CacheAtOffset, CallFits, Gathered, Bounded
    <3>4. QED
      BY <3>3
  <2>4. QED
    BY <1>3, <2>2, <2>3 DEF ReadFill
<1>4. CASE ReadCopy
  <2>1. PICK n : n = Smaller(call.left, DataSize)
    OBVIOUS
  <2>2. /\ call.op = "read" /\ call.left > 0 /\ pos # end
        /\ call' = [call EXCEPT !.left = @ - n, !.data = @ \o FromCache(n)]
        /\ pos' = pos + n /\ mode = "read" /\ status = "open"
        /\ UNCHANGED <<disk, offset, mode, seekable, tag, end, cbuf, answer, status>>
    BY <1>4, <2>1 DEF ReadCopy, file, CallFits
  <2>3. n \in Nat /\ n <= call.left /\ n <= end - pos
    BY <2>1, CopiedIs
  <2>4. /\ FromCache(n) \in Seq(Bytes) /\ Len(FromCache(n)) = n
        /\ \A i \in 1 .. n : /\ pos - tag + i - 1 \in 0 .. end - tag - 1
                             /\ FromCache(n)[i] = cbuf[pos - tag + i - 1]
    BY <2>3, Counts, FromCacheIs DEF CacheAtOffset
  <2>5. PICK d : d = call.data \o FromCache(n)
    OBVIOUS
  <2>6. /\ d \in Seq(Bytes) /\ Len(d) = Len(call.data) + n
        /\ \A i \in 1 .. Len(call.data) + n :
             d[i] = IF i <= Len(call.data) THEN call.data[i] ELSE FromCache(n)[i - Len(call.data)]
    <3>1. call.data \in Seq(Bytes) /\ FromCache(n) \in Seq(Bytes) /\ Len(FromCache(n)) = n
      BY <2>4, Counts
    <3>2. /\ call.data \o FromCache(n) \in Seq(Bytes)
          /\ Len(call.data \o FromCache(n)) = Len(call.data) + Len(FromCache(n))
          /\ \A i \in 1 .. Len(call.data) + Len(FromCache(n)) : (call.data \o FromCache(n))[i] =
               IF i <= Len(call.data) THEN call.data[i] ELSE FromCache(n)[i - Len(call.data)]
      BY <3>1, ConcatProperties
    <3>3. QED
      BY <2>5, <3>1, <3>2
  <2>7. /\ call'.op = "read" /\ call'.asked = call.asked /\ call'.left = call.left - n /\ call'.data = d
        /\ call' \in [op : {"none", "read", "write"}, asked : Nat, left : Nat, data : Seq(Bytes)]
    <3>1. call' = [call EXCEPT !.left = call.left - n, !.data = d]
      BY <2>2, <2>5
    <3>2. call.left - n \in Nat
      BY <2>3, Counts, SMTT(30)
    <3>3. call \in [op : {"none", "read", "write"}, asked : Nat, left : Nat, data : Seq(Bytes)]
      BY DEF CacheAtOffset, TypeOK, Bytes
    <3>4. QED
      BY <2>2, <2>6, <3>1, <3>2, <3>3
  <2>8. pos' \in Nat /\ pos' <= end /\ tag <= pos'
    BY <2>2, <2>3, Counts, SMTT(30)
  <2>9. CacheAtOffset'
    BY <2>2, <2>7, <2>8 DEF CacheAtOffset, TypeOK, Bytes
  <2>10. CallFits' /\ Bounded'
    <3>1. call'.op = "read" /\ mode = "read" /\ status = "open" /\ call'.asked = call.asked
          /\ call'.left = call.left - n /\ call'.data = d
      BY <2>2, <2>7
    <3>2. call.asked = Len(call.data) + call.left
      BY <2>2 DEF CallFits
    <3>3. Len(d) + (call.left - n) = call.asked
      <4>1. Len(call.data) \in Nat /\ call.left \in Nat /\ Len(d) = Len(call.data) + n
        BY <2>6, Counts
      <4>2. QED
        BY <2>3, <3>2, <4>1
    <3>4. CallFits'
      BY <2>2, <3>1, <3>3 DEF CallFits
    <3>5. Bounded'
      BY <2>2, <2>8, <3>1 DEF Bounded
    <3>6. QED
      BY <3>4, <3>5
  <2>11. Gathered'
    <3>1. call.asked \in 1 .. MaxPos /\ Len(d) <= pos'
      BY <2>2, <2>3, <2>6, Counts, SMTT(30) DEF Gathered
    <3>2. ASSUME NEW i \in 1 .. Len(d) PROVE d[i] = disk[pos' - Len(d) + i]
      <4>1. pos' - Len(d) = pos - Len(call.data)
        BY <2>2, <2>3, <2>6, Counts, SMTT(30)
      <4>2. CASE i <= Len(call.data)
        <5>1. i \in 1 .. Len(call.data) /\ d[i] = call.data[i]
          BY <2>6, <4>2, Counts
        <5>2. QED
          BY <2>2, <4>1, <5>1 DEF Gathered
      <4>3. CASE ~ (i <= Len(call.data))
        <5>1. PICK k : k = i - Len(call.data)
          OBVIOUS
        <5>2. k \in 1 .. n /\ d[i] = FromCache(n)[k]
          <6>1. Len(call.data) \in Nat /\ i \in 1 .. Len(call.data) + n
            BY <2>6, Counts
          <6>2. QED
            BY <2>3, <2>6, <4>3, <5>1, <6>1
        <5>3. pos - tag + k - 1 \in 0 .. end - tag - 1 /\ d[i] = cbuf[pos - tag + k - 1]
          BY <2>4, <5>2
        <5>4. cbuf[pos - tag + k - 1] = disk[tag + (pos - tag + k - 1) + 1]
          BY <2>2, <5>3 DEF CacheAtOffset
        <5>5. tag + (pos - tag + k - 1) + 1 = pos - Len(call.data) + i
          <6>1. tag \in Nat /\ pos \in Nat /\ Len(call.data) \in Nat
            BY Counts
          <6>2. QED
            BY <2>3, <5>1, <5>2, <6>1
        <5>6. QED
          BY <4>1, <5>3, <5>4, <5>5
      <4>4. QED
        BY <4>2, <4>3
    <3>3. QED
      BY <2>2, <2>7, <3>1, <3>2 DEF Gathered
  <2>12. QED
    BY <2>9, <2>10, <2>11
<1>5. QED
  BY <1>1, <1>2, <1>3, <1>4

-----------------------------------------------------------------------------
(* io61_write, io61_flush and io61_close.                                  *)

\* A flush leaves a file of bytes, and the descriptor past what it wrote.
LEMMA WrittenIs ==
  ASSUME IInv, NEW n \in 0 .. BufSize, Written(n)
  PROVE  disk' \in Seq(Bytes) /\ offset' = offset + n /\ offset' \in Nat
<1>1. TypeOK
  BY DEF IInv, CacheAtOffset
<1>2. Cached(n) \in Seq(Bytes)
  BY <1>1, CachedIs
<1>3. Overlay(disk, offset, Cached(n)) \in Seq(Bytes)
  BY <1>2, Counts, OverlayIs
<1>4. QED
  BY <1>3, Counts, SMTT(30) DEF Written

\* What a copy into the block leaves of it, of the pointer and of what is to be written.
LEMMA CopyIs ==
  ASSUME IInv, WriteCopy
  PROVE  /\ status = "open" /\ call.op = "write" /\ mode = "write" /\ pos = end /\ offset = tag
         /\ \E n \in Nat \ {0} :
              /\ n <= call.left /\ pos - tag + n <= BufSize
              /\ pos' = pos + n /\ end' = end + n
              /\ cbuf' \in [0 .. BufSize - 1 -> Bytes]
              /\ \A i \in 0 .. BufSize - 1 :
                   cbuf'[i] = IF pos - tag <= i /\ i < pos - tag + n THEN call.data[i - (pos - tag) + 1] ELSE cbuf[i]
              /\ call' \in [op : {"none", "read", "write"}, asked : Nat, left : Nat, data : Seq(Bytes)]
              /\ call'.op = "write" /\ call'.asked = call.asked /\ call'.left = call.left - n
              /\ Len(call'.data) = call.left - n
              /\ \A i \in 1 .. call.left - n : call'.data[i] = call.data[n + i]
         /\ UNCHANGED <<disk, offset, mode, seekable, tag, answer, status>>
<1>1. PICK n : n = Smaller(call.left, BufSize + tag - end)
  OBVIOUS
<1>2. PICK k : k = pos - tag
  OBVIOUS
<1>3. /\ status = "open" /\ call.op = "write" /\ call.left > 0 /\ end # tag + BufSize
      /\ cbuf' = [i \in 0 .. BufSize - 1 |-> IF k <= i /\ i < k + n THEN call.data[i - k + 1] ELSE cbuf[i]]
      /\ pos' = pos + n /\ end' = end + n
      /\ call' = [call EXCEPT !.left = @ - n, !.data = SubSeq(@, n + 1, Len(@))]
      /\ UNCHANGED <<disk, offset, mode, seekable, tag, answer, status>>
  BY <1>1, <1>2 DEF WriteCopy, Writing, Full, file
<1>4. mode = "write" /\ Len(call.data) = call.left /\ pos = end /\ offset = tag
  BY <1>3 DEF IInv, CallFits, CacheAtOffset
<1>5. n \in Nat \ {0} /\ n <= call.left /\ k + n <= BufSize /\ k \in Nat
  <2>1. /\ call.left \in Nat /\ tag \in Nat /\ pos \in Nat /\ end \in Nat /\ BufSize \in Nat
        /\ tag <= pos /\ end <= tag + BufSize
    BY Counts
  <2>2. \A a, b \in Nat \ {0} : Smaller(a, b) \in Nat \ {0} /\ Smaller(a, b) <= a /\ Smaller(a, b) <= b
    BY DEF Smaller
  <2>3. call.left \in Nat \ {0} /\ BufSize + tag - end \in Nat \ {0}
    BY <1>3, <2>1
  <2>4. n \in Nat \ {0} /\ n <= call.left /\ n <= BufSize + tag - end
    BY <1>1, <2>2, <2>3
  <2>5. QED
    BY <1>2, <1>4, <2>1, <2>4
<1>6. /\ call.left \in Nat /\ call.data \in Seq(Bytes)
      /\ \A i \in 1 .. call.left : call.data[i] \in Bytes
  BY <1>4, Counts, SeqIs
<1>7. cbuf' \in [0 .. BufSize - 1 -> Bytes]
  <2>1. cbuf \in [0 .. BufSize - 1 -> Bytes]
    BY DEF IInv, CacheAtOffset, TypeOK, Bytes
  <2>2. ASSUME NEW i \in 0 .. BufSize - 1, k <= i, i < k + n PROVE call.data[i - k + 1] \in Bytes
    <3>1. i - k + 1 \in 1 .. call.left
      BY <1>5, <1>6, <2>2
    <3>2. QED
      BY <1>6, <3>1
  <2>3. QED
    BY <1>3, <2>1, <2>2
<1>8. PICK d : d = SubSeq(call.data, n + 1, call.left)
  OBVIOUS
<1>9. /\ d \in Seq(Bytes) /\ Len(d) = call.left - n
      /\ \A i \in 1 .. call.left - n : d[i] = call.data[n + i]
  <2>1. \A i \in n + 1 .. call.left : call.data[i] \in Bytes
    BY <1>5, <1>6
  <2>2. n + 1 \in Int /\ call.left \in Int
    BY <1>5, <1>6
  <2>3. /\ d \in Seq(Bytes) /\ Len(d) = IF n + 1 <= call.left THEN call.left - (n + 1) + 1 ELSE 0
        /\ \A i \in 1 .. call.left - (n + 1) + 1 : d[i] = call.data[(n + 1) + i - 1]
    BY <1>8, <2>1, <2>2, SubSeqProperties
  <2>5. Len(d) = call.left - n
    BY <1>5, <1>6, <2>3
  <2>6. ASSUME NEW i \in 1 .. call.left - n PROVE d[i] = call.data[n + i]
    <3>1. i \in 1 .. call.left - (n + 1) + 1 /\ (n + 1) + i - 1 = n + i
      BY <1>5, <1>6
    <3>2. QED
      BY <2>3, <3>1
  <2>7. QED
    BY <2>3, <2>5, <2>6
<1>10. /\ call' \in [op : {"none", "read", "write"}, asked : Nat, left : Nat, data : Seq(Bytes)]
       /\ call'.op = "write" /\ call'.asked = call.asked /\ call'.left = call.left - n /\ call'.data = d
  <2>1. call' = [call EXCEPT !.left = call.left - n, !.data = d]
    BY <1>3, <1>4, <1>8
  <2>2. call.left - n \in Nat
    BY <1>5, <1>6
  <2>3. call \in [op : {"none", "read", "write"}, asked : Nat, left : Nat, data : Seq(Bytes)]
    BY DEF IInv, CacheAtOffset, TypeOK, Bytes
  <2>4. QED
    BY <1>3, <1>9, <2>1, <2>2, <2>3
<1>11. \A i \in 0 .. BufSize - 1 :
         cbuf'[i] = IF k <= i /\ i < k + n THEN call.data[i - k + 1] ELSE cbuf[i]
  BY <1>3
<1>12. QED
  BY <1>2, <1>3, <1>4, <1>5, <1>7, <1>9, <1>10, <1>11

LEMMA WriteSteps ==
  ASSUME IInv,
         \/ WriteFlush \/ WriteCopy \/ WriteDone
         \/ \E n \in Sizes : \E s \in [1 .. n -> Byte] : CallWrite(s)
  PROVE  IInv'
<1> USE DEF IInv
<1>1. CASE \E n \in Sizes : \E s \in [1 .. n -> Byte] : CallWrite(s)
  <2>1. PICK n \in Sizes : \E s \in [1 .. n -> Byte] : CallWrite(s)
    BY <1>1
  <2>2. PICK s \in [1 .. n -> Byte] : CallWrite(s)
    BY <2>1
  <2>3. /\ status = "open" /\ mode = "write" /\ pos + Len(s) <= MaxPos
        /\ call' = [op |-> "write", asked |-> 0, left |-> Len(s), data |-> s]
        /\ UNCHANGED <<disk, offset, mode, seekable, tag, end, pos, cbuf, answer, status>>
    BY <2>2 DEF CallWrite, Ready, file, tags
  <2>4. s \in Seq(Bytes) /\ Len(s) \in Nat
    <3>1. n \in Nat /\ s \in [1 .. n -> Bytes]
      BY IOAssumption DEF Bytes
    <3>2. QED
      BY <3>1, SeqIs
  <2>5. call' \in [op : {"none", "read", "write"}, asked : Nat, left : Nat, data : Seq(Bytes)]
    BY <2>3, <2>4
  <2>6. CacheAtOffset'
    BY <2>3, <2>5 DEF CacheAtOffset, TypeOK, Bytes
  <2>7. CallFits' /\ Gathered' /\ Bounded'
    BY <2>3, <2>4, Counts DEF CallFits, Gathered, Bounded
  <2>8. QED
    BY <2>6, <2>7
<1>2. CASE WriteFlush
  <2>1. /\ status = "open" /\ call.op = "write" /\ Written(pos - tag) /\ tag' = pos
        /\ mode = "write" /\ offset = tag /\ pos = end
        /\ UNCHANGED <<mode, seekable, end, pos, cbuf, call, answer, status>>
    BY <1>2 DEF WriteFlush, Writing, file, CallFits, CacheAtOffset
  <2>2. pos - tag \in 0 .. BufSize
    BY Counts
  <2>3. disk' \in Seq(Bytes) /\ offset' = offset + (pos - tag) /\ offset' \in Nat
    BY <2>1, <2>2, WrittenIs
  <2>4. /\ tag' \in Nat /\ end' \in tag' .. tag' + BufSize /\ offset' = tag' /\ tag' = pos
    BY <2>1, <2>3, Counts
  <2>5. CacheAtOffset'
    BY <2>1, <2>3, <2>4, Counts DEF CacheAtOffset, TypeOK, Bytes
  <2>6. CallFits' /\ Gathered' /\ Bounded'
    BY <2>1, <2>4, Counts DEF CallFits, Gathered, Bounded
  <2>7. QED
    BY <2>5, <2>6
<1>3. CASE WriteCopy
  <2>1. PICK n \in Nat \ {0} :
              /\ n <= call.left /\ pos - tag + n <= BufSize
              /\ pos' = pos + n /\ end' = end + n
              /\ cbuf' \in [0 .. BufSize - 1 -> Bytes]
              /\ call' \in [op : {"none", "read", "write"}, asked : Nat, left : Nat, data : Seq(Bytes)]
              /\ call'.op = "write" /\ call'.asked = call.asked /\ call'.left = call.left - n
              /\ Len(call'.data) = call.left - n
    BY <1>3, CopyIs
  <2>2. /\ status = "open" /\ call.op = "write" /\ mode = "write" /\ pos = end /\ offset = tag
        /\ UNCHANGED <<disk, offset, mode, seekable, tag, answer, status>>
    BY <1>3, CopyIs
  <2>3. pos' \in Nat /\ end' \in tag' .. tag' + BufSize /\ pos' = end' /\ tag' <= pos'
        /\ pos' + call'.left = pos + call.left
    <3>1. /\ call.left \in Nat /\ tag \in Nat /\ pos \in Nat /\ end \in Nat /\ BufSize \in Nat
          /\ tag <= pos
      BY Counts
    <3>2. /\ n \in Nat /\ n <= call.left /\ pos - tag + n <= BufSize /\ tag' = tag
          /\ pos' = pos + n /\ end' = pos + n /\ call'.left = call.left - n
      BY <2>1, <2>2
    <3>3. \A b, l, t, o, k \in Nat : t <= o /\ k <= l /\ o - t + k <= b =>
            /\ o + k \in Nat /\ o + k \in t .. t + b /\ t <= o + k
            /\ o + k + (l - k) = o + l
      OBVIOUS
    <3>4. /\ pos + n \in Nat /\ pos + n \in tag .. tag + BufSize /\ tag <= pos + n
          /\ pos + n + (call.left - n) = pos + call.left
      BY <3>1, <3>2, <3>3
    <3>5. QED
      BY <3>2, <3>4
  <2>4. CacheAtOffset'
    BY <2>1, <2>2, <2>3, Counts DEF CacheAtOffset, TypeOK, Bytes
  <2>5. CallFits' /\ Gathered' /\ Bounded'
    <3>1. call' # Idle /\ call.left \in Nat /\ Len(call'.data) = call'.left
      BY <2>1, Counts DEF Idle
    <3>2. CallFits'
      BY <2>1, <2>2, <3>1 DEF CallFits
    <3>3. Gathered'
      BY <2>1 DEF Gathered
    <3>4. Bounded'
      BY <2>1, <2>2, <2>3 DEF Bounded
    <3>5. QED
      BY <3>2, <3>3, <3>4
  <2>6. QED
    BY <2>4, <2>5
<1>4. CASE WriteDone
  <2>1. /\ status = "open" /\ call.op = "write" /\ call.left = 0 /\ call' = Idle
        /\ UNCHANGED <<disk, offset, mode, seekable, tag, end, pos, cbuf, answer, status>>
    BY <1>4 DEF WriteDone, file, tags
  <2>2. CacheAtOffset'
    BY <2>1, IdleIs DEF CacheAtOffset, TypeOK, Bytes
  <2>3. CallFits' /\ Gathered' /\ Bounded'
    BY <2>1, IdleIs, Counts DEF CallFits, Gathered, Bounded
  <2>4. QED
    BY <2>2, <2>3
<1>5. QED
  BY <1>1, <1>2, <1>3, <1>4

\* A flush that finishes, for io61_flush or for io61_close, and one that asserts.
LEMMA FlushSteps ==
  ASSUME IInv, Flush \/ Close \/ FlushAsserts
  PROVE  IInv'
<1> USE DEF IInv
<1>1. Done \in Seq(Bytes)
  BY EmptySeq DEF Done
<1>2. pos - tag \in 0 .. BufSize
  BY Counts
<1>3. CASE Flush \/ Close
  <2>1. /\ status = "open" /\ call = Idle /\ call' = Idle /\ status' \in {"open", "closed"}
        /\ answer' \in Seq(Bytes) \cup {Error}
        /\ UNCHANGED <<mode, seekable, end, pos, cbuf>>
        /\ \/ mode = "write" /\ Written(pos - tag) /\ tag' = pos
           \/ mode # "write" /\ UNCHANGED <<disk, offset, tag>>
    BY <1>1, <1>3 DEF Flush, Close, Ready, file
  <2>2. CASE mode = "write" /\ Written(pos - tag) /\ tag' = pos
    <3>1. disk' \in Seq(Bytes) /\ offset' = offset + (pos - tag) /\ offset' \in Nat
      BY <1>2, <2>2, WrittenIs
    <3>2. offset = tag /\ pos = end
      BY <2>1, <2>2 DEF CacheAtOffset
    <3>3. /\ tag' \in Nat /\ end' \in tag' .. tag' + BufSize /\ offset' = tag' /\ tag' = pos
      BY <2>1, <2>2, <3>1, <3>2, Counts
    <3>4. TypeOK'
      BY <2>1, <3>1, <3>3, IdleIs DEF CacheAtOffset, TypeOK, Bytes
    <3>5. CacheAtOffset'
      BY <2>1, <2>2, <3>2, <3>3, <3>4, Counts DEF CacheAtOffset
    <3>6. CallFits' /\ Gathered' /\ Bounded'
      BY <2>1, <2>2, <3>3, IdleIs, Counts DEF CallFits, Gathered, Bounded
    <3>7. QED
      BY <3>5, <3>6
  <2>3. CASE mode # "write" /\ UNCHANGED <<disk, offset, tag>>
    <3>1. TypeOK'
      BY <2>1, <2>3, IdleIs DEF CacheAtOffset, TypeOK, Bytes
    <3>2. CacheAtOffset'
      BY <2>1, <2>3, <3>1 DEF CacheAtOffset
    <3>3. CallFits' /\ Gathered' /\ Bounded'
      BY <2>1, <2>3, IdleIs, Counts DEF CallFits, Gathered, Bounded
    <3>4. QED
      BY <3>2, <3>3
  <2>4. QED
    BY <2>1, <2>2, <2>3
<1>4. CASE FlushAsserts
  <2>1. PICK n \in 0 .. pos - tag - 1 : Written(n)
    BY <1>4 DEF FlushAsserts
  <2>2. /\ mode = "write" /\ status = "open" /\ status' = "aborted"
        /\ UNCHANGED <<mode, seekable, tag, end, pos, cbuf, call, answer>>
    BY <1>4 DEF FlushAsserts, Ready, Writing, file, tags
  <2>3. n \in 0 .. BufSize
    BY <1>2, Counts
  <2>4. disk' \in Seq(Bytes) /\ offset' \in Nat
    BY <2>1, <2>3, WrittenIs
  <2>5. CacheAtOffset'
    BY <2>2, <2>4 DEF CacheAtOffset, TypeOK, Bytes
  <2>6. CallFits'
    BY <2>2 DEF CallFits
  <2>7. Gathered' /\ Bounded'
    BY <2>2 DEF Gathered, Bounded, CallFits
  <2>8. QED
    BY <2>5, <2>6, <2>7
<1>5. QED
  BY <1>3, <1>4

-----------------------------------------------------------------------------
(* io61_seek.                                                              *)

\* A seek out of the block that succeeds has the position in the block it filled.
LEMMA OutsideIs ==
  ASSUME IInv, NEW p \in 0 .. MaxPos, SeekOutside(p), answer' # Error
  PROVE  /\ mode = "read" /\ tag' = Aligned(p) /\ pos' = p /\ answer' = Done /\ disk' = disk
         /\ tag' <= p /\ p <= end' /\ end' <= Len(disk)
         /\ offset' = end' /\ end' \in tag' .. tag' + BufSize
         /\ cbuf' \in [0 .. BufSize - 1 -> Bytes]
         /\ \A i \in 0 .. end' - tag' - 1 : cbuf'[i] = disk[tag' + i + 1]
<1>1. TypeOK
  BY DEF IInv, CacheAtOffset
<1>2. PICK a : a = Aligned(p)
  OBVIOUS
<1>3. /\ seekable /\ mode = "read" /\ p <= Len(disk) /\ tag' = a /\ disk' = disk
      /\ pos' = p /\ answer' = Done
      /\ \E n \in Readable(a) : cbuf' = Loaded(a, n) /\ end' = a + n /\ offset' = a + n
  BY <1>2 DEF SeekOutside
<1>4. PICK n \in Readable(a) : cbuf' = Loaded(a, n) /\ end' = a + n /\ offset' = a + n
  BY <1>3
<1>5. p \in Nat /\ Len(disk) \in Nat /\ BufSize \in Nat
  BY Counts
<1>6. a \in Nat /\ a <= p /\ p < a + BufSize
  BY <1>2, <1>5, AlignedIs
<1>7. /\ n \in 0 .. BufSize /\ (n > 0 => a + n <= Len(disk))
      /\ n = BufSize \/ a + n >= Len(disk)
      /\ cbuf' \in [0 .. BufSize - 1 -> Bytes]
      /\ \A i \in 0 .. n - 1 : cbuf'[i] = disk[a + i + 1]
  BY <1>1, <1>3, <1>4, <1>6, ReadableIs
<1>8. p <= end' /\ end' <= Len(disk) /\ end' \in a .. a + BufSize /\ end' - a = n
  BY <1>3, <1>4, <1>5, <1>6, <1>7
<1>9. QED
  BY <1>2, <1>3, <1>4, <1>6, <1>7, <1>8

LEMMA SeekSteps ==
  ASSUME IInv, NEW p \in Targets, SeekInside(p) \/ SeekOutside(p) \/ SeekPipe(p)
  PROVE  IInv'
<1> USE DEF IInv
<1>1. p \in 0 .. MaxPos /\ p \in Nat /\ Done \in Seq(Bytes)
  BY IOAssumption, EmptySeq DEF Done
<1>2. CASE SeekInside(p)
  <2>1. /\ status = "open" /\ call = Idle /\ tag <= p /\ p <= end /\ (mode = "write" => p = pos)
        /\ pos' = p /\ answer' = Done
        /\ UNCHANGED <<disk, offset, mode, seekable, tag, end, cbuf, call, status>>
    BY <1>2 DEF SeekInside, Ready, Inside, file
  <2>2. CacheAtOffset'
    BY <1>1, <2>1 DEF CacheAtOffset, TypeOK, Bytes
  <2>3. CallFits' /\ Gathered' /\ Bounded'
    BY <1>1, <2>1, IdleIs DEF CallFits, Gathered, Bounded
  <2>4. QED
    BY <2>2, <2>3
<1>3. CASE SeekOutside(p)
  <2>1. /\ status = "open" /\ call = Idle
        /\ UNCHANGED <<mode, seekable, call, status>>
    BY <1>3 DEF SeekOutside, Ready, file
  <2>2. CASE answer' # Error
    <3>1. /\ mode = "read" /\ pos' = p /\ answer' = Done /\ disk' = disk
          /\ tag' <= p /\ p <= end' /\ end' <= Len(disk)
          /\ offset' = end' /\ end' \in tag' .. tag' + BufSize
          /\ cbuf' \in [0 .. BufSize - 1 -> Bytes]
          /\ \A i \in 0 .. end' - tag' - 1 : cbuf'[i] = disk[tag' + i + 1]
      BY <1>1, <1>3, <2>2, OutsideIs
    <3>2. tag' \in Nat /\ end' \in Nat
      <4>1. tag' = Aligned(p)
        BY <1>1, <1>3, <2>2, OutsideIs
      <4>2. tag' \in Nat /\ BufSize \in Nat
        BY <1>1, <4>1, AlignedIs, Counts
      <4>3. QED
        BY <3>1, <4>2
    <3>3. TypeOK'
      BY <1>1, <2>1, <3>1, <3>2 DEF CacheAtOffset, TypeOK, Bytes
    <3>4. CacheAtOffset'
      BY <2>1, <3>1, <3>3 DEF CacheAtOffset
    <3>5. CallFits' /\ Gathered' /\ Bounded'
      BY <1>1, <2>1, <3>1, IdleIs DEF CallFits, Gathered, Bounded
    <3>6. QED
      BY <3>4, <3>5
  <2>3. CASE answer' = Error
    <3>1. PICK a : a = Aligned(p)
      OBVIOUS
    <3>2. Error # Done
      BY EmptySeq DEF Error, Done
    <3>3. /\ tag' = a /\ end' = a /\ pos' = a /\ offset' = a /\ cbuf' = cbuf
          /\ \/ mode = "write" /\ disk' = Overlay(disk, offset, Cached(end - tag))
             \/ mode # "write" /\ disk' = disk
      BY <1>3, <2>3, <3>1, <3>2 DEF SeekOutside
    <3>4. a \in Nat /\ a <= p
      BY <1>1, <3>1, AlignedIs
    <3>5. disk' \in Seq(Bytes)
      <4>1. end - tag \in 0 .. BufSize /\ offset \in Nat /\ disk \in Seq(Bytes) /\ TypeOK
        BY Counts DEF CacheAtOffset
      <4>2. Cached(end - tag) \in Seq(Bytes)
        BY <4>1, CachedIs
      <4>3. QED
        BY <3>3, <4>1, <4>2, OverlayIs
    <3>6. tag' \in Nat /\ end' \in tag' .. tag' + BufSize
      BY <3>3, <3>4, Counts
    <3>7. TypeOK'
      BY <2>1, <2>3, <3>3, <3>4, <3>5, <3>6 DEF CacheAtOffset, TypeOK, Bytes
    <3>8. CacheAtOffset'
      BY <2>1, <3>3, <3>4, <3>7 DEF CacheAtOffset
    <3>9. mode = "read" => a <= Len(disk) /\ Len(disk) <= MaxPos
      <4>1. mode = "read" => p <= Len(disk) /\ Len(disk) <= MaxPos
        BY <1>3 DEF SeekOutside, Bounded
      <4>2. Len(disk) \in Nat
        BY Counts
      <4>3. QED
        BY <1>1, <3>4, <4>1, <4>2
    <3>10. a + 0 <= MaxPos
      BY <1>1, <3>4, Counts
    <3>11. CallFits' /\ Gathered' /\ Bounded'
      BY <2>1, <3>3, <3>4, <3>9, <3>10, IdleIs DEF CallFits, Gathered, Bounded
    <3>12. QED
      BY <3>8, <3>11
  <2>4. QED
    BY <2>2, <2>3
<1>4. CASE SeekPipe(p)
  <2>1. /\ status = "open" /\ call = Idle /\ pos' = end /\ answer' = Error
        /\ UNCHANGED <<mode, seekable, end, cbuf, call, status>>
        /\ \/ mode = "write" /\ Written(end - tag) /\ tag' = end
           \/ mode # "write" /\ UNCHANGED <<disk, offset, tag>>
    BY <1>4 DEF SeekPipe, Ready, file
  <2>2. CASE mode = "write" /\ Written(end - tag) /\ tag' = end
    <3>1. end - tag \in 0 .. BufSize
      BY Counts
    <3>2. disk' \in Seq(Bytes) /\ offset' = offset + (end - tag) /\ offset' \in Nat
      BY <2>2, <3>1, WrittenIs
    <3>3. offset = tag /\ pos = end
      BY <2>1, <2>2 DEF CacheAtOffset
    <3>4. /\ tag' \in Nat /\ end' \in tag' .. tag' + BufSize /\ offset' = tag' /\ pos' \in Nat
      BY <2>1, <2>2, <3>2, <3>3, Counts
    <3>5. TypeOK'
      BY <2>1, <3>2, <3>4 DEF CacheAtOffset, TypeOK, Bytes
    <3>6. CacheAtOffset' /\ CallFits' /\ Gathered' /\ Bounded'
      BY <2>1, <2>2, <3>3, <3>4, <3>5, IdleIs, Counts DEF CacheAtOffset, CallFits, Gathered, Bounded
    <3>7. QED
      BY <3>6
  <2>3. CASE mode # "write" /\ UNCHANGED <<disk, offset, tag>>
    <3>1. TypeOK' /\ pos' \in Nat
      BY <2>1, <2>3, Counts DEF CacheAtOffset, TypeOK, Bytes
    <3>2. CacheAtOffset' /\ CallFits' /\ Gathered' /\ Bounded'
      BY <2>1, <2>3, <3>1, IdleIs, Counts DEF CacheAtOffset, CallFits, Gathered, Bounded
    <3>3. QED
      BY <3>2
  <2>4. QED
    BY <2>1, <2>2, <2>3
<1>5. QED
  BY <1>2, <1>3, <1>4

-----------------------------------------------------------------------------
LEMMA InitIInv == Init => IInv
<1> SUFFICES ASSUME Init PROVE IInv
  OBVIOUS
<1>1. disk \in Seq(Bytes) /\ Len(disk) \in Nat
  <2>1. disk \in Seq(Byte) \/ disk = <<>>
    BY IOAssumption DEF Init
  <2>2. Byte \subseteq Bytes
    BY DEF Bytes
  <2>3. disk \in Seq(Bytes)
    <3>1. CASE disk \in Seq(Byte)
      <4>1. PICK n \in Nat : disk \in [1 .. n -> Byte]
        BY <3>1, SeqDef
      <4>2. disk \in [1 .. n -> Bytes]
        BY <2>2, <4>1
      <4>3. QED
        BY <4>2, SeqIs
    <3>2. QED
      BY <2>1, <3>1, EmptySeq
  <2>4. QED
    BY <2>3, SeqIs
<1>2. Done \in Seq(Bytes)
  BY EmptySeq DEF Done
<1>3. cbuf \in [0 .. BufSize - 1 -> Bytes]
  BY DEF Init, Bytes
<1>4. Len(disk) <= MaxPos /\ BufSize \in Nat /\ MaxPos \in Nat
  BY IOAssumption DEF Init
<1>5. TypeOK
  BY <1>1, <1>2, <1>3, <1>4, IdleIs DEF Init, TypeOK, Bytes
<1>6. CacheAtOffset
  BY <1>5 DEF Init, CacheAtOffset
<1>7. CallFits /\ Gathered /\ Bounded
  BY <1>1, <1>4, IdleIs DEF Init, CallFits, Gathered, Bounded
<1>8. QED
  BY <1>6, <1>7 DEF IInv

LEMMA NextIInv == IInv /\ [Next]_vars => IInv'
<1> SUFFICES ASSUME IInv, [Next]_vars PROVE IInv'
  OBVIOUS
<1>1. CASE LoopStep
  BY <1>1, ReadSteps, WriteSteps DEF LoopStep
<1>2. CASE FlushAsserts \/ Flush \/ Close
  BY <1>2, FlushSteps
<1>3. CASE \E n \in Sizes : CallRead(n) \/ \E s \in [1 .. n -> Byte] : CallWrite(s)
  <2>1. PICK n \in Sizes : CallRead(n) \/ \E s \in [1 .. n -> Byte] : CallWrite(s)
    BY <1>3
  <2>2. CASE CallRead(n)
    BY <2>2, ReadSteps
  <2>3. CASE \E s \in [1 .. n -> Byte] : CallWrite(s)
    BY <2>3, WriteSteps
  <2>4. QED
    BY <2>1, <2>2, <2>3
<1>4. CASE \E p \in Targets : SeekInside(p) \/ SeekOutside(p) \/ SeekPipe(p)
  BY <1>4, SeekSteps
<1>5. CASE UNCHANGED vars
  BY <1>5 DEF vars, file, tags, IInv, CacheAtOffset, TypeOK, CallFits, Gathered, Bounded
<1>6. QED
  BY <1>1, <1>2, <1>3, <1>4, <1>5 DEF Next

LEMMA AlwaysIInv == Spec => []IInv
BY InitIInv, NextIInv, PTL DEF Spec

\* io61_check_invariants and io61_check_write_invariants, whose assertions are commented out,
\* hold between any two system calls: the block that is read ends at the descriptor's offset and
\* holds the file's bytes, the one that is written starts there, none outgrows cbuf.
THEOREM TagsAgree == Spec => []CacheAtOffset
<1>1. IInv => CacheAtOffset
  BY DEF IInv
<1>2. QED
  BY <1>1, AlwaysIInv, PTL

-----------------------------------------------------------------------------
(* The refinement of File.  In a file that is written its user sees three  *)
(* layers: the bytes of the call in progress, those of the block, and the  *)
(* file below.                                                             *)
At == IF mode = "read" THEN pos - Len(call.data) ELSE pos + call.left

LEMMA ContentIs ==
  IInv /\ mode = "write" /\ status # "closed" =>
    /\ Content \in Seq(Bytes)
    /\ Len(Content) = IF pos + call.left > tag /\ pos + call.left > Len(disk) THEN pos + call.left
                      ELSE Len(disk)
    /\ \A i \in 1 .. Len(Content) :
         Content[i] = IF pos < i /\ i <= pos + call.left THEN call.data[i - pos]
                      ELSE IF tag < i /\ i <= pos THEN cbuf[i - tag - 1]
                      ELSE IF i <= Len(disk) THEN disk[i] ELSE Zero
<1> SUFFICES ASSUME IInv, mode = "write", status # "closed"
    PROVE  /\ Content \in Seq(Bytes)
           /\ Len(Content) = IF pos + call.left > tag /\ pos + call.left > Len(disk) THEN pos + call.left
                             ELSE Len(disk)
           /\ \A i \in 1 .. Len(Content) :
                Content[i] = IF pos < i /\ i <= pos + call.left THEN call.data[i - pos]
                             ELSE IF tag < i /\ i <= pos THEN cbuf[i - tag - 1]
                             ELSE IF i <= Len(disk) THEN disk[i] ELSE Zero
  OBVIOUS
<1>1. PICK c, v, w : c = Cached(pos - tag) /\ v = Overlay(disk, tag, c) /\ w = Overlay(v, pos, call.data)
  OBVIOUS
<1>2. Content = w
  BY <1>1 DEF Content, IInv, CacheAtOffset, TypeOK
<1>3. /\ tag \in Nat /\ pos \in Nat /\ tag <= pos /\ pos - tag \in 0 .. BufSize
      /\ disk \in Seq(Bytes) /\ Len(disk) \in Nat /\ call.data \in Seq(Bytes)
      /\ call.left \in Nat /\ Len(call.data) \in Nat
  BY Counts
<1>4. Len(call.data) = call.left
  BY IdleIs, EmptySeq DEF IInv, CallFits, CacheAtOffset, TypeOK
<1>5. c \in Seq(Bytes) /\ Len(c) = pos - tag /\ \A i \in 1 .. pos - tag : c[i] = cbuf[i - 1]
  BY <1>1, <1>3, CachedIs DEF IInv, CacheAtOffset
<1>6. (c # <<>> <=> pos > tag) /\ (call.data # <<>> <=> call.left > 0)
  <2>1. (c = <<>> <=> Len(c) = 0) /\ (call.data = <<>> <=> Len(call.data) = 0)
    BY <1>3, <1>5, SeqIs
  <2>2. QED
    BY <1>3, <1>4, <1>5, <2>1
<1>7. /\ v \in Seq(Bytes)
      /\ Len(v) = IF c # <<>> /\ tag + Len(c) > Len(disk) THEN tag + Len(c) ELSE Len(disk)
      /\ \A i \in 1 .. Len(v) : v[i] = IF i > tag /\ i <= tag + Len(c) THEN c[i - tag]
                                       ELSE IF i <= Len(disk) THEN disk[i] ELSE Zero
  <2>1. v = Overlay(disk, tag, c)
    BY <1>1
  <2>2. tag \in Nat /\ disk \in Seq(Bytes) /\ c \in Seq(Bytes)
    BY <1>3, <1>5
  <2>3. QED
    BY ONLY <2>1, <2>2, OverlayIs
<1>8. /\ w \in Seq(Bytes)
      /\ Len(w) = IF call.data # <<>> /\ pos + Len(call.data) > Len(v) THEN pos + Len(call.data) ELSE Len(v)
      /\ \A i \in 1 .. Len(w) : w[i] = IF i > pos /\ i <= pos + Len(call.data) THEN call.data[i - pos]
                                       ELSE IF i <= Len(v) THEN v[i] ELSE Zero
  <2>1. w = Overlay(v, pos, call.data)
    BY <1>1
  <2>2. pos \in Nat /\ v \in Seq(Bytes) /\ call.data \in Seq(Bytes)
    BY <1>3, <1>7
  <2>3. QED
    BY ONLY <2>1, <2>2, OverlayIs
<1>9. Len(v) = IF pos > tag /\ pos > Len(disk) THEN pos ELSE Len(disk)
  BY <1>3, <1>5, <1>6, <1>7
<1>10. Len(w) = IF pos + call.left > tag /\ pos + call.left > Len(disk) THEN pos + call.left ELSE Len(disk)
  BY <1>3, <1>4, <1>6, <1>8, <1>9
<1>11. ASSUME NEW i \in 1 .. Len(w)
       PROVE  w[i] = IF pos < i /\ i <= pos + call.left THEN call.data[i - pos]
                     ELSE IF tag < i /\ i <= pos THEN cbuf[i - tag - 1]
                     ELSE IF i <= Len(disk) THEN disk[i] ELSE Zero
  <2>0. i \in Nat /\ i > 0 /\ Len(v) \in Nat /\ tag + Len(c) = pos
    BY <1>3, <1>5, <1>9, <1>10
  <2>1. CASE pos < i /\ i <= pos + call.left
    BY <1>4, <1>8, <2>1
  <2>2. CASE i <= pos /\ tag < i
    <3>1. i \in 1 .. Len(v) /\ i - tag \in 1 .. pos - tag
      BY <1>3, <1>9, <2>0, <2>2
    <3>2. c[i - tag] = cbuf[i - tag - 1] /\ v[i] = c[i - tag]
      BY <1>5, <1>7, <2>0, <2>2, <3>1
    <3>3. w[i] = v[i]
      <4>1. i \in 1 .. Len(w) /\ ~ (i > pos) /\ i <= Len(v)
        BY <1>3, <2>0, <2>2, <3>1
      <4>2. QED
        BY <1>8, <4>1
    <3>4. QED
      BY <1>3, <2>0, <2>2, <3>2, <3>3
  <2>3. CASE i <= tag \/ pos + call.left < i
    <3>1. i <= Len(v) => i \in 1 .. Len(v) /\ v[i] = IF i <= Len(disk) THEN disk[i] ELSE Zero
      BY <1>3, <1>7, <2>0, <2>3
    <3>2. w[i] = IF i <= Len(v) THEN v[i] ELSE Zero
      BY <1>3, <1>4, <1>8, <2>0, <2>3
    <3>3. i <= Len(disk) => i <= Len(v)
      BY <1>3, <1>9, <2>0
    <3>4. w[i] = IF i <= Len(disk) THEN disk[i] ELSE Zero
      BY <3>1, <3>2, <3>3
    <3>5. QED
      BY <1>3, <2>0, <2>3, <3>4, SMTT(30)
  <2>4. QED
    BY <1>3, <2>0, <2>1, <2>2, <2>3
<1>12. QED
  BY <1>2, <1>8, <1>10, <1>11

\* The same of the next state.
LEMMA ContentNext ==
  (IInv /\ mode = "write" /\ status # "closed" =>
    /\ Content \in Seq(Bytes)
    /\ Len(Content) = IF pos + call.left > tag /\ pos + call.left > Len(disk) THEN pos + call.left
                      ELSE Len(disk)
    /\ \A i \in 1 .. Len(Content) :
         Content[i] = IF pos < i /\ i <= pos + call.left THEN call.data[i - pos]
                      ELSE IF tag < i /\ i <= pos THEN cbuf[i - tag - 1]
                      ELSE IF i <= Len(disk) THEN disk[i] ELSE Zero)'
BY ContentIs, PTL

\* What a read returns is what the file has from the pointer on.
LEMMA GatheredIs ==
  ASSUME IInv, call.op = "read", call.left = 0 \/ pos = Len(disk)
  PROVE  F!From(disk, pos - Len(call.data), call.asked) = call.data
<1>1. PICK g : g = pos - Len(call.data)
  OBVIOUS
<1>2. /\ pos \in Nat /\ call.left \in Nat /\ call.asked \in Nat /\ Len(disk) \in Nat /\ disk \in Seq(Bytes)
      /\ call.data \in Seq(Bytes) /\ Len(call.data) \in Nat /\ pos <= end /\ end \in Nat
  BY Counts
<1>3. /\ call.asked = Len(call.data) + call.left /\ Len(call.data) <= pos /\ end <= Len(disk)
      /\ \A i \in 1 .. Len(call.data) : call.data[i] = disk[g + i]
  BY <1>1 DEF IInv, CallFits, Gathered, Bounded
<1>4. g \in Nat /\ (IF g + call.asked < Len(disk) THEN g + call.asked ELSE Len(disk)) = pos
  <2>1. PICK n, l, m : n = Len(call.data) /\ l = call.left /\ m = Len(disk)
    OBVIOUS
  <2>2. /\ n \in Nat /\ l \in Nat /\ m \in Nat /\ pos \in Nat /\ end \in Nat
        /\ pos <= end /\ end <= m /\ n <= pos /\ call.asked = n + l /\ g = pos - n /\ (l = 0 \/ pos = m)
    BY <1>1, <1>2, <1>3, <2>1
  <2>3. g \in Nat /\ g + call.asked = pos + l
    BY <2>2
  <2>4. (IF pos + l < m THEN pos + l ELSE m) = pos
    BY <2>2
  <2>5. QED
    BY <2>1, <2>3, <2>4
<1>5. PICK r : r = SubSeq(disk, g + 1, pos)
  OBVIOUS
<1>6. F!From(disk, g, call.asked) = r
  BY <1>4, <1>5 DEF F!From
<1>7. \A i \in g + 1 .. pos : disk[i] \in Bytes
  BY <1>2, <1>3, <1>4, SeqIs
<1>8. /\ r \in Seq(Bytes) /\ Len(r) = IF g + 1 <= pos THEN pos - (g + 1) + 1 ELSE 0
      /\ \A i \in 1 .. pos - (g + 1) + 1 : r[i] = disk[(g + 1) + i - 1]
  <2>1. g + 1 \in Int /\ pos \in Int
    BY <1>2, <1>4
  <2>2. QED
    BY <1>5, <1>7, <2>1, SubSeqProperties
<1>9. Len(r) = Len(call.data) /\ pos - (g + 1) + 1 = Len(r) /\ Len(r) \in Nat
  <2>1. PICK n \in Nat : n = Len(call.data)
    BY <1>2
  <2>2. g = pos - n /\ pos \in Nat /\ g \in Nat
    BY <1>1, <1>2, <1>4, <2>1
  <2>3. pos - (g + 1) + 1 = n /\ (g + 1 <= pos <=> n > 0)
    BY <2>2
  <2>4. QED
    BY <1>8, <2>1, <2>2, <2>3
<1>10. ASSUME NEW i \in 1 .. Len(r) PROVE r[i] = call.data[i]
  <2>1. i \in 1 .. pos - (g + 1) + 1 /\ (g + 1) + i - 1 = g + i
    <3>1. i \in Nat /\ g \in Nat
      BY <1>4, <1>9
    <3>2. QED
      BY <1>9, <3>1
  <2>2. QED
    BY <1>3, <1>8, <1>9, <2>1
<1>11. r = call.data
  BY <1>2, <1>8, <1>9, <1>10, SeqSame
<1>12. QED
  BY <1>1, <1>6, <1>11

\* A user's read is one Ask and one Read of the file, or a Fail; what the cache does between
\* them is not seen.
LEMMA ReadRefines ==
  ASSUME IInv, ReadFill \/ ReadCopy \/ ReadDone \/ \E n \in Sizes : CallRead(n)
  PROVE  F!FileNext \/ UNCHANGED F!fvars
<1>0. /\ pos \in Nat /\ end \in Nat /\ pos <= end /\ call.left \in Nat /\ Len(call.data) \in Nat
      /\ call.data \in Seq(Bytes) /\ Len(disk) \in Nat /\ Len(<<>>) = 0
  BY Counts, EmptySeq
<1>1. CASE \E n \in Sizes : CallRead(n)
  <2>1. PICK n \in Sizes : CallRead(n)
    BY <1>1
  <2>2. /\ call = Idle /\ mode = "read" /\ mode' = "read" /\ n \in 1 .. MaxPos
        /\ call' = [op |-> "read", asked |-> n, left |-> n, data |-> <<>>]
        /\ disk' = disk /\ pos' = pos /\ answer' = answer
    BY <2>1, IOAssumption DEF CallRead, Ready, file, tags
  <2>3. At' = At /\ Content' = Content /\ call.asked = 0 /\ call'.asked = n
    BY <2>2, IdleIs DEF At, Content
  <2>4. F!Ask
    BY <2>2, <2>3 DEF F!Ask, At
  <2>5. QED
    BY <2>4 DEF F!FileNext
<1>2. ASSUME ReadReturns(call.data), UNCHANGED <<disk, mode>>, mode = "read",
             call.op = "read", pos' = pos, call.left = 0 \/ pos = Len(disk)
      PROVE  F!Read
  <2>1. call' = Idle /\ answer' = call.data /\ mode' = "read" /\ disk' = disk
    BY <1>2 DEF ReadReturns
  <2>2. call.asked \in 1 .. MaxPos /\ Len(call.data) <= pos
    BY <1>2 DEF IInv, Gathered
  <2>3. call.asked > 0
    BY <2>2, Counts
  <2>4. PICK g : g = pos - Len(call.data)
    OBVIOUS
  <2>5. F!From(disk, g, call.asked) = call.data
    BY <1>2, <2>4, GatheredIs
  <2>6. At = g /\ At' = g + Len(call.data) /\ Content = disk /\ Content' = disk
    BY <1>0, <1>2, <2>1, <2>4, IdleIs DEF At, Content
  <2>7. call'.asked = 0
    BY <2>1, IdleIs
  <2>8. QED
    BY <1>2, <2>1, <2>3, <2>5, <2>6, <2>7 DEF F!Read, At
<1>3. CASE ReadDone
  <2>1. F!Read
    BY <1>2, <1>3 DEF ReadDone, file, tags, IInv, CallFits
  <2>2. QED
    BY <2>1 DEF F!FileNext
<1>4. CASE ReadFill
  <2>1. /\ call.op = "read" /\ pos = end /\ pos' = end /\ mode = "read" /\ status = "open" /\ offset = end
        /\ mode' = "read" /\ disk' = disk /\ UNCHANGED <<disk, mode>> /\ pos' = pos
    BY <1>4 DEF ReadFill, file, IInv, CallFits, CacheAtOffset
  <2>2. CASE \E n \in Readable(offset) :
               IF n = 0 THEN ReadReturns(call.data) ELSE UNCHANGED <<call, answer>>
    <3>1. PICK n \in Readable(offset) :
               IF n = 0 THEN ReadReturns(call.data) ELSE UNCHANGED <<call, answer>>
      BY <2>2
    <3>2. CASE n = 0
      <4>1. offset >= Len(disk)
        BY <3>2, ReadableIs, Counts DEF IInv, CacheAtOffset
      <4>2. pos = Len(disk)
        BY <1>0, <2>1, <4>1 DEF IInv, Bounded
      <4>3. F!Read
        BY <1>2, <2>1, <3>1, <3>2, <4>2
      <4>4. QED
        BY <4>3 DEF F!FileNext
    <3>3. CASE n # 0
      <4>1. call' = call /\ answer' = answer
        BY <3>1, <3>3
      <4>2. QED
        BY <2>1, <4>1 DEF F!fvars, Content
    <3>4. QED
      BY <3>2, <3>3
  <2>3. CASE ReadReturns(Error)
    <3>1. call' = Idle /\ answer' = Error
      BY <2>3 DEF ReadReturns
    <3>2. At' = end /\ Content' = Content /\ call'.asked = 0
      BY <1>0, <2>1, <3>1, IdleIs DEF At, Content
    <3>3. end \in 0 .. MaxPos
      <4>1. end <= Len(disk) /\ Len(disk) <= MaxPos /\ MaxPos \in Nat
        BY <2>1, Counts DEF IInv, Bounded
      <4>2. QED
        BY <1>0, <4>1
    <3>4. F!Fail
      BY <2>1, <3>1, <3>2, <3>3 DEF F!Fail, F!Error, Error, At
    <3>5. QED
      BY <3>4 DEF F!FileNext
  <2>4. QED
    BY <1>4, <2>2, <2>3 DEF ReadFill
<1>5. CASE ReadCopy
  <2>1. PICK n : n = Smaller(call.left, DataSize)
    OBVIOUS
  <2>2. /\ call.op = "read" /\ mode = "read" /\ mode' = "read" /\ disk' = disk /\ answer' = answer
        /\ call' = [call EXCEPT !.left = @ - n, !.data = @ \o FromCache(n)]
        /\ pos' = pos + n
    BY <1>5, <2>1 DEF ReadCopy, file, IInv, CallFits
  <2>3. n \in Nat /\ n <= end - pos
    BY <2>1, CopiedIs
  <2>4. call'.asked = call.asked /\ call'.data = call.data \o FromCache(n)
    BY <2>2 DEF IInv, CacheAtOffset, TypeOK
  <2>5. Len(call'.data) = Len(call.data) + n
    <3>1. FromCache(n) \in Seq(Bytes) /\ Len(FromCache(n)) = n
      BY <2>3, Counts, FromCacheIs DEF IInv, CacheAtOffset
    <3>2. Len(call.data \o FromCache(n)) = Len(call.data) + Len(FromCache(n))
      BY <1>0, <3>1, ConcatProperties
    <3>3. QED
      BY <2>4, <3>1, <3>2
  <2>6. At' = At /\ Content' = Content
    BY <1>0, <2>2, <2>3, <2>5 DEF At, Content
  <2>7. QED
    BY <2>2, <2>4, <2>6 DEF F!fvars, At
<1>6. QED
  BY <1>1, <1>3, <1>4, <1>5

LEMMA SameOverlay == \A d, p, s : F!Overlay(d, p, s) = Overlay(d, p, s)
BY DEF F!Overlay, Overlay, F!Zero, Zero

\* The bytes of the block are the file's as its user sees it: a flush, whole or in part, writes
\* back what the file has.
LEMMA BlockIsContent ==
  ASSUME IInv, mode = "write", status = "open", NEW n \in 0 .. pos - tag, pos > tag
  PROVE  /\ F!From(Content, tag, n) = Cached(n)
         /\ tag \in 0 .. Len(Content) /\ n \in 0 .. Len(Content)
<1>1. /\ tag \in Nat /\ pos \in Nat /\ tag <= pos /\ pos - tag \in 0 .. BufSize /\ BufSize \in Nat
      /\ Len(disk) \in Nat /\ call.left \in Nat
  BY Counts
<1>2. PICK w : w = Content
  OBVIOUS
<1>3. /\ w \in Seq(Bytes) /\ Len(w) \in Nat
      /\ Len(w) = IF pos + call.left > tag /\ pos + call.left > Len(disk) THEN pos + call.left ELSE Len(disk)
      /\ \A i \in 1 .. Len(w) : /\ w[i] \in Bytes
                                /\ tag < i /\ i <= pos => w[i] = cbuf[i - tag - 1]
  <2>1. /\ w \in Seq(Bytes)
        /\ Len(w) = IF pos + call.left > tag /\ pos + call.left > Len(disk) THEN pos + call.left ELSE Len(disk)
        /\ \A i \in 1 .. Len(w) :
             w[i] = IF pos < i /\ i <= pos + call.left THEN call.data[i - pos]
                    ELSE IF tag < i /\ i <= pos THEN cbuf[i - tag - 1]
                    ELSE IF i <= Len(disk) THEN disk[i] ELSE Zero
    BY <1>2, ContentIs
  <2>2. Len(w) \in Nat /\ \A i \in 1 .. Len(w) : w[i] \in Bytes
    BY <2>1, SeqIs
  <2>3. \A i \in 1 .. Len(w) : i <= pos => ~ (pos < i)
    BY <1>1, <2>2
  <2>4. QED
    BY <2>1, <2>2, <2>3
<1>4. n \in Nat /\ tag + n <= pos /\ pos <= Len(w) /\ n \in 0 .. BufSize
  BY <1>1, <1>3
<1>5. PICK r, b : b = tag + n /\ r = SubSeq(w, tag + 1, b)
  OBVIOUS
<1>6. (IF tag + n < Len(w) THEN tag + n ELSE Len(w)) = b
  BY <1>1, <1>3, <1>4, <1>5
<1>7. F!From(w, tag, n) = r
  BY <1>5, <1>6 DEF F!From
<1>8. /\ r \in Seq(Bytes) /\ Len(r) = IF tag + 1 <= b THEN b - (tag + 1) + 1 ELSE 0
      /\ \A i \in 1 .. b - (tag + 1) + 1 : r[i] = w[(tag + 1) + i - 1]
  <2>1. tag + 1 \in Int /\ b \in Int /\ \A i \in tag + 1 .. b : i \in 1 .. Len(w)
    BY <1>1, <1>3, <1>4, <1>5
  <2>2. \A i \in tag + 1 .. b : w[i] \in Bytes
    BY <1>3, <2>1
  <2>3. QED
    BY <1>5, <2>1, <2>2, SubSeqProperties
<1>9. Len(r) = n
  BY <1>1, <1>4, <1>5, <1>8
<1>10. PICK c : c = Cached(n)
  OBVIOUS
<1>11. c \in Seq(Bytes) /\ Len(c) = n /\ \A i \in 1 .. n : c[i] = cbuf[i - 1]
  BY <1>4, <1>10, CachedIs DEF IInv, CacheAtOffset
<1>12. ASSUME NEW i \in 1 .. Len(r) PROVE r[i] = c[i]
  <2>0. PICK j : j = tag + i
    OBVIOUS
  <2>1. /\ i \in 1 .. b - (tag + 1) + 1 /\ (tag + 1) + i - 1 = j
        /\ j \in 1 .. Len(w) /\ tag < j /\ j <= pos /\ j - tag - 1 = i - 1
        /\ i \in 1 .. n
    BY <1>1, <1>3, <1>4, <1>5, <1>9, <2>0
  <2>2. r[i] = w[j]
    BY <1>8, <2>1
  <2>3. w[j] = cbuf[i - 1]
    BY <1>3, <2>1
  <2>4. QED
    BY <1>11, <2>1, <2>2, <2>3
<1>13. r = c
  BY <1>8, <1>9, <1>11, <1>12, SeqSame
<1>14. F!From(Content, tag, n) = Cached(n)
  BY <1>2, <1>7, <1>10, <1>13
<1>15. tag \in 0 .. Len(w) /\ n \in 0 .. Len(w)
  BY <1>1, <1>3, <1>4
<1>16. QED
  BY <1>2, <1>14, <1>15

\* With nothing in the block and no call, the user sees the file itself.
LEMMA NothingWaits ==
  IInv /\ mode = "write" /\ status # "closed" /\ tag = pos /\ call = Idle => Content = disk
<1> SUFFICES ASSUME IInv, mode = "write", status # "closed", tag = pos, call = Idle
             PROVE  Content = disk
  OBVIOUS
<1>1. PICK w : w = Content
  OBVIOUS
<1>2. call.left = 0 /\ pos \in Nat /\ Len(disk) \in Nat /\ disk \in Seq(Bytes)
  BY Counts, IdleIs
<1>3. /\ w \in Seq(Bytes) /\ Len(w) = Len(disk)
      /\ \A i \in 1 .. Len(w) : w[i] = IF i <= Len(disk) THEN disk[i] ELSE Zero
  <2>1. /\ w \in Seq(Bytes)
        /\ Len(w) = IF pos + 0 > pos /\ pos + 0 > Len(disk) THEN pos + 0 ELSE Len(disk)
        /\ \A i \in 1 .. Len(w) :
             w[i] = IF pos < i /\ i <= pos + 0 THEN call.data[i - pos]
                    ELSE IF pos < i /\ i <= pos THEN cbuf[i - pos - 1]
                    ELSE IF i <= Len(disk) THEN disk[i] ELSE Zero
    BY <1>1, <1>2, ContentIs
  <2>2. Len(w) = Len(disk)
    BY <1>2, <2>1
  <2>3. \A i \in 1 .. Len(w) : ~ (pos < i /\ i <= pos + 0) /\ ~ (pos < i /\ i <= pos)
    BY <1>2, <2>2
  <2>4. QED
    BY <2>1, <2>2, <2>3
<1>4. QED
  BY <1>1, <1>2, <1>3, SeqSame

LEMMA NothingWaitsNext ==
  (IInv /\ mode = "write" /\ status # "closed" /\ tag = pos /\ call = Idle => Content = disk)'
BY NothingWaits, PTL

\* Between calls, what a flush of the block leaves is what its user saw.
LEMMA FlushedIs ==
  ASSUME IInv, mode = "write", status = "open", call = Idle
  PROVE  Overlay(disk, offset, Cached(pos - tag)) = Content
<1>1. PICK c : c = Cached(pos - tag)
  OBVIOUS
<1>2. c \in Seq(Bytes) /\ disk \in Seq(Bytes) /\ offset \in Nat /\ pos \in Nat
  BY <1>1, CachedIs, Counts DEF IInv, CacheAtOffset
<1>3. Overlay(disk, offset, c) \in Seq(Bytes)
  BY <1>2, OverlayIs
<1>4. Overlay(Overlay(disk, offset, c), pos, <<>>) = Overlay(disk, offset, c)
  BY <1>2, <1>3, OverlayNothing
<1>5. QED
  BY <1>1, <1>4, IdleIs DEF Content

\* A step that leaves the file as its user sees it, in a form the writing steps share.
LEMMA SameContent ==
  ASSUME IInv, IInv', mode = "write", mode' = "write", status # "closed", status' # "closed",
         Len(Content') = Len(Content),
         \A i \in 1 .. Len(Content) : Content'[i] = Content[i]
  PROVE  Content' = Content
<1>1. PICK v, w : v = Content /\ w = Content'
  OBVIOUS
<1>2. v \in Seq(Bytes) /\ w \in Seq(Bytes)
  BY <1>1, ContentIs, ContentNext
<1>3. QED
  BY <1>1, <1>2, SeqSame

\* write(2) of the block, whole or in part, under a call or between two.
LEMMA WrittenSame ==
  ASSUME IInv, IInv', mode = "write", status = "open", mode' = "write", status' # "closed",
         NEW n \in 0 .. pos - tag, pos > tag, Written(n),
         tag' = tag \/ (tag' = pos /\ n = pos - tag),
         UNCHANGED <<pos, cbuf, call>>
  PROVE  Content' = Content
<1>1. /\ tag \in Nat /\ pos \in Nat /\ tag <= pos /\ pos - tag \in 0 .. BufSize /\ BufSize \in Nat
      /\ Len(disk) \in Nat /\ call.left \in Nat /\ disk \in Seq(Bytes) /\ offset = tag
  BY Counts DEF IInv, CacheAtOffset
<1>2. PICK c : c = Cached(n)
  OBVIOUS
<1>3. n \in 0 .. BufSize /\ n \in Nat
  BY <1>1
<1>4. c \in Seq(Bytes) /\ Len(c) = n /\ \A i \in 1 .. n : c[i] = cbuf[i - 1]
  BY <1>2, <1>3, CachedIs DEF IInv, CacheAtOffset
<1>5. c # <<>> <=> n > 0
  BY <1>3, <1>4, SeqIs
<1>6. disk' = Overlay(disk, tag, c)
  BY <1>1, <1>2 DEF Written
<1>7. PICK d : d = disk'
  OBVIOUS
<1>8. /\ d \in Seq(Bytes)
      /\ Len(d) = IF c # <<>> /\ tag + Len(c) > Len(disk) THEN tag + Len(c) ELSE Len(disk)
      /\ \A i \in 1 .. Len(d) : d[i] = IF i > tag /\ i <= tag + Len(c) THEN c[i - tag]
                                       ELSE IF i <= Len(disk) THEN disk[i] ELSE Zero
  <2>1. d = Overlay(disk, tag, c) /\ tag \in Nat /\ disk \in Seq(Bytes) /\ c \in Seq(Bytes)
    BY <1>1, <1>4, <1>6, <1>7
  <2>2. QED
    BY ONLY <2>1, OverlayIs
<1>9. Len(d) = IF n > 0 /\ tag + n > Len(disk) THEN tag + n ELSE Len(disk)
  BY <1>4, <1>5, <1>8
<1>10. PICK v, w : v = Content /\ w = Content'
  OBVIOUS
<1>11. /\ Len(v) = IF pos + call.left > tag /\ pos + call.left > Len(disk) THEN pos + call.left ELSE Len(disk)
       /\ \A i \in 1 .. Len(v) :
            v[i] = IF pos < i /\ i <= pos + call.left THEN call.data[i - pos]
                   ELSE IF tag < i /\ i <= pos THEN cbuf[i - tag - 1]
                   ELSE IF i <= Len(disk) THEN disk[i] ELSE Zero
  BY <1>10, ContentIs
<1>12. PICK u : u = tag'
  OBVIOUS
<1>13. /\ Len(w) = IF pos + call.left > u /\ pos + call.left > Len(d) THEN pos + call.left ELSE Len(d)
       /\ \A i \in 1 .. Len(w) :
            w[i] = IF pos < i /\ i <= pos + call.left THEN call.data[i - pos]
                   ELSE IF u < i /\ i <= pos THEN cbuf[i - u - 1]
                   ELSE IF i <= Len(d) THEN d[i] ELSE Zero
  <2>1. pos' = pos /\ call' = call /\ cbuf' = cbuf /\ tag' = u /\ disk' = d
    BY <1>7, <1>12
  <2>2. QED
    BY <1>10, <2>1, ContentNext
<1>14. u = tag \/ (u = pos /\ n = pos - tag)
  BY <1>12
<1>15. Len(w) = Len(v)
  <2>1. CASE u = tag
    <3>1. PICK m, k : m = pos + call.left /\ k = tag + n
      OBVIOUS
    <3>2. m \in Nat /\ k \in Nat /\ k <= m /\ m > tag
      BY <1>1, <1>3, <3>1
    <3>3. Len(d) = IF n > 0 /\ k > Len(disk) THEN k ELSE Len(disk)
      BY <1>9, <3>1
    <3>4. /\ Len(w) = IF m > tag /\ m > Len(d) THEN m ELSE Len(d)
          /\ Len(v) = IF m > tag /\ m > Len(disk) THEN m ELSE Len(disk)
      BY <1>11, <1>13, <2>1, <3>1
    <3>5. QED
      BY <1>1, <1>3, <3>2, <3>3, <3>4
  <2>2. CASE u = pos /\ n = pos - tag
    <3>1. Len(d) = IF pos > Len(disk) THEN pos ELSE Len(disk)
      BY <1>1, <1>3, <1>9, <2>2
    <3>2. PICK m : m = pos + call.left
      OBVIOUS
    <3>3. m \in Nat /\ pos \in Nat /\ pos <= m /\ tag \in Nat /\ tag < m /\ Len(disk) \in Nat
      BY <1>1, <3>2
    <3>4. /\ Len(w) = IF m > pos /\ m > Len(d) THEN m ELSE Len(d)
          /\ Len(v) = IF m > tag /\ m > Len(disk) THEN m ELSE Len(disk)
      BY <1>11, <1>13, <2>2, <3>2
    <3>5. QED
      BY <3>1, <3>3, <3>4
  <2>3. QED
    BY <1>14, <2>1, <2>2
<1>16. ASSUME NEW i \in 1 .. Len(v) PROVE w[i] = v[i]
  <2>0. i \in Nat /\ i > 0 /\ Len(v) \in Nat /\ Len(d) \in Nat
    BY <1>1, <1>3, <1>9, <1>11
  <2>1. CASE pos < i /\ i <= pos + call.left
    BY <1>11, <1>13, <1>15, <2>1
  <2>2. CASE tag < i /\ i <= pos
    <3>1. v[i] = cbuf[i - tag - 1]
      BY <1>1, <1>11, <2>0, <2>2
    <3>2. CASE u = tag
      BY <1>1, <1>13, <1>15, <2>0, <2>2, <3>1, <3>2
    <3>3. CASE u = pos /\ n = pos - tag
      <4>1. i \in 1 .. Len(d) /\ i > tag /\ i <= tag + Len(c)
        BY <1>1, <1>3, <1>4, <1>9, <2>0, <2>2, <3>3
      <4>2. d[i] = c[i - tag]
        BY <1>8, <4>1
      <4>3. i - tag \in 1 .. n
        BY <1>1, <2>0, <2>2, <3>3
      <4>4. d[i] = cbuf[i - tag - 1]
        BY <1>4, <4>2, <4>3
      <4>5. w[i] = d[i]
        BY <1>1, <1>13, <1>15, <2>0, <2>2, <3>3, <4>1
      <4>6. QED
        BY <3>1, <4>4, <4>5
    <3>4. QED
      BY <1>14, <3>2, <3>3
  <2>3. CASE i <= tag \/ pos + call.left < i
    <3>0. PICK b : b = pos + call.left
      OBVIOUS
    <3>1. v[i] = IF i <= Len(disk) THEN disk[i] ELSE Zero
      <4>1. v[i] = IF pos < i /\ i <= b THEN call.data[i - pos]
                   ELSE IF tag < i /\ i <= pos THEN cbuf[i - tag - 1]
                   ELSE IF i <= Len(disk) THEN disk[i] ELSE Zero
        BY <1>11, <3>0
      <4>2. ~ (pos < i /\ i <= b) /\ ~ (tag < i /\ i <= pos)
        BY <1>1, <2>0, <2>3, <3>0
      <4>3. QED
        BY <4>1, <4>2
    <3>2. w[i] = IF i <= Len(d) THEN d[i] ELSE Zero
      <4>1. w[i] = IF pos < i /\ i <= b THEN call.data[i - pos]
                   ELSE IF u < i /\ i <= pos THEN cbuf[i - u - 1]
                   ELSE IF i <= Len(d) THEN d[i] ELSE Zero
        BY <1>13, <1>15, <3>0
      <4>2. ~ (pos < i /\ i <= b) /\ ~ (u < i /\ i <= pos)
        BY <1>1, <1>14, <2>0, <2>3, <3>0
      <4>3. QED
        BY <4>1, <4>2
    <3>3. i <= Len(d) => i \in 1 .. Len(d) /\ ~ (i > tag /\ i <= tag + Len(c))
      <4>1. PICK k, m : k = tag + n /\ m = pos + call.left
        OBVIOUS
      <4>2. k \in Nat /\ m \in Nat /\ k <= m /\ tag \in Nat
        BY <1>1, <1>3, <4>1
      <4>3. ~ (i > tag /\ i <= k)
        BY <2>0, <2>3, <4>1, <4>2
      <4>4. QED
        BY <1>4, <2>0, <4>1, <4>3
    <3>4. i <= Len(d) => d[i] = IF i <= Len(disk) THEN disk[i] ELSE Zero
      BY <1>8, <3>3
    <3>5. i <= Len(disk) => i <= Len(d)
      BY <1>1, <1>3, <1>9, <2>0
    <3>6. QED
      BY <3>1, <3>2, <3>4, <3>5
  <2>4. QED
    BY <1>1, <2>0, <2>1, <2>2, <2>3
<1>17. QED
  BY <1>10, <1>15, <1>16, SameContent

\* A copy into the block only moves bytes from the call to the block.
LEMMA CopySame ==
  ASSUME IInv, IInv', WriteCopy
  PROVE  Content' = Content
<1>1. PICK n \in Nat \ {0} :
              /\ n <= call.left /\ pos - tag + n <= BufSize
              /\ pos' = pos + n
              /\ \A i \in 0 .. BufSize - 1 :
                   cbuf'[i] = IF pos - tag <= i /\ i < pos - tag + n THEN call.data[i - (pos - tag) + 1] ELSE cbuf[i]
              /\ call'.left = call.left - n
              /\ \A i \in 1 .. call.left - n : call'.data[i] = call.data[n + i]
  BY CopyIs
<1>2. /\ status = "open" /\ mode = "write" /\ mode' = "write" /\ status' # "closed"
      /\ UNCHANGED <<disk, tag>>
  BY CopyIs
<1>3. /\ tag \in Nat /\ pos \in Nat /\ tag <= pos /\ pos - tag \in 0 .. BufSize /\ BufSize \in Nat
      /\ Len(disk) \in Nat /\ call.left \in Nat
  BY Counts
<1>4. PICK v, w : v = Content /\ w = Content'
  OBVIOUS
<1>5. PICK e, b : e = call'.data /\ b = cbuf'
  OBVIOUS
<1>6. /\ Len(v) = IF pos + call.left > tag /\ pos + call.left > Len(disk) THEN pos + call.left ELSE Len(disk)
      /\ \A i \in 1 .. Len(v) :
           v[i] = IF pos < i /\ i <= pos + call.left THEN call.data[i - pos]
                  ELSE IF tag < i /\ i <= pos THEN cbuf[i - tag - 1]
                  ELSE IF i <= Len(disk) THEN disk[i] ELSE Zero
  BY <1>2, <1>4, ContentIs
<1>7. PICK q : q = pos + n
  OBVIOUS
<1>8. q + (call.left - n) = pos + call.left /\ q \in Nat
  <2>1. n \in Nat /\ call.left \in Nat /\ pos \in Nat
    BY <1>3
  <2>2. QED
    BY <1>7, <2>1
<1>9. /\ Len(w) = IF pos + call.left > tag /\ pos + call.left > Len(disk) THEN pos + call.left ELSE Len(disk)
      /\ \A i \in 1 .. Len(w) :
           w[i] = IF q < i /\ i <= pos + call.left THEN e[i - q]
                  ELSE IF tag < i /\ i <= q THEN b[i - tag - 1]
                  ELSE IF i <= Len(disk) THEN disk[i] ELSE Zero
  <2>1. /\ pos' = q /\ call'.data = e /\ cbuf' = b /\ tag' = tag /\ disk' = disk
        /\ pos' + call'.left = pos + call.left
    BY <1>1, <1>2, <1>5, <1>7, <1>8
  <2>2. QED
    BY <1>2, <1>4, <2>1, ContentNext
<1>10. ASSUME NEW i \in 1 .. Len(v) PROVE w[i] = v[i]
  <2>0. i \in Nat /\ i > 0 /\ i \in 1 .. Len(w)
    BY <1>3, <1>6, <1>9
  <2>1. CASE q < i /\ i <= pos + call.left
    <3>1. i - q \in 1 .. call.left - n /\ n + (i - q) = i - pos /\ pos < i
      BY <1>1, <1>3, <1>7, <2>0, <2>1
    <3>2. e[i - q] = call.data[i - pos]
      BY <1>1, <1>5, <3>1
    <3>3. QED
      BY <1>6, <1>9, <2>0, <2>1, <3>1, <3>2
  <2>2. CASE pos < i /\ i <= q
    <3>1. PICK k : k = i - tag - 1
      OBVIOUS
    <3>2. /\ k \in 0 .. BufSize - 1 /\ pos - tag <= k /\ k < pos - tag + n
          /\ k - (pos - tag) + 1 = i - pos /\ tag < i /\ ~ (q < i) /\ i <= pos + call.left
      BY <1>1, <1>3, <1>7, <1>8, <2>0, <2>2, <3>1
    <3>3. b[k] = call.data[i - pos]
      BY <1>1, <1>5, <3>2
    <3>4. w[i] = b[k] /\ v[i] = call.data[i - pos]
      BY <1>6, <1>9, <2>0, <2>2, <3>1, <3>2
    <3>5. QED
      BY <3>3, <3>4
  <2>3. CASE tag < i /\ i <= pos
    <3>1. PICK k : k = i - tag - 1
      OBVIOUS
    <3>2. k \in 0 .. BufSize - 1 /\ ~ (pos - tag <= k) /\ ~ (q < i) /\ i <= q /\ ~ (pos < i)
      BY <1>1, <1>3, <1>7, <2>0, <2>3, <3>1
    <3>3. b[k] = cbuf[k]
      BY <1>1, <1>3, <1>5, <3>2
    <3>4. w[i] = b[k] /\ v[i] = cbuf[k]
      BY <1>6, <1>9, <2>0, <2>3, <3>1, <3>2
    <3>5. QED
      BY <3>3, <3>4
  <2>4. CASE i <= tag \/ pos + call.left < i
    <3>1. ~ (pos < i /\ i <= pos + call.left) /\ ~ (tag < i /\ i <= pos)
      <4>1. PICK m : m = pos + call.left
        OBVIOUS
      <4>2. m \in Nat /\ pos \in Nat /\ tag \in Nat /\ tag <= pos /\ pos <= m
        BY <1>3, <4>1
      <4>3. i <= tag \/ m < i
        BY <2>4, <4>1
      <4>4. ~ (pos < i /\ i <= m) /\ ~ (tag < i /\ i <= pos)
        BY <2>0, <4>2, <4>3
      <4>5. QED
        BY <4>1, <4>4
    <3>2. ~ (q < i /\ i <= pos + call.left) /\ ~ (tag < i /\ i <= q)
      <4>1. PICK m : m = pos + call.left
        OBVIOUS
      <4>2. m \in Nat /\ q \in Nat /\ tag \in Nat /\ tag <= q /\ q <= m
        <5>1. PICK l : l = call.left
          OBVIOUS
        <5>2. l \in Nat /\ n \in Nat /\ n <= l /\ pos \in Nat /\ tag \in Nat /\ tag <= pos
          BY <1>1, <1>3, <5>1
        <5>3. m = pos + l
          BY <4>1, <5>1
        <5>4. QED
          BY <1>7, <5>2, <5>3
      <4>3. i <= tag \/ m < i
        BY <2>4, <4>1
      <4>4. ~ (q < i /\ i <= m) /\ ~ (tag < i /\ i <= q)
        BY <2>0, <4>2, <4>3
      <4>5. QED
        BY <4>1, <4>4
    <3>3. QED
      BY <1>6, <1>9, <2>0, <3>1, <3>2
  <2>5. \/ q < i /\ i <= pos + call.left
        \/ pos < i /\ i <= q
        \/ tag < i /\ i <= pos
        \/ i <= tag
        \/ pos + call.left < i
    <3>1. PICK m : m = pos + call.left
      OBVIOUS
    <3>2. m \in Nat /\ q \in Nat /\ pos \in Nat /\ tag \in Nat /\ i \in Nat
      BY <1>3, <1>8, <2>0, <3>1
    <3>3. (q < i /\ i <= m) \/ (pos < i /\ i <= q) \/ (tag < i /\ i <= pos) \/ i <= tag \/ m < i
      BY ONLY <3>2
    <3>4. QED
      BY <3>1, <3>3
  <2>6. QED
    BY <2>1, <2>2, <2>3, <2>4, <2>5
<1>11. Len(w) = Len(v)
  BY <1>6, <1>9
<1>12. QED
  BY <1>2, <1>4, <1>10, <1>11, SameContent

\* A user's write is one Write of the file when it is called; the loop under it writes back
\* some bytes or is not seen.
LEMMA WriteRefines ==
  ASSUME IInv, IInv',
         \/ WriteFlush \/ WriteCopy \/ WriteDone
         \/ \E n \in Sizes : \E s \in [1 .. n -> Byte] : CallWrite(s)
  PROVE  F!FileNext \/ UNCHANGED F!fvars
<1>0. pos \in Nat /\ tag \in Nat /\ call.left \in Nat /\ BufSize \in Nat \ {0} /\ tag <= pos
  BY Counts
<1>1. CASE \E n \in Sizes : \E s \in [1 .. n -> Byte] : CallWrite(s)
  <2>1. PICK n \in Sizes : \E s \in [1 .. n -> Byte] : CallWrite(s)
    BY <1>1
  <2>2. PICK s \in [1 .. n -> Byte] : CallWrite(s)
    BY <2>1
  <2>3. /\ status = "open" /\ status' = "open" /\ mode = "write" /\ mode' = "write" /\ call = Idle
        /\ call' = [op |-> "write", asked |-> 0, left |-> Len(s), data |-> s]
        /\ UNCHANGED <<disk, offset, tag, pos, cbuf, answer>>
    BY <2>2 DEF CallWrite, Ready, file, tags
  <2>4. Len(s) \in Nat
    <3>1. n \in Nat /\ s \in [1 .. n -> Bytes]
      BY IOAssumption DEF Bytes
    <3>2. QED
      BY <3>1, SeqIs
  <2>5. PICK v : v = Overlay(disk, offset, Cached(pos - tag))
    OBVIOUS
  <2>6. Content = v
    BY <2>3, <2>5, FlushedIs
  <2>7. Content' = Overlay(v, pos, s)
    <3>1. Cached(pos - tag)' = Cached(pos - tag)
      BY <2>3 DEF Cached
    <3>2. call'.data = s
      BY <2>3
    <3>3. QED
      BY <2>3, <2>5, <3>1, <3>2 DEF Content
  <2>8. At = pos /\ At' = pos + Len(s) /\ call'.asked = call.asked
    BY <1>0, <2>3, IdleIs DEF At
  <2>9. F!Write(s)
    BY <2>3, <2>6, <2>7, <2>8, SameOverlay DEF F!Write, At
  <2>10. n \in 1 .. MaxPos
    BY IOAssumption
  <2>11. QED
    BY <2>9, <2>10 DEF F!FileNext
<1>2. CASE WriteFlush
  <2>1. /\ status = "open" /\ status' = "open" /\ Written(pos - tag) /\ tag' = pos
        /\ mode = "write" /\ mode' = "write" /\ offset = tag /\ pos = end /\ end = tag + BufSize
        /\ UNCHANGED <<pos, cbuf, call, answer>>
    BY <1>2 DEF WriteFlush, Writing, Full, file, IInv, CallFits, CacheAtOffset
  <2>2. pos > tag /\ pos - tag \in 0 .. pos - tag
    BY <1>0, <2>1
  <2>3. Content' = Content
    BY <2>1, <2>2, WrittenSame
  <2>4. /\ F!From(Content, tag, pos - tag) = Cached(pos - tag)
        /\ tag \in 0 .. Len(Content) /\ pos - tag \in 0 .. Len(Content)
    BY <2>1, <2>2, BlockIsContent
  <2>5. disk' = F!Overlay(disk, tag, F!From(Content, tag, pos - tag))
    BY <2>1, <2>4, SameOverlay DEF Written
  <2>6. At' = At
    BY <2>1 DEF At
  <2>7. F!WriteBack
    BY <2>1, <2>3, <2>4, <2>5, <2>6 DEF F!WriteBack, At
  <2>8. QED
    BY <2>7 DEF F!FileNext
<1>3. CASE WriteCopy
  <2>1. PICK n \in Nat \ {0} : n <= call.left /\ pos' = pos + n /\ call'.left = call.left - n
                               /\ call'.asked = call.asked
    BY <1>3, CopyIs
  <2>2. mode = "write" /\ mode' = "write" /\ disk' = disk /\ answer' = answer
    BY <1>3, CopyIs
  <2>3. At' = At
    BY <1>0, <2>1, <2>2 DEF At
  <2>4. QED
    BY <1>3, <2>1, <2>2, <2>3, CopySame DEF F!fvars, At
<1>4. CASE WriteDone
  <2>1. /\ call.op = "write" /\ call.left = 0 /\ call' = Idle /\ status = "open" /\ status' = "open"
        /\ mode = "write" /\ mode' = "write" /\ call.asked = 0 /\ Len(call.data) = 0
        /\ UNCHANGED <<disk, offset, tag, pos, cbuf, answer>>
    BY <1>4 DEF WriteDone, file, tags, IInv, CallFits
  <2>2. call.data = <<>>
    BY <2>1, Counts, SeqIs
  <2>3. call'.data = call.data /\ call'.left = call.left /\ call'.asked = call.asked
    BY <2>1, <2>2, IdleIs
  <2>4. Content' = Content
    <3>1. Cached(pos - tag)' = Cached(pos - tag)
      BY <2>1 DEF Cached
    <3>2. QED
      BY <2>1, <2>3, <3>1 DEF Content
  <2>5. At' = At
    BY <2>1, <2>3 DEF At
  <2>6. QED
    BY <2>1, <2>3, <2>4, <2>5 DEF F!fvars, At
<1>5. QED
  BY <1>1, <1>2, <1>3, <1>4

\* A flush or a close leaves in the file what its user saw; one that asserts wrote back a part.
LEMMA FlushRefines ==
  ASSUME IInv, IInv', Flush \/ Close \/ FlushAsserts
  PROVE  F!FileNext \/ UNCHANGED F!fvars
<1>0. pos \in Nat /\ tag \in Nat /\ call.left \in Nat /\ MaxPos \in Nat /\ end \in Nat /\ Len(<<>>) = 0
      /\ pos <= end /\ Len(disk) \in Nat
  BY Counts, EmptySeq
<1>1. CASE Flush \/ Close
  <2>1. /\ status = "open" /\ status' \in {"open", "closed"} /\ call = Idle /\ call' = Idle
        /\ UNCHANGED <<mode, pos>>
    BY <1>1 DEF Flush, Close, Ready, file
  <2>2. At = pos /\ At' = pos /\ call.asked = 0 /\ call'.asked = 0
    BY <1>0, <2>1, IdleIs DEF At
  <2>3. CASE mode = "write"
    <3>1. disk' = Overlay(disk, offset, Cached(pos - tag)) /\ tag' = pos /\ answer' \in {Done, Error}
      BY <1>1, <2>3 DEF Flush, Close, Written
    <3>2. disk' = Content
      BY <2>1, <2>3, <3>1, FlushedIs
    <3>3. Content' = disk'
      <4>1. CASE status' = "closed"
        BY <4>1 DEF Content
      <4>2. CASE status' # "closed"
        BY <2>1, <2>3, <3>1, <4>2, NothingWaitsNext
      <4>3. QED
        BY <4>1, <4>2
    <3>4. CASE answer' = Done
      <4>1. F!Flush
        BY <2>2, <3>2, <3>3, <3>4 DEF F!Flush, F!Done, Done, At
      <4>2. QED
        BY <4>1 DEF F!FileNext
    <3>5. CASE answer' = Error
      <4>1. pos \in 0 .. MaxPos
        BY <1>0, <2>1, <2>3 DEF IInv, Bounded
      <4>2. F!Fail
        BY <2>2, <3>2, <3>3, <3>5, <4>1 DEF F!Fail, F!Error, Error, At
      <4>3. QED
        BY <4>2 DEF F!FileNext
    <3>6. QED
      BY <3>1, <3>4, <3>5
  <2>4. CASE mode # "write"
    <3>1. mode = "read" /\ mode' = "read" /\ disk' = disk
      BY <1>1, <2>1, <2>4 DEF Flush, Close, IInv, CacheAtOffset, TypeOK
    <3>2. Content = disk /\ Content' = disk
      BY <3>1 DEF Content
    <3>3. CASE answer' = Done
      <4>1. F!Flush
        BY <2>2, <3>1, <3>2, <3>3 DEF F!Flush, F!Done, Done, At
      <4>2. QED
        BY <4>1 DEF F!FileNext
    <3>4. CASE answer' = Error
      <4>1. pos \in 0 .. MaxPos
        BY <1>0, <3>1 DEF IInv, Bounded
      <4>2. F!Fail
        BY <2>2, <3>1, <3>2, <3>4, <4>1 DEF F!Fail, F!Error, Error, At
      <4>3. QED
        BY <4>2 DEF F!FileNext
    <3>5. QED
      BY <1>1, <2>4, <3>3, <3>4 DEF Flush, Close
  <2>5. QED
    BY <2>3, <2>4
<1>2. CASE FlushAsserts
  <2>1. PICK n \in 0 .. pos - tag - 1 : Written(n)
    BY <1>2 DEF FlushAsserts
  <2>2. /\ mode = "write" /\ mode' = "write" /\ status = "open" /\ status' = "aborted" /\ tag' = tag
        /\ UNCHANGED <<pos, cbuf, call, answer>>
    BY <1>2 DEF FlushAsserts, Ready, Writing, file, tags
  <2>3. pos > tag /\ n \in 0 .. pos - tag
    BY <1>0
  <2>4. Content' = Content
    BY <2>1, <2>2, <2>3, WrittenSame
  <2>5. /\ F!From(Content, tag, n) = Cached(n)
        /\ tag \in 0 .. Len(Content) /\ n \in 0 .. Len(Content)
    BY <2>2, <2>3, BlockIsContent
  <2>6. offset = tag
    BY <2>2 DEF IInv, CacheAtOffset
  <2>7. disk' = F!Overlay(disk, tag, F!From(Content, tag, n))
    BY <2>1, <2>5, <2>6, SameOverlay DEF Written
  <2>8. At' = At
    BY <2>2 DEF At
  <2>9. F!WriteBack
    BY <2>2, <2>4, <2>5, <2>7, <2>8 DEF F!WriteBack, At
  <2>10. QED
    BY <2>9 DEF F!FileNext
<1>3. QED
  BY <1>1, <1>2

\* A seek moves the pointer; one that fails moves it where it likes, and has flushed the block.
LEMMA SeekRefines ==
  ASSUME IInv, IInv', NEW p \in Targets, SeekInside(p) \/ SeekOutside(p) \/ SeekPipe(p)
  PROVE  F!FileNext \/ UNCHANGED F!fvars
<1>0. /\ pos \in Nat /\ tag \in Nat /\ call.left \in Nat /\ MaxPos \in Nat /\ end \in Nat /\ Len(<<>>) = 0
      /\ pos <= end /\ Len(disk) \in Nat /\ p \in 0 .. MaxPos /\ p \in Nat
  BY Counts, EmptySeq, IOAssumption
<1>1. /\ call = Idle /\ call' = Idle /\ status = "open" /\ status' = "open" /\ mode' = mode
      /\ mode \in {"read", "write"}
  BY DEF SeekInside, SeekOutside, SeekPipe, Ready, file, IInv, CacheAtOffset, TypeOK
<1>2. At' = pos' /\ At = pos /\ call.asked = 0 /\ call'.asked = 0
  <2>1. pos' \in Nat
    BY DEF IInv, CacheAtOffset, TypeOK
  <2>2. /\ call.data = <<>> /\ call.left = 0 /\ call.asked = 0
        /\ call'.data = <<>> /\ call'.left = 0 /\ call'.asked = 0
    BY <1>1, IdleIs
  <2>3. At = pos - 0 \/ At = pos + 0
    BY <1>0, <2>2 DEF At
  <2>4. At' = pos' - 0 \/ At' = pos' + 0
    BY <1>0, <2>2 DEF At
  <2>5. \A x \in Nat : x - 0 = x /\ x + 0 = x
    OBVIOUS
  <2>6. QED
    BY <1>0, <2>1, <2>2, <2>3, <2>4, <2>5
<1>3. mode = "read" => Content = disk /\ Content' = disk'
  <2>1. mode' = mode
    BY <1>1
  <2>2. (mode = "read" => Content = disk) /\ (mode' = "read" => Content' = disk')
    BY DEF Content
  <2>3. QED
    BY <2>1, <2>2
<1>4. ASSUME answer' = Error, pos' \in 0 .. MaxPos,
             \/ mode = "read" /\ disk' = disk
             \/ mode = "write" /\ disk' = Overlay(disk, offset, Cached(end - tag)) /\ tag' = pos'
      PROVE  F!FileNext
  <2>1. CASE mode = "read" /\ disk' = disk
    <3>1. F!Fail
      BY <1>2, <1>3, <1>4, <2>1 DEF F!Fail, F!Error, Error, At
    <3>2. QED
      BY <3>1 DEF F!FileNext
  <2>2. CASE mode = "write" /\ disk' = Overlay(disk, offset, Cached(end - tag)) /\ tag' = pos'
    <3>1. end = pos
      BY <1>1, <2>2 DEF IInv, CacheAtOffset
    <3>2. disk' = Content
      BY <1>1, <2>2, <3>1, FlushedIs
    <3>3. Content' = disk'
      BY <1>1, <2>2, NothingWaitsNext
    <3>4. F!Fail
      BY <1>2, <1>4, <3>2, <3>3 DEF F!Fail, F!Error, Error, At
    <3>5. QED
      BY <3>4 DEF F!FileNext
  <2>3. QED
    BY <1>4, <2>1, <2>2
<1>5. ASSUME answer' = Done, pos' = p, disk' = disk, Content' = Content
      PROVE  F!FileNext
  <2>1. F!Seek(p)
    BY <1>2, <1>5 DEF F!Seek, F!Done, Done, At
  <2>2. QED
    BY <1>0, <2>1 DEF F!FileNext
<1>6. CASE SeekInside(p)
  <2>1. /\ mode = "write" => p = pos
        /\ pos' = p /\ answer' = Done
        /\ UNCHANGED <<disk, offset, tag, cbuf, call>>
    BY <1>6 DEF SeekInside, file
  <2>2. Content' = Content
    <3>1. CASE mode = "read"
      BY <1>3, <2>1, <3>1
    <3>2. CASE mode # "read"
      <4>1. pos' = pos
        BY <1>1, <2>1, <3>2
      <4>2. QED
        BY <1>1, <2>1, <4>1 DEF Content, Overlay, Cached
    <3>3. QED
      BY <3>1, <3>2
  <2>3. QED
    BY <1>5, <2>1, <2>2
<1>7. CASE SeekOutside(p)
  <2>1. CASE answer' # Error
    <3>1. mode = "read" /\ pos' = p /\ answer' = Done /\ disk' = disk
      BY <1>0, <1>7, <2>1, OutsideIs
    <3>2. QED
      BY <1>3, <1>5, <3>1
  <2>2. CASE answer' = Error
    <3>1. Error # Done
      BY EmptySeq DEF Error, Done
    <3>2. pos' = Aligned(p) /\ tag' = pos'
          /\ \/ mode = "read" /\ disk' = disk
             \/ mode = "write" /\ disk' = Overlay(disk, offset, Cached(end - tag))
      BY <1>1, <1>7, <2>2, <3>1 DEF SeekOutside
    <3>3. Aligned(p) \in Nat /\ Aligned(p) <= p
      BY <1>0, AlignedIs
    <3>4. pos' \in 0 .. MaxPos
      BY <1>0, <3>2, <3>3
    <3>5. QED
      BY <1>4, <2>2, <3>2, <3>4
  <2>3. QED
    BY <2>1, <2>2
<1>8. CASE SeekPipe(p)
  <2>1. pos' = end /\ answer' = Error
        /\ \/ mode = "read" /\ disk' = disk
           \/ mode = "write" /\ disk' = Overlay(disk, offset, Cached(end - tag)) /\ tag' = pos'
    BY <1>1, <1>8 DEF SeekPipe, Written
  <2>2. end \in 0 .. MaxPos
    <3>1. mode = "read" => end <= MaxPos
      BY <1>0 DEF IInv, Bounded
    <3>2. mode = "write" => end = pos /\ pos + call.left <= MaxPos
      BY <1>1 DEF IInv, CacheAtOffset, Bounded
    <3>3. QED
      BY <1>0, <1>1, <3>1, <3>2
  <2>3. QED
    BY <1>4, <2>1, <2>2
<1>9. QED
  BY <1>6, <1>7, <1>8

LEMMA InitRefines == Init => F!FileInit
<1> SUFFICES ASSUME Init PROVE F!FileInit
  OBVIOUS
<1>1. IInv
  BY InitIInv
<1>2. /\ status = "open" /\ call = Idle /\ tag = pos /\ pos = 0 /\ answer = Done /\ Len(<<>>) = 0
      /\ mode \in {"read", "write"}
  BY EmptySeq DEF Init
<1>3. Content = disk
  <2>1. CASE mode = "read"
    BY <2>1 DEF Content
  <2>2. CASE mode = "write"
    BY <1>1, <1>2, <2>2, NothingWaits
  <2>3. QED
    BY <1>2, <2>1, <2>2
<1>4. At = 0 /\ call.asked = 0
  <2>1. call.data = <<>> /\ call.left = 0 /\ call.asked = 0
    BY <1>2, IdleIs
  <2>2. Len(call.data) = 0
    BY <1>2, <2>1
  <2>3. pos = 0 /\ Len(call.data) = 0 /\ call.left = 0
    BY <1>2, <2>1, <2>2
  <2>4. pos - Len(call.data) = 0 /\ pos + call.left = 0
    BY ONLY <2>3
  <2>5. QED
    BY <2>1, <2>4 DEF At
<1>5. QED
  BY <1>2, <1>3, <1>4 DEF F!FileInit, F!Done, Done, At

\* Reads and writes through the cache of io61.cc are those of a plain file pointer: whatever the
\* block size, and with reads cut short, errors, seeks and pipes below.
THEOREM CacheImplementsFile == Spec => ImplementsFile
<1>1. IInv /\ IInv' /\ [Next]_vars => [F!FileNext]_(F!fvars)
  <2> SUFFICES ASSUME IInv, IInv', [Next]_vars PROVE F!FileNext \/ UNCHANGED F!fvars
    OBVIOUS
  <2>1. CASE LoopStep
    BY <2>1, ReadRefines, WriteRefines DEF LoopStep
  <2>2. CASE FlushAsserts \/ Flush \/ Close
    BY <2>2, FlushRefines
  <2>3. CASE \E n \in Sizes : CallRead(n) \/ \E s \in [1 .. n -> Byte] : CallWrite(s)
    <3>1. PICK n \in Sizes : CallRead(n) \/ \E s \in [1 .. n -> Byte] : CallWrite(s)
      BY <2>3
    <3>2. CASE CallRead(n)
      BY <3>2, ReadRefines
    <3>3. CASE \E s \in [1 .. n -> Byte] : CallWrite(s)
      BY <3>3, WriteRefines
    <3>4. QED
      BY <3>1, <3>2, <3>3
  <2>4. CASE \E p \in Targets : SeekInside(p) \/ SeekOutside(p) \/ SeekPipe(p)
    BY <2>4, SeekRefines
  <2>5. CASE UNCHANGED vars
    BY <2>5 DEF vars, file, tags, F!fvars, Content, Overlay, Cached
  <2>6. QED
    BY <2>1, <2>2, <2>3, <2>4, <2>5 DEF Next
<1>2. QED
  BY <1>1, InitRefines, AlwaysIInv, PTL DEF Spec, ImplementsFile, F!FileSpec

-----------------------------------------------------------------------------
(* The inductive invariant of the shell.                                   *)

\* What parse_line makes of a line: no list and no pipeline is empty, a list of more than one
\* pipeline is of && or of ||, and commands name programs.
IsList(s) == Len(s) \in Nat /\ DOMAIN s = 1 .. Len(s)
Typed(cmd) == (Kind(cmd) = "process" /\ cmd.args[1].kind # "cd") => cmd.args[1].name \in DOMAIN Programs
PipelineRight(pl) == /\ IsList(pl.cmds) /\ Len(pl.cmds) >= 1
                     /\ \A k \in DOMAIN pl.cmds : Typed(pl.cmds[k])
CondRight(list) == /\ IsList(list) /\ Len(list) >= 1
                   /\ \A i \in DOMAIN list : PipelineRight(list[i])
                   /\ Len(list) >= 2 => list[1].op \in {"&&", "||"}
CodeRight(code) == IsList(code) /\ \A c \in DOMAIN code : CondRight(code[c])

\* What a list has done: a pipeline that ran saw all before it end as wanted; one that
\* did not was kept from it, and has the status that did.
Want(list) == IF list[1].op = "&&" THEN "ok" ELSE "bad"
Other(list) == IF list[1].op = "&&" THEN "bad" ELSE "ok"
Read(list, ran, stat) ==
  \A j \in DOMAIN ran :
    /\ ran[j] => \A k \in 1 .. (j - 1) : stat[k] = Want(list)
    /\ ~ran[j] => /\ j \in DOMAIN stat /\ stat[j] = Other(list)
                  /\ \E k \in 1 .. (j - 1) : ran[k] /\ stat[k] # Want(list)

Working == {"pick", "fork", "close", "claim", "wait"}
AtWork(r) ==
  /\ r.c \in DOMAIN r.code
  /\ r.ran \in Seq(BOOLEAN) /\ r.stat \in Seq({"ok", "bad"})
  /\ r.i \in Nat \ {0} /\ Len(r.stat) = r.i - 1
  /\ Len(r.ran) = IF r.step = "pick" THEN r.i - 1 ELSE r.i
  /\ r.i <= Len(r.code[r.c]) + 1
  /\ r.step # "pick" => r.i <= Len(r.code[r.c]) /\ r.ran[r.i]
  /\ r.step \in {"fork", "close"} => r.k \in DOMAIN r.code[r.c][r.i].cmds
  /\ Read(r.code[r.c], r.ran, r.stat)

Fields(r) == r = [code |-> r.code, c |-> r.c, i |-> r.i, k |-> r.k, step |-> r.step, stat |-> r.stat, ran |-> r.ran,
                  last |-> r.last, pgid |-> r.pgid, rd |-> r.rd, wr |-> r.wr, quiet |-> r.quiet, group |-> r.group]
ShellRight(p, r) ==
  /\ Fields(r)
  /\ r.step \in Working \cup {"prompt", "list", "stopped", "ended", "gone"}
  /\ r.pgid # Shell
  /\ r.c \in Nat \ {0} /\ CodeRight(r.code)
  /\ p # Shell => Len(r.code) = 1 /\ Op(r.code[1]) = "&"
  /\ r.step \in Working => AtWork(r)
  /\ r.step \in {"fork", "close", "claim", "wait"} => (p # Shell => r.quiet) /\ (r.quiet => r.pgid = 0)

\* The ends of its pipes a shell has open: of the pipe to the command it is at, and from it.
EndsRight(r, mine) ==
  /\ r.step \in {"prompt", "list", "pick", "wait"} => mine = {}
  /\ r.step = "fork" => mine \subseteq {<<r.rd, "r">>}
  /\ r.step = "close" => mine \subseteq {<<r.rd, "r">>, <<r.wr, "r">>, <<r.wr, "w">>}

KidFields(v) == v = [parent |-> v.parent, cmd |-> v.cmd, pc |-> v.pc, in |-> v.in, out |-> v.out, own |-> v.own,
                     left |-> v.left, code |-> v.code, group |-> v.group, cd |-> v.cd, execed |-> v.execed]
KidRight(v) ==
  /\ KidFields(v)
  /\ v.pc \in {"setup", "read", "write", "stopped", "zombie", "gone"}
  /\ v.left \in Nat /\ v.code \in {"ok", "bad"} /\ v.cd \in {"none", "ok", "bad"}
  /\ v.pc \in {"read", "write"} => v.cd = "none"
  /\ v.cd = "none" => v.cmd.args[1].name \in DOMAIN Programs
KidEnds(v, mine) == mine \subseteq {<<v.in, "r">>, <<v.out, "w">>, <<v.own, "r">>}

Procs ==
  /\ sh = [p \in DOMAIN sh |-> sh[p]] /\ kid = [q \in DOMAIN kid |-> kid[q]] /\ ends = [p \in DOMAIN ends |-> ends[p]]
  /\ Cardinality(DOMAIN ends) \in Nat /\ DOMAIN ends = 1 .. Cardinality(DOMAIN ends)
  /\ DOMAIN sh \cap DOMAIN kid = {} /\ DOMAIN sh \cup DOMAIN kid = DOMAIN ends
  /\ Shell \in DOMAIN sh
\* The terminal is away from a shell in its own group only while it waits.
FgRight(f, r) == f # Shell => r.step = "ended" \/ (r.step = "wait" /\ ~r.quiet) \/ r.group # Shell
ShellInv ==
  /\ Procs
  /\ todo \in Seq(Lines)
  /\ buf \in Seq(0 .. PipeSize)
  /\ \A p \in DOMAIN sh : ShellRight(p, sh[p]) /\ EndsRight(sh[p], ends[p])
  /\ \A p \in DOMAIN sh : sh[p].last # 0 => sh[p].last \in DOMAIN kid
  /\ \A q \in DOMAIN kid : KidRight(kid[q]) /\ KidEnds(kid[q], ends[q])
  /\ FgRight(fg, sh[Shell])

-----------------------------------------------------------------------------
(***************************************************************************)
(* Grouping.  The fold over the items of a line is a recursive function    *)
(* over the sets of their places; that there is one, and only one, is      *)
(* shown for a least set without.                                          *)
(***************************************************************************)
Joins(level, items, S, g) ==
  g = [t \in SUBSET S |-> IF t = {} THEN <<>> ELSE Joined(g[t \ {Max(t)}], items[Max(t)], level)]

\* A set of finite sets has one of which no proper subset is in it.
LEMMA Smallest ==
  ASSUME NEW A, A # {}, \A s \in A : IsFiniteSet(s)
  PROVE  \E s \in A : \A t \in A : t \subseteq s => t = s
<1>1. PICK R : R = OpToRel(<, Nat)
  OBVIOUS
<1>2. IsWellFoundedOn(R, Nat)
  BY <1>1, NatLessThanWellFounded
<1>3. PICK N : N = {Cardinality(s) : s \in A}
  OBVIOUS
<1>4. N \subseteq Nat /\ N # {}
  BY <1>3, FS_CardinalityType
<1>5. PICK n \in N : \A k \in N : ~ (<<k, n>> \in R)
  BY <1>2, <1>4, WFMin
<1>6. PICK s \in A : n = Cardinality(s)
  BY <1>3
<1>7. ASSUME NEW t \in A, t \subseteq s, t # s PROVE FALSE
  <2>1. Cardinality(t) < Cardinality(s)
    <3>1. IsFiniteSet(s) /\ IsFiniteSet(t)
      OBVIOUS
    <3>2. Cardinality(t) <= Cardinality(s) /\ Cardinality(t) # Cardinality(s)
      BY <1>7, <3>1, FS_Subset
    <3>3. QED
      BY <3>1, <3>2, FS_CardinalityType
  <2>2. Cardinality(t) \in N /\ Cardinality(t) \in Nat /\ n \in Nat
    BY <1>3, <1>4
  <2>3. <<Cardinality(t), n>> \in R
    BY <1>1, <1>6, <2>1, <2>2 DEF OpToRel
  <2>4. QED
    BY <1>5, <2>2, <2>3
<1>8. QED
  BY <1>6, <1>7

\* A nonempty set of places has a last one.
LEMMA LastPlace ==
  ASSUME NEW n \in Nat, NEW t \in SUBSET (1 .. n), t # {}
  PROVE  Max(t) \in t /\ \A y \in t : y <= Max(t)
<1>1. PICK R : R = OpToRel(<, Nat)
  OBVIOUS
<1>2. IsWellFoundedOn(R, Nat)
  BY <1>1, NatLessThanWellFounded
<1>3. PICK N : N = {n - y : y \in t}
  OBVIOUS
<1>4. N \subseteq Nat /\ N # {}
  <2>1. \A y \in t : n - y \in Nat
    OBVIOUS
  <2>2. N \subseteq Nat
    BY <1>3, <2>1, Zenon
  <2>3. N # {}
    BY <1>3, Zenon
  <2>4. QED
    BY <2>2, <2>3
<1>5. PICK m \in N : \A k \in N : ~ (<<k, m>> \in R)
  BY <1>2, <1>4, WFMin
<1>6. PICK x \in t : m = n - x
  BY <1>3
<1>7. ASSUME NEW y \in t PROVE x >= y
  <2>1. n - y \in N /\ n - y \in Nat /\ m \in Nat
    BY <1>3, <1>4
  <2>2. ~ (n - y < m)
    BY <1>1, <1>5, <2>1 DEF OpToRel
  <2>3. x \in Int /\ y \in Int
    OBVIOUS
  <2>4. QED
    BY <1>6, <2>2, <2>3
<1>8. PICK z : z = Max(t)
  OBVIOUS
<1>9. z \in t /\ \A y \in t : z >= y
  <2>1. \E q \in t : \A y \in t : q >= y
    BY <1>7
  <2>2. z = CHOOSE q \in t : \A y \in t : q >= y
    BY <1>8 DEF Max
  <2>3. QED
    BY <2>1, <2>2, Zenon
<1>10. QED
  BY <1>8, <1>9

\* What joins at some places joins at their subsets.
LEMMA JoinsBelow ==
  ASSUME NEW level, NEW items, NEW S, NEW g, Joins(level, items, S, g), NEW T, T \subseteq S
  PROVE  Joins(level, items, T, [t \in SUBSET T |-> g[t]])
<1>1. PICK h : h = [t \in SUBSET T |-> g[t]]
  OBVIOUS
<1>2. ASSUME NEW t \in SUBSET T
      PROVE  h[t] = IF t = {} THEN <<>> ELSE Joined(h[t \ {Max(t)}], items[Max(t)], level)
  <2>1. h[t] = g[t] /\ h[t \ {Max(t)}] = g[t \ {Max(t)}]
    BY <1>1
  <2>2. t \in SUBSET S
    OBVIOUS
  <2>3. g[t] = IF t = {} THEN <<>> ELSE Joined(g[t \ {Max(t)}], items[Max(t)], level)
    BY <2>2 DEF Joins
  <2>4. QED
    BY <2>1, <2>3
<1>3. h = [t \in SUBSET T |-> IF t = {} THEN <<>> ELSE Joined(h[t \ {Max(t)}], items[Max(t)], level)]
  BY <1>1, <1>2
<1>4. QED
  BY <1>1, <1>3 DEF Joins

LEMMA JoinsOnce ==
  ASSUME NEW level, NEW items, NEW n \in Nat, NEW S \in SUBSET (1 .. n), NEW g, NEW h, Joins(level, items, S, g), Joins(level, items, S, h)
  PROVE  g = h
<1>1. PICK A : A = {t \in SUBSET S : g[t] # h[t]}
  OBVIOUS
<1>2. CASE A = {}
  <2>1. \A t \in SUBSET S : g[t] = h[t]
    BY <1>1, <1>2
  <2>2. DOMAIN g = SUBSET S /\ DOMAIN h = SUBSET S /\ g = [t \in DOMAIN g |-> g[t]] /\ h = [t \in DOMAIN h |-> h[t]]
    BY DEF Joins
  <2>3. QED
    BY <2>1, <2>2
<1>3. CASE A # {}
  <2>1. \A t \in A : IsFiniteSet(t)
    <3>1. IsFiniteSet(1 .. n)
      BY FS_Interval
    <3>2. \A t \in A : t \subseteq 1 .. n
      BY <1>1
    <3>3. QED
      BY <3>1, <3>2, FS_Subset, Zenon
  <2>2. PICK t \in A : \A u \in A : u \subseteq t => u = t
    BY <1>3, <2>1, Smallest
  <2>3. t \in SUBSET S /\ g[t] # h[t]
    BY <1>1
  <2>4. /\ g[t] = IF t = {} THEN <<>> ELSE Joined(g[t \ {Max(t)}], items[Max(t)], level)
        /\ h[t] = IF t = {} THEN <<>> ELSE Joined(h[t \ {Max(t)}], items[Max(t)], level)
    BY <2>3 DEF Joins
  <2>5. t # {} /\ t \ {Max(t)} \subseteq t /\ t \ {Max(t)} # t
    BY <2>3, <2>4, LastPlace
  <2>6. t \ {Max(t)} \in SUBSET S /\ t \ {Max(t)} \notin A
    BY <2>2, <2>3, <2>5
  <2>7. QED
    BY <1>1, <2>3, <2>4, <2>6
<1>4. QED
  BY <1>2, <1>3

\* What is grouped of a sequence is a value at all its places.
LEMMA GroupedIs ==
  ASSUME NEW level, NEW items, NEW n \in Nat, DOMAIN items = 1 .. n, NEW g, Joins(level, items, 1 .. n, g)
  PROVE  Grouped(items, level) = g[1 .. n]
<1>1. PICK k : k = (CHOOSE q : Joins(level, items, DOMAIN items, q))
  OBVIOUS
<1>2. Joins(level, items, 1 .. n, k)
  BY <1>1
<1>3. k = g
  BY <1>2, JoinsOnce
<1>4. Grouped(items, level) = (CHOOSE q : Joins(level, items, DOMAIN items, q))[DOMAIN items]
  BY Zenon DEF Grouped, FoldLeft, MapThenFoldSet, Joins
<1>5. QED
  BY <1>1, <1>3, <1>4

\* Every sequence is grouped.
LEMMA JoinsExist ==
  ASSUME NEW level, NEW items, NEW n \in Nat
  PROVE  \E g : Joins(level, items, 1 .. n, g)
<1>1. PICK A : A = {S \in SUBSET (1 .. n) : ~ \E g : Joins(level, items, S, g)}
  OBVIOUS
<1>2. CASE A = {}
  BY <1>1, <1>2
<1>3. CASE A # {}
  <2>1. \A S \in A : IsFiniteSet(S)
    <3>1. IsFiniteSet(1 .. n)
      BY FS_Interval
    <3>2. \A t \in A : t \subseteq 1 .. n
      BY <1>1
    <3>3. QED
      BY <3>1, <3>2, FS_Subset, Zenon
  <2>2. PICK S \in A : \A u \in A : u \subseteq S => u = S
    BY <1>3, <2>1, Smallest
  <2>3. S \in SUBSET (1 .. n) /\ ~ \E g : Joins(level, items, S, g)
    BY <1>1
  <2>4. PICK own : own = [t \in SUBSET (1 .. n) |-> CHOOSE g : Joins(level, items, t, g)]
    OBVIOUS
  <2>5. ASSUME NEW t \in SUBSET S, t # S PROVE Joins(level, items, t, own[t])
    <3>1. t \in SUBSET (1 .. n) /\ t \notin A
      BY <2>2, <2>3, <2>5
    <3>2. \E g : Joins(level, items, t, g)
      BY <1>1, <3>1
    <3>3. own[t] = CHOOSE g : Joins(level, items, t, g)
      BY <2>4, <3>1
    <3>4. QED
      BY <3>2, <3>3, Zenon
  <2>6. ASSUME NEW t \in SUBSET S, t # S, t # {}
        PROVE  own[t][t] = Joined(own[t \ {Max(t)}][t \ {Max(t)}], items[Max(t)], level)
    <3>1. PICK u : u = t \ {Max(t)}
      OBVIOUS
    <3>2. u \in SUBSET S /\ u # S /\ u \subseteq t
      BY <2>6, <3>1
    <3>3. Joins(level, items, t, own[t]) /\ Joins(level, items, u, own[u])
      BY <2>5, <2>6, <3>2
    <3>4. PICK h : h = [v \in SUBSET u |-> own[t][v]]
      OBVIOUS
    <3>5. Joins(level, items, u, h)
      BY <3>2, <3>3, <3>4, JoinsBelow
    <3>6. h = own[u]
      <4>1. u \in SUBSET (1 .. n)
        BY <2>3, <3>2
      <4>2. QED
        BY <3>3, <3>5, <4>1, JoinsOnce
    <3>7. own[t][u] = own[u][u]
      BY <3>4, <3>6
    <3>8. own[t][t] = Joined(own[t][u], items[Max(t)], level)
      BY <2>6, <3>1, <3>3 DEF Joins
    <3>9. QED
      BY <3>1, <3>7, <3>8
  <2>7. PICK h : h = [t \in SUBSET S |-> IF t = {} THEN <<>>
                        ELSE Joined(own[t \ {Max(t)}][t \ {Max(t)}], items[Max(t)], level)]
    OBVIOUS
  <2>8. ASSUME NEW t \in SUBSET S, t # {} PROVE h[t \ {Max(t)}] = own[t \ {Max(t)}][t \ {Max(t)}]
    <3>1. PICK u : u = t \ {Max(t)}
      OBVIOUS
    <3>2. u \in SUBSET S /\ u # S
      BY <2>3, <2>8, <3>1, LastPlace
    <3>3. CASE u = {}
      <4>1. h[u] = <<>>
        BY <2>7, <3>2, <3>3
      <4>2. own[u][u] = <<>>
        BY <2>5, <3>2, <3>3 DEF Joins
      <4>3. QED
        BY <3>1, <4>1, <4>2
    <3>4. CASE u # {}
      <4>1. h[u] = Joined(own[u \ {Max(u)}][u \ {Max(u)}], items[Max(u)], level)
        BY <2>7, <3>2, <3>4
      <4>2. QED
        BY <2>6, <3>1, <3>2, <3>4, <4>1
    <3>5. QED
      BY <3>3, <3>4
  <2>9. h = [t \in SUBSET S |-> IF t = {} THEN <<>> ELSE Joined(h[t \ {Max(t)}], items[Max(t)], level)]
    BY <2>7, <2>8
  <2>10. QED
    BY <2>3, <2>9 DEF Joins
<1>4. QED
  BY <1>2, <1>3



\* What has been grouped: no group is empty, and a list of more than one is of && or of ||.
Groups(V, level, gs) ==
  /\ gs \in Seq(Seq(V))
  /\ \A g \in DOMAIN gs : /\ Len(gs[g]) >= 1
                          /\ level = "conditional" /\ Len(gs[g]) >= 2 => gs[g][1].op \in {"&&", "||"}

LEMMA JoinedRight ==
  ASSUME NEW V, NEW level, NEW gs, Groups(V, level, gs), NEW item \in V
  PROVE  Groups(V, level, Joined(gs, item, level))
<1>1. gs \in Seq(Seq(V)) /\ Len(gs) \in Nat /\ DOMAIN gs = 1 .. Len(gs)
  BY DEF Groups
<1>2. CASE ~(gs # <<>> /\ LeavesOpen(level, gs[Len(gs)]))
  <2>1. PICK one, new : one = <<item>> /\ new = Append(gs, one) /\ one \in Seq(V) /\ Len(one) = 1
    <3>1. <<item>> \in Seq(V) /\ Len(<<item>>) = 1
      OBVIOUS
    <3>2. QED
      BY <3>1, Zenon
  <2>2. /\ new \in Seq(Seq(V)) /\ Len(new) = Len(gs) + 1 /\ DOMAIN new = 1 .. Len(gs) + 1
        /\ new[Len(gs) + 1] = one /\ \A g \in 1 .. Len(gs) : new[g] = gs[g]
    BY <1>1, <2>1
  <2>3. Joined(gs, item, level) = new
    BY <1>2, <2>1 DEF Joined
  <2>4. \A g \in DOMAIN new : g = Len(gs) + 1 \/ g \in DOMAIN gs
    BY <1>1, <2>2
  <2>5. QED
    BY <1>1, <2>1, <2>2, <2>3, <2>4 DEF Groups
<1>3. CASE gs # <<>> /\ LeavesOpen(level, gs[Len(gs)])
  <2>1. PICK n : n = Len(gs) /\ n \in DOMAIN gs
    BY <1>1, <1>3
  <2>2. PICK last : last = gs[n] /\ last \in Seq(V) /\ Len(last) \in Nat /\ Len(last) >= 1
    BY <1>1, <2>1 DEF Groups
  <2>3. PICK more : /\ more = Append(last, item) /\ more \in Seq(V) /\ Len(more) = Len(last) + 1
                    /\ more[1] = last[1]
    <3>1. PICK m : m = Append(last, item)
      OBVIOUS
    <3>2. m \in Seq(V) /\ Len(m) = Len(last) + 1 /\ m[1] = last[1]
      BY <2>2, <3>1
    <3>3. QED
      BY <3>1, <3>2
  <2>4. level = "conditional" => last[1].op \in {"&&", "||"}
    BY <1>3, <2>1, <2>2 DEF LeavesOpen
  <2>5. PICK new : new = [gs EXCEPT ![n] = more]
    OBVIOUS
  <2>6. /\ new \in Seq(Seq(V)) /\ DOMAIN new = DOMAIN gs
        /\ new[n] = more /\ \A g \in DOMAIN gs : g # n => new[g] = gs[g]
    BY <1>1, <2>1, <2>3, <2>5
  <2>7. Joined(gs, item, level) = new
    BY <1>3, <2>1, <2>2, <2>3, <2>5 DEF Joined
  <2>8. \A g \in DOMAIN new : Len(new[g]) >= 1 /\ (level = "conditional" /\ Len(new[g]) >= 2 => new[g][1].op \in {"&&", "||"})
    <3>1. Len(more) >= 1 /\ (level = "conditional" => more[1].op \in {"&&", "||"})
      BY <2>2, <2>3, <2>4
    <3>2. \A g \in DOMAIN gs : Len(gs[g]) >= 1 /\ (level = "conditional" /\ Len(gs[g]) >= 2 => gs[g][1].op \in {"&&", "||"})
      BY DEF Groups
    <3>3. QED
      BY <2>6, <3>1, <3>2, Zenon
  <2>9. QED
    BY <2>6, <2>7, <2>8 DEF Groups
<1>4. QED
  BY <1>2, <1>3

LEMMA GroupsRight ==
  ASSUME NEW V, NEW level, NEW items \in Seq(V)
  PROVE  Groups(V, level, Grouped(items, level))
<1>1. PICK n \in Nat : n = Len(items) /\ DOMAIN items = 1 .. n
  OBVIOUS
<1>2. Groups(V, level, <<>>)
  BY DEF Groups
<1>3. PICK g : Joins(level, items, 1 .. n, g)
  BY <1>1, JoinsExist
<1>4. PICK A : A = {t \in SUBSET (1 .. n) : ~Groups(V, level, g[t])}
  OBVIOUS
<1>5. CASE A = {}
  <2>1. 1 .. n \in SUBSET (1 .. n)
    OBVIOUS
  <2>2. Groups(V, level, g[1 .. n])
    BY <1>4, <1>5, <2>1
  <2>3. Grouped(items, level) = g[1 .. n]
    BY <1>1, <1>3, GroupedIs
  <2>4. QED
    BY <2>2, <2>3
<1>6. CASE A # {}
  <2>1. \A t \in A : IsFiniteSet(t)
    <3>1. IsFiniteSet(1 .. n)
      BY FS_Interval
    <3>2. \A t \in A : t \subseteq 1 .. n
      BY <1>4
    <3>3. QED
      BY <3>1, <3>2, FS_Subset, Zenon
  <2>2. PICK t \in A : \A u \in A : u \subseteq t => u = t
    BY <1>6, <2>1, Smallest
  <2>3. t \in SUBSET (1 .. n) /\ ~Groups(V, level, g[t])
    BY <1>4
  <2>4. g[t] = IF t = {} THEN <<>> ELSE Joined(g[t \ {Max(t)}], items[Max(t)], level)
    BY <1>3, <2>3 DEF Joins
  <2>5. t # {}
    BY <1>2, <2>3, <2>4
  <2>6. Max(t) \in t
    BY <2>3, <2>5, LastPlace
  <2>7. PICK u, o : u = t \ {Max(t)} /\ o = items[Max(t)]
    OBVIOUS
  <2>8. u \in SUBSET (1 .. n) /\ u \subseteq t /\ u # t
    BY <2>3, <2>6, <2>7
  <2>9. Groups(V, level, g[u])
    BY <1>4, <2>2, <2>8
  <2>10. o \in V
    <3>1. PICK k : k = Max(t)
      OBVIOUS
    <3>2. k \in DOMAIN items /\ o = items[k]
      BY <1>1, <2>3, <2>6, <2>7, <3>1
    <3>3. QED
      BY <3>2
  <2>11. Groups(V, level, Joined(g[u], o, level))
    BY <2>9, <2>10, JoinedRight
  <2>12. QED
    BY <2>3, <2>4, <2>5, <2>7, <2>11
<1>7. QED
  BY <1>5, <1>6

\* What is evaluated stays what it is.
LEMMA EvaluatedIs ==
  ASSUME NEW V, NEW s \in Seq(V)
  PROVE  Evaluated(s) = s
<1>1. Len(s) \in Nat /\ DOMAIN s = 1 .. Len(s)
  OBVIOUS
<1>2. PICK t : t = SubSeq(s, 1, Len(s))
  OBVIOUS
<1>3. t = s
  BY <1>1, <1>2
<1>4. QED
  BY <1>2, <1>3 DEF Evaluated

\* parse_line: what a line becomes.
LEMMA ParsedRight ==
  ASSUME NEW line \in Lines
  PROVE  CodeRight(Parsed[line])
<1>1. line \in Seq(Tokens)
  <2>1. PICK script \in Scripts : \E i \in DOMAIN script : line = script[i]
    BY DEF Lines
  <2>2. script \in Seq(Seq(Tokens))
    BY ShellAssumption
  <2>3. QED
    BY <2>1, <2>2
<1>2. PICK segments : segments = Grouped(line, "command") /\ segments \in Seq(Seq(Tokens))
  BY <1>1, GroupsRight DEF Groups
<1>3. PICK C : C = {CommandOf(segments[i]) : i \in DOMAIN segments}
  OBVIOUS
<1>4. Commands(line) \in Seq(C)
  <2>1. PICK s : s = [i \in DOMAIN segments |-> CommandOf(segments[i])]
    OBVIOUS
  <2>2. s \in Seq(C)
    <3>1. \A i \in DOMAIN segments : CommandOf(segments[i]) \in C
      BY <1>3
    <3>2. DOMAIN segments = 1 .. Len(segments) /\ Len(segments) \in Nat
      BY <1>2
    <3>3. QED
      BY <2>1, <3>1, <3>2
  <2>3. Commands(line) = Evaluated(s)
    BY <1>2, <2>1, Zenon DEF Commands
  <2>4. QED
    BY <2>2, <2>3, EvaluatedIs
<1>5. PICK ps : ps = Grouped(Commands(line), "pipeline") /\ ps \in Seq(Seq(C)) /\ \A i \in DOMAIN ps : Len(ps[i]) >= 1
  BY <1>4, GroupsRight DEF Groups
<1>6. PICK W : W = {[cmds |-> ps[i], op |-> Op(ps[i])] : i \in DOMAIN ps}
  OBVIOUS
<1>7. Pipelines(line) \in Seq(W)
  <2>1. PICK s : s = [i \in DOMAIN ps |-> [cmds |-> ps[i], op |-> Op(ps[i])]]
    OBVIOUS
  <2>2. s \in Seq(W)
    <3>1. \A i \in DOMAIN ps : [cmds |-> ps[i], op |-> Op(ps[i])] \in W
      BY <1>6
    <3>2. DOMAIN ps = 1 .. Len(ps) /\ Len(ps) \in Nat
      BY <1>5
    <3>3. QED
      BY <2>1, <3>1, <3>2
  <2>3. Pipelines(line) = Evaluated(s)
    BY <1>5, <2>1, Zenon DEF Pipelines
  <2>4. QED
    BY <2>2, <2>3, EvaluatedIs
<1>8. \A w \in W : w.cmds \in Seq(C) /\ Len(w.cmds) >= 1
  BY <1>5, <1>6
<1>9. PICK code : code = ParseLine(line) /\ Groups(W, "conditional", code)
  BY <1>7, GroupsRight DEF ParseLine
<1>10. Parsed[line] = code
  BY <1>9, Zenon DEF Parsed
<1>11. code \in Seq(Seq(W)) /\ IsList(code)
  BY <1>9 DEF Groups, IsList
<1>12. ASSUME NEW c \in DOMAIN code PROVE CondRight(code[c])
  <2>1. PICK list : list = code[c] /\ list \in Seq(W) /\ Len(list) >= 1 /\ (Len(list) >= 2 => list[1].op \in {"&&", "||"})
    BY <1>9, <1>11, <1>12 DEF Groups
  <2>2. ASSUME NEW i \in DOMAIN list PROVE PipelineRight(list[i])
    <3>1. list[i] \in W
      BY <2>1, <2>2
    <3>2. PICK cmds : cmds = list[i].cmds /\ cmds \in Seq(C) /\ Len(cmds) >= 1
      BY <1>8, <3>1
    <3>3. ASSUME NEW k \in DOMAIN cmds PROVE Typed(cmds[k])
      BY <1>10, <1>12, <2>1, <2>2, <3>2, <3>3, ProgramsAssumption, Zenon DEF Typed
    <3>4. QED
      BY <3>2, <3>3 DEF PipelineRight, IsList
  <2>3. QED
    BY <2>1, <2>2 DEF CondRight, IsList
<1>13. QED
  BY <1>10, <1>11, <1>12 DEF CodeRight


-----------------------------------------------------------------------------
(* Steps of one shell, of one command, and of a new process.               *)
LEMMA OneShell ==
  ASSUME ShellInv, NEW p \in DOMAIN sh, NEW r, NEW mine,
         Go(p, r), ends' = [ends EXCEPT ![p] = mine],
         ShellRight(p, r), EndsRight(r, mine), r.last # 0 => r.last \in DOMAIN kid,
         todo' \in Seq(Lines), buf' \in Seq(0 .. PipeSize),
         kid' = [q \in DOMAIN kid |-> kid'[q]], \A q \in DOMAIN kid : KidRight(kid'[q]) /\ KidEnds(kid'[q], ends[q]),
         IF p = Shell THEN FgRight(fg', r) ELSE fg' = fg
  PROVE  ShellInv'
<1>1. /\ DOMAIN sh' = DOMAIN sh /\ sh'[p] = r /\ \A t \in DOMAIN sh : t # p => sh'[t] = sh[t]
      /\ sh' = [t \in DOMAIN sh' |-> sh'[t]]
  <2>1. sh = [t \in DOMAIN sh |-> sh[t]]
    BY DEF ShellInv, Procs
  <2>2. sh' = [sh EXCEPT ![p] = r]
    BY DEF Go
  <2>3. QED
    BY <2>1, <2>2
<1>2. p \in DOMAIN ends /\ p \notin DOMAIN kid
  BY DEF ShellInv, Procs
<1>3. /\ DOMAIN ends' = DOMAIN ends /\ ends'[p] = mine /\ \A t \in DOMAIN ends : t # p => ends'[t] = ends[t]
      /\ ends' = [t \in DOMAIN ends' |-> ends'[t]]
  BY <1>2 DEF ShellInv, Procs
<1>4. DOMAIN kid' = DOMAIN kid
  OBVIOUS
<1>5. Procs'
  BY <1>1, <1>3, <1>4 DEF ShellInv, Procs
<1>6. \A t \in DOMAIN sh : ShellRight(t, sh'[t]) /\ EndsRight(sh'[t], ends'[t])
  <2>1. \A t \in DOMAIN sh : t \in DOMAIN ends
    BY DEF ShellInv, Procs
  <2>2. QED
    BY <1>1, <1>3, <2>1 DEF ShellInv
<1>7. \A t \in DOMAIN sh : sh'[t].last # 0 => sh'[t].last \in DOMAIN kid
  BY <1>1 DEF ShellInv
<1>8. \A q \in DOMAIN kid : q \in DOMAIN ends /\ ends'[q] = ends[q]
  BY <1>2, <1>3 DEF ShellInv, Procs
<1>9. FgRight(fg', sh'[Shell])
  BY <1>1 DEF ShellInv, Procs
<1>10. QED
  <2>2. \A q \in DOMAIN kid' : KidRight(kid'[q]) /\ KidEnds(kid'[q], ends'[q])
    BY <1>4, <1>8
  <2>3. \A t \in DOMAIN sh' : sh'[t].last # 0 => sh'[t].last \in DOMAIN kid'
    BY <1>1, <1>4, <1>7
  <2>4. QED
    BY <1>1, <1>5, <1>6, <1>9, <2>2, <2>3 DEF ShellInv

LEMMA OneKid ==
  ASSUME ShellInv, NEW q \in DOMAIN kid, NEW v, NEW mine,
         kid' = [kid EXCEPT ![q] = v], ends' = [ends EXCEPT ![q] = mine],
         KidRight(v), KidEnds(v, mine),
         buf' \in Seq(0 .. PipeSize), UNCHANGED <<todo, sh, fg>>
  PROVE  ShellInv'
<1>1. /\ DOMAIN kid' = DOMAIN kid /\ kid'[q] = v /\ \A t \in DOMAIN kid : t # q => kid'[t] = kid[t]
      /\ kid' = [t \in DOMAIN kid' |-> kid'[t]]
  <2>1. kid' = [kid EXCEPT ![q] = v] /\ q \in DOMAIN kid
    OBVIOUS
  <2>2. QED
    BY ONLY <2>1
<1>2. q \in DOMAIN ends /\ q \notin DOMAIN sh
  BY DEF ShellInv, Procs
<1>3. /\ DOMAIN ends' = DOMAIN ends /\ ends'[q] = mine /\ \A t \in DOMAIN ends : t # q => ends'[t] = ends[t]
      /\ ends' = [t \in DOMAIN ends' |-> ends'[t]]
  BY <1>2 DEF ShellInv, Procs
<1>4. Procs'
  BY <1>1, <1>3 DEF ShellInv, Procs
<1>5. \A t \in DOMAIN kid : KidRight(kid'[t]) /\ KidEnds(kid'[t], ends'[t])
  <2>1. \A t \in DOMAIN kid : t \in DOMAIN ends
    BY DEF ShellInv, Procs
  <2>2. QED
    BY <1>1, <1>3, <2>1 DEF ShellInv
<1>6. \A t \in DOMAIN sh : ShellRight(t, sh[t]) /\ EndsRight(sh[t], ends'[t])
  <2>1. \A t \in DOMAIN sh : t \in DOMAIN ends /\ ends'[t] = ends[t]
    BY <1>2, <1>3 DEF ShellInv, Procs
  <2>2. QED
    BY <2>1 DEF ShellInv
<1>7. QED
  BY <1>1, <1>4, <1>5, <1>6 DEF ShellInv

\* The process table grows by one.
LEMMA NewProcess ==
  ASSUME ShellInv, NEW f, DOMAIN f = DOMAIN ends, NEW x
  PROVE  /\ NextPid \notin DOMAIN ends /\ NextPid # Shell /\ NextPid # 0
         /\ DOMAIN And(NextPid, f, x) = DOMAIN ends \cup {NextPid}
         /\ Cardinality(DOMAIN ends \cup {NextPid}) \in Nat
         /\ DOMAIN ends \cup {NextPid} = 1 .. Cardinality(DOMAIN ends \cup {NextPid})
<1>1. PICK n \in Nat : DOMAIN ends = 1 .. n /\ n = Cardinality(DOMAIN ends)
  BY DEF ShellInv, Procs
<1>2. NextPid = n + 1 /\ n # 0
  BY <1>1 DEF NextPid, ShellInv, Procs, Shell
<1>3. DOMAIN ends \cup {NextPid} = 1 .. (n + 1)
  BY <1>1, <1>2
<1>4. Cardinality(1 .. (n + 1)) = n + 1
  <2>1. n + 1 \in Nat /\ 1 \in Int /\ n + 1 \in Int
    OBVIOUS
  <2>2. Cardinality(1 .. (n + 1)) = IF 1 > n + 1 THEN 0 ELSE (n + 1) - 1 + 1
    BY <2>1, FS_Interval
  <2>3. QED
    BY <2>2
<1>5. DOMAIN And(NextPid, f, x) = DOMAIN ends \cup {NextPid}
  BY DEF And
<1>6. NextPid \notin DOMAIN ends /\ NextPid # Shell /\ NextPid # 0
  BY <1>1, <1>2 DEF Shell
<1>7. Cardinality(DOMAIN ends \cup {NextPid}) = n + 1
  BY <1>3, <1>4, Zenon
<1>8. QED
  BY <1>3, <1>5, <1>6, <1>7


-----------------------------------------------------------------------------
(* Lists run as they read: what the three steps of a list add.             *)
Stats == {"ok", "bad"}
LEMMA Longer ==
  ASSUME NEW V, NEW s \in Seq(V), NEW x \in V, NEW i \in Nat \ {0}, Len(s) = i - 1
  PROVE  /\ Append(s, x) \in Seq(V) /\ Len(Append(s, x)) = i /\ DOMAIN Append(s, x) = 1 .. i
         /\ Append(s, x)[i] = x /\ \A k \in 1 .. (i - 1) : Append(s, x)[k] = s[k]
<1>1. PICK t : t = Append(s, x)
  OBVIOUS
<1>2. t \in Seq(V) /\ Len(t) = i /\ t[i] = x
  BY <1>1
<1>3. \A k \in 1 .. Len(s) : t[k] = s[k]
  BY <1>1
<1>4. DOMAIN t = 1 .. i
  BY <1>2
<1>5. QED
  BY <1>1, <1>2, <1>3, <1>4

LEMMA ReadSkip ==
  ASSUME NEW list, NEW ran \in Seq(BOOLEAN), NEW stat \in Seq(Stats), NEW i \in Nat, i >= 2,
         Len(ran) = i - 1, Len(stat) = i - 1, Read(list, ran, stat), list[1].op \in {"&&", "||"},
         list[1].op = (IF stat[i - 1] = "ok" THEN "||" ELSE "&&")
  PROVE  Read(list, Append(ran, FALSE), Append(stat, stat[i - 1]))
<1>0. PICK s : s = stat[i - 1]
  OBVIOUS
<1>1. PICK h \in Nat : h = i - 1 /\ h >= 1 /\ h \in DOMAIN ran /\ h \in DOMAIN stat
  OBVIOUS
<1>2. stat[h] \in Stats /\ s \in {"ok", "bad"} /\ s = stat[h]
  BY <1>0, <1>1 DEF Stats
<1>3. s = Other(list) /\ stat[h] # Want(list) /\ Want(list) \in {"ok", "bad"}
  BY <1>0, <1>1, <1>2 DEF Other, Want
<1>4. PICK more, all : more = Append(ran, FALSE) /\ all = Append(stat, s)
  OBVIOUS
<1>5. /\ DOMAIN more = 1 .. i /\ more[i] = FALSE /\ \A j \in 1 .. h : more[j] = ran[j]
      /\ DOMAIN all = 1 .. i /\ all[i] = s /\ \A j \in 1 .. h : all[j] = stat[j]
  <2>1. s \in Stats
    BY <1>2 DEF Stats
  <2>2. DOMAIN more = 1 .. i /\ more[i] = FALSE /\ \A j \in 1 .. h : more[j] = ran[j]
    <3>1. PICK b \in BOOLEAN : b = FALSE
      OBVIOUS
    <3>2. more = Append(ran, b)
      BY <1>4, <3>1, Zenon
    <3>3. i \in Nat \ {0}
      OBVIOUS
    <3>4. DOMAIN more = 1 .. i /\ more[i] = b /\ \A j \in 1 .. (i - 1) : more[j] = ran[j]
      BY <3>2, <3>3, Longer
    <3>5. QED
      BY <1>1, <3>1, <3>4
  <2>3. DOMAIN all = 1 .. i /\ all[i] = s /\ \A j \in 1 .. h : all[j] = stat[j]
    BY <1>1, <1>4, <2>1, Longer
  <2>4. QED
    BY <2>2, <2>3
<1>6. DOMAIN ran = 1 .. h /\ DOMAIN stat = 1 .. h
  BY <1>1
<1>7. ASSUME NEW j \in 1 .. h
      PROVE  /\ more[j] => \A k \in 1 .. (j - 1) : all[k] = Want(list)
             /\ ~more[j] => /\ j \in DOMAIN all /\ all[j] = Other(list)
                            /\ \E k \in 1 .. (j - 1) : more[k] /\ all[k] # Want(list)
  <2>1. \A k \in 1 .. (j - 1) : k \in 1 .. h
    BY <1>1
  <2>2. j \in 1 .. i
    BY <1>1
  <2>3. /\ ran[j] => \A k \in 1 .. (j - 1) : stat[k] = Want(list)
        /\ ~ran[j] => /\ j \in DOMAIN stat /\ stat[j] = Other(list)
                      /\ \E k \in 1 .. (j - 1) : ran[k] /\ stat[k] # Want(list)
    BY <1>6 DEF Read
  <2>4. QED
    BY <1>5, <2>1, <2>2, <2>3
<1>8. /\ ~more[i] /\ i \in DOMAIN all /\ all[i] = Other(list)
      /\ \E k \in 1 .. (i - 1) : more[k] /\ all[k] # Want(list)
  <2>1. CASE ran[h]
    <3>1. h \in 1 .. h /\ h \in 1 .. (i - 1) /\ i \in DOMAIN all
      BY <1>1, <1>5
    <3>2. more[h] /\ all[h] # Want(list) /\ ~more[i] /\ all[i] = Other(list)
      BY <1>3, <1>5, <2>1, <3>1
    <3>3. QED
      BY <3>1, <3>2
  <2>2. CASE ~ran[h]
    <3>1. PICK k \in 1 .. (h - 1) : ran[k] /\ stat[k] # Want(list)
      BY <1>1, <2>2 DEF Read
    <3>2. k \in 1 .. h /\ k \in 1 .. (i - 1)
      BY <1>1
    <3>3. QED
      BY <1>3, <1>5, <3>1, <3>2
  <2>3. QED
    BY <2>1, <2>2
<1>9. \A j \in DOMAIN more : j = i \/ j \in 1 .. h
  BY <1>1, <1>5
<1>10. Read(list, more, all)
  BY <1>7, <1>8, <1>9 DEF Read
<1>11. QED
  BY <1>0, <1>4, <1>10

LEMMA ReadRun ==
  ASSUME NEW list, NEW ran \in Seq(BOOLEAN), NEW stat \in Seq(Stats), NEW i \in Nat \ {0},
         Len(ran) = i - 1, Len(stat) = i - 1, Read(list, ran, stat),
         i >= 2 => /\ list[1].op \in {"&&", "||"}
                   /\ list[1].op # (IF stat[i - 1] = "ok" THEN "||" ELSE "&&")
  PROVE  Read(list, Append(ran, TRUE), stat)
<1>1. PICK h \in Nat : h = i - 1 /\ DOMAIN ran = 1 .. h /\ DOMAIN stat = 1 .. h
  OBVIOUS
<1>2. PICK more : more = Append(ran, TRUE)
  OBVIOUS
<1>3. DOMAIN more = 1 .. i /\ more[i] = TRUE /\ \A j \in 1 .. h : more[j] = ran[j]
  <2>1. PICK b \in BOOLEAN : b = TRUE
    OBVIOUS
  <2>2. more = Append(ran, b)
    BY <1>2, <2>1
  <2>3. DOMAIN more = 1 .. i /\ more[i] = b /\ \A j \in 1 .. (i - 1) : more[j] = ran[j]
    BY <2>2, Longer
  <2>4. QED
    BY <1>1, <2>1, <2>3
<1>4. ASSUME NEW j \in 1 .. h
      PROVE  /\ more[j] => \A k \in 1 .. (j - 1) : stat[k] = Want(list)
             /\ ~more[j] => /\ j \in DOMAIN stat /\ stat[j] = Other(list)
                            /\ \E k \in 1 .. (j - 1) : more[k] /\ stat[k] # Want(list)
  <2>1. \A k \in 1 .. (j - 1) : k \in 1 .. h
    BY <1>1
  <2>2. /\ ran[j] => \A k \in 1 .. (j - 1) : stat[k] = Want(list)
        /\ ~ran[j] => /\ j \in DOMAIN stat /\ stat[j] = Other(list)
                      /\ \E k \in 1 .. (j - 1) : ran[k] /\ stat[k] # Want(list)
    BY <1>1 DEF Read
  <2>3. QED
    BY <1>3, <2>1, <2>2
<1>5. \A k \in 1 .. (i - 1) : stat[k] = Want(list)
  <2>1. CASE i < 2
    BY <2>1
  <2>2. CASE i >= 2
    <3>1. list[1].op \in {"&&", "||"} /\ list[1].op # (IF stat[h] = "ok" THEN "||" ELSE "&&")
      BY <1>1, <2>2
    <3>2. stat[h] \in {"ok", "bad"}
      BY <1>1, <2>2 DEF Stats
    <3>3. stat[h] = Want(list) /\ stat[h] # Other(list)
      BY <3>1, <3>2 DEF Want, Other
    <3>4. h \in DOMAIN ran /\ ran[h]
      BY <1>1, <2>2, <3>3 DEF Read
    <3>5. \A k \in 1 .. (h - 1) : stat[k] = Want(list)
      BY <3>4 DEF Read
    <3>6. \A k \in 1 .. (i - 1) : k = h \/ k \in 1 .. (h - 1)
      BY <1>1
    <3>7. QED
      BY <3>3, <3>5, <3>6
  <2>3. QED
    BY <2>1, <2>2
<1>6. \A j \in DOMAIN more : j = i \/ j \in 1 .. h
  BY <1>1, <1>3
<1>7. Read(list, more, stat)
  BY <1>3, <1>4, <1>5, <1>6 DEF Read
<1>8. QED
  BY <1>2, <1>7

LEMMA ReadEnd ==
  ASSUME NEW list, NEW ran \in Seq(BOOLEAN), NEW stat \in Seq(Stats), NEW i \in Nat \ {0},
         Len(ran) = i, Len(stat) = i - 1, Read(list, ran, stat), ran[i], NEW x \in Stats
  PROVE  Read(list, ran, Append(stat, x))
<1>1. PICK h \in Nat : h = i - 1 /\ DOMAIN ran = 1 .. i /\ DOMAIN stat = 1 .. h
  OBVIOUS
<1>2. PICK all : all = Append(stat, x)
  OBVIOUS
<1>3. DOMAIN all = 1 .. i /\ \A k \in 1 .. h : all[k] = stat[k]
  BY <1>1, <1>2
<1>4. ASSUME NEW j \in DOMAIN ran
      PROVE  /\ ran[j] => \A k \in 1 .. (j - 1) : all[k] = Want(list)
             /\ ~ran[j] => /\ j \in DOMAIN all /\ all[j] = Other(list)
                           /\ \E k \in 1 .. (j - 1) : ran[k] /\ all[k] # Want(list)
  <2>1. \A k \in 1 .. (j - 1) : k \in 1 .. h
    BY <1>1
  <2>2. /\ ran[j] => \A k \in 1 .. (j - 1) : stat[k] = Want(list)
        /\ ~ran[j] => /\ j \in DOMAIN stat /\ stat[j] = Other(list)
                      /\ \E k \in 1 .. (j - 1) : ran[k] /\ stat[k] # Want(list)
    BY DEF Read
  <2>3. ~ran[j] => j \in 1 .. h
    BY <1>1, <2>2
  <2>4. QED
    BY <1>1, <1>3, <2>1, <2>2, <2>3
<1>5. QED
  BY <1>2, <1>4 DEF Read


-----------------------------------------------------------------------------
(* Each step keeps the invariant.                                          *)
LEMMA InitRight == ShellInit => ShellInv
<1> SUFFICES ASSUME ShellInit PROVE ShellInv
  OBVIOUS
<1>1. PICK r : r = NewShell(<<>>, "prompt", Shell)
  OBVIOUS
<1>2. DOMAIN sh = {Shell} /\ sh[Shell] = r /\ sh = [p \in DOMAIN sh |-> sh[p]]
  BY <1>1 DEF ShellInit
<1>3. DOMAIN kid = {} /\ kid = [q \in DOMAIN kid |-> kid[q]]
  BY DEF ShellInit
<1>4. DOMAIN ends = {Shell} /\ ends[Shell] = {} /\ ends = [p \in DOMAIN ends |-> ends[p]]
  BY DEF ShellInit
<1>5. Cardinality({Shell}) = 1 /\ {Shell} = 1 .. 1
  BY FS_Singleton DEF Shell
<1>6. Cardinality(DOMAIN ends) \in Nat /\ DOMAIN ends = 1 .. Cardinality(DOMAIN ends)
  BY <1>4, <1>5
<1>7. Procs
  BY <1>2, <1>3, <1>4, <1>6 DEF Procs
<1>8. /\ r.step = "prompt" /\ r.code = <<>> /\ r.c = 1 /\ r.last = 0 /\ ~r.quiet /\ r.pgid # Shell /\ Fields(r)
  BY <1>1 DEF NewShell, Fields, Shell
<1>9. ShellRight(Shell, r) /\ EndsRight(r, {})
  <2>1. Len(<<>>) = 0 /\ DOMAIN <<>> = {}
    OBVIOUS
  <2>2. CodeRight(r.code)
    BY <1>8, <2>1 DEF CodeRight, IsList
  <2>3. r.c \in Nat \ {0}
    BY <1>8
  <2>4. r.step \notin Working /\ r.step = "prompt"
    BY <1>8 DEF Working
  <2>5. EndsRight(r, {})
    BY DEF EndsRight
  <2>6. QED
    BY <1>8, <2>2, <2>3, <2>4, <2>5 DEF ShellRight, Working
<1>10. todo \in Seq(Lines)
  <2>1. todo \in Scripts /\ todo \in Seq(Seq(Tokens))
    BY ShellAssumption DEF ShellInit
  <2>2. \A i \in DOMAIN todo : todo[i] \in Lines
    BY <2>1 DEF Lines
  <2>3. Len(todo) \in Nat /\ DOMAIN todo = 1 .. Len(todo) /\ todo = [i \in 1 .. Len(todo) |-> todo[i]]
    BY <2>1
  <2>4. QED
    BY <2>2, <2>3
<1>11. buf \in Seq(0 .. PipeSize) /\ FgRight(fg, sh[Shell])
  BY DEF ShellInit, FgRight
<1>12. QED
  BY <1>2, <1>3, <1>4, <1>7, <1>8, <1>9, <1>10, <1>11 DEF ShellInv

LEMMA SameEnds ==
  ASSUME ShellInv, NEW p \in DOMAIN sh
  PROVE  ends = [ends EXCEPT ![p] = ends[p]]
<1>1. ends = [q \in DOMAIN ends |-> ends[q]]
  BY DEF ShellInv, Procs
<1>2. QED
  BY <1>1

\* A step that only moves a shell.
LEMMA ShellMoves ==
  ASSUME ShellInv, NEW p \in DOMAIN sh, NEW r, Go(p, r), UNCHANGED <<kid, ends, buf, fg>>, todo' \in Seq(Lines),
         ShellRight(p, r), EndsRight(r, ends[p]), r.last # 0 => r.last \in DOMAIN kid,
         p = Shell => FgRight(fg, r)
  PROVE  ShellInv'
<1>1. ends' = [ends EXCEPT ![p] = ends[p]]
  BY SameEnds
<1>2. kid' = [q \in DOMAIN kid |-> kid'[q]] /\ \A q \in DOMAIN kid : KidRight(kid'[q]) /\ KidEnds(kid'[q], ends[q])
  BY DEF ShellInv, Procs
<1>3. buf' \in Seq(0 .. PipeSize)
  BY DEF ShellInv
<1>4. IF p = Shell THEN FgRight(fg', r) ELSE fg' = fg
  BY DEF FgRight
<1>5. QED
  BY <1>1, <1>2, <1>3, <1>4, OneShell

LEMMA ReadLineKeeps ==
  ASSUME ShellInv, ReadLine
  PROVE  ShellInv'
<1>1. PICK s : /\ s = sh[Shell] /\ Shell \in DOMAIN sh /\ ShellRight(Shell, s) /\ EndsRight(s, ends[Shell])
               /\ (s.last # 0 => s.last \in DOMAIN kid) /\ s.step = "prompt" /\ FgRight(fg, s)
  BY DEF ShellInv, Procs, ReadLine
<1>2. ends[Shell] = {} /\ UNCHANGED <<kid, ends, buf, fg>>
  BY <1>1 DEF EndsRight, ReadLine
<1>3. ASSUME NEW step \in {"stopped", "ended"}, UNCHANGED todo, Go(Shell, [s EXCEPT !.step = step])
      PROVE  ShellInv'
  <2>1. PICK r : r = [s EXCEPT !.step = step]
    OBVIOUS
  <2>2. r.step = step /\ r.last = s.last /\ r.c = s.c /\ r.code = s.code /\ r.pgid = s.pgid /\ r.group = s.group
        /\ Fields(r)
    BY <1>1, <2>1 DEF ShellRight, Fields
  <2>3. step \notin Working /\ step \notin {"prompt", "list", "wait", "fork", "close", "pick"}
    BY DEF Working
  <2>4. ShellRight(Shell, r) /\ EndsRight(r, ends[Shell]) /\ FgRight(fg, r)
    BY <1>1, <2>2, <2>3 DEF ShellRight, EndsRight, Working, FgRight
  <2>5. todo' \in Seq(Lines)
    BY <1>3 DEF ShellInv
  <2>6. QED
    BY <1>1, <1>2, <1>3, <2>1, <2>2, <2>4, <2>5, ShellMoves
<1>4. ASSUME ~(todo = <<>> \/ Undefined(todo[1])), todo' = Tail(todo),
             Go(Shell, NewShell(Parsed[todo[1]], "list", s.group))
      PROVE  ShellInv'
  <2>1. PICK line : line = todo[1] /\ line \in Lines /\ Tail(todo) \in Seq(Lines)
    BY <1>4 DEF ShellInv
  <2>2. PICK code, r : code = Parsed[line] /\ r = NewShell(code, "list", s.group)
    OBVIOUS
  <2>3. Go(Shell, r) /\ todo' \in Seq(Lines)
    BY <1>4, <2>1, <2>2
  <2>4. CodeRight(code)
    BY <2>1, <2>2, ParsedRight
  <2>5. r.step = "list" /\ r.code = code /\ r.c = 1 /\ r.last = 0 /\ ~r.quiet /\ r.group = s.group
        /\ r.pgid # Shell /\ Fields(r)
    BY <2>2 DEF NewShell, Fields, Shell
  <2>6. ShellRight(Shell, r) /\ EndsRight(r, ends[Shell]) /\ FgRight(fg, r)
    <3>1. r.c \in Nat \ {0}
      BY <2>5
    <3>2. r.step \notin Working /\ r.step = "list"
      BY <2>5 DEF Working
    <3>3. CodeRight(r.code)
      BY <2>4, <2>5
    <3>4. ShellRight(Shell, r)
      BY <2>5, <3>1, <3>2, <3>3 DEF ShellRight, Working
    <3>5. QED
      BY <1>1, <1>2, <2>5, <3>4 DEF EndsRight, FgRight
  <2>7. QED
    BY <1>1, <1>2, <2>3, <2>5, <2>6, ShellMoves
<1>5. QED
  BY <1>1, <1>3, <1>4 DEF ReadLine


\* A list is begun with nothing run.
LEMMA BegunRight ==
  ASSUME NEW r, r.step = "pick", r.i = 1, r.stat = <<>>, r.ran = <<>>, r.c \in DOMAIN r.code, CodeRight(r.code)
  PROVE  AtWork(r)
<1>1. /\ <<>> \in Seq(BOOLEAN) /\ <<>> \in Seq({"ok", "bad"}) /\ Len(<<>>) = 0 /\ DOMAIN <<>> = {}
  OBVIOUS
<1>2. PICK list : list = r.code[r.c] /\ Len(list) \in Nat
  BY DEF CodeRight, CondRight, IsList
<1>3. Read(list, r.ran, r.stat)
  BY <1>1 DEF Read
<1>4. r.i \in Nat \ {0} /\ Len(r.stat) = r.i - 1 /\ Len(r.ran) = r.i - 1 /\ r.i <= Len(list) + 1
  BY <1>1, <1>2
<1>5. QED
  BY <1>1, <1>2, <1>3, <1>4 DEF AtWork

\* SIGINT ends a shell, a shell aborts, a dead one is reaped.
LEMMA HitShell ==
  ASSUME NEW p, NEW r, ShellRight(p, r), NEW step \in {"ended", "gone"}
  PROVE  /\ ShellRight(p, [r EXCEPT !.step = step]) /\ EndsRight([r EXCEPT !.step = step], {})
         /\ [r EXCEPT !.step = step].last = r.last /\ [r EXCEPT !.step = step].step = step
<1>1. PICK h : h = [r EXCEPT !.step = step]
  OBVIOUS
<1>2. Fields(r)
  BY DEF ShellRight
<1>3. /\ Fields(h) /\ h.step = step /\ h.last = r.last /\ h.c = r.c /\ h.code = r.code /\ h.pgid = r.pgid
      /\ h.group = r.group
  BY <1>1, <1>2 DEF Fields
<1>4. ShellRight(p, h) /\ EndsRight(h, {})
  BY <1>3 DEF ShellRight, EndsRight, Working
<1>5. QED
  BY <1>1, <1>3, <1>4

\* The dead children of the shell are reaped, and the terminal is claimed.
LEMMA RunListKeeps ==
  ASSUME ShellInv, RunList
  PROVE  ShellInv'
<1>1. PICK H : /\ sh' = [q \in DOMAIN sh |-> IF q = Shell THEN [sh[q] EXCEPT !.step = "prompt"]
                                            ELSE IF q \in H THEN [sh[q] EXCEPT !.step = "gone"] ELSE sh[q]]
               /\ kid' = [q \in DOMAIN kid |-> IF q \in H THEN [kid[q] EXCEPT !.pc = "gone"] ELSE kid[q]]
               /\ \A q \in DOMAIN sh : q # Shell /\ q \in H => sh[q].step = "ended"
  <2>1. PICK H : H = Dead
    OBVIOUS
  <2>2. \A q \in DOMAIN sh : q # Shell /\ q \in H => sh[q].step = "ended"
    BY <2>1 DEF Dead, ShellInv, Procs
  <2>3. QED
    BY <2>1, <2>2, Zenon DEF RunList
<1>2. PICK s : /\ s = sh[Shell] /\ ShellRight(Shell, s) /\ EndsRight(s, ends[Shell]) /\ s.step = "list"
  BY DEF RunList, ShellInv, Procs
<1>3. Procs /\ UNCHANGED <<todo, ends, buf>> /\ ends[Shell] = {}
  BY <1>2 DEF ShellInv, EndsRight, RunList
<1>4. DOMAIN sh' = DOMAIN sh /\ DOMAIN kid' = DOMAIN kid /\ DOMAIN ends' = DOMAIN ends /\ Shell \in DOMAIN sh
  BY <1>1, <1>3 DEF Procs
<1>5. sh' = [q \in DOMAIN sh' |-> sh'[q]] /\ kid' = [q \in DOMAIN kid' |-> kid'[q]]
  BY <1>1
<1>6. Procs'
  BY <1>3, <1>4, <1>5 DEF Procs
<1>7. PICK r : r = [s EXCEPT !.step = "prompt"]
  OBVIOUS
<1>8. sh'[Shell] = r
  BY <1>1, <1>2, <1>4, <1>7
<1>9. /\ r.step = "prompt" /\ r.last = s.last /\ r.c = s.c /\ r.code = s.code /\ r.pgid = s.pgid /\ r.group = s.group
      /\ Fields(r)
  BY <1>2, <1>7 DEF ShellRight, Fields
<1>10. ShellRight(Shell, r) /\ EndsRight(r, {})
  BY <1>2, <1>9 DEF ShellRight, EndsRight, Working
<1>11. ASSUME NEW p \in DOMAIN sh
       PROVE  ShellRight(p, sh'[p]) /\ EndsRight(sh'[p], ends'[p]) /\ sh'[p].last = sh[p].last
  <2>1. ShellRight(p, sh[p]) /\ EndsRight(sh[p], ends[p])
    BY DEF ShellInv
  <2>2. CASE p = Shell
    BY <1>2, <1>3, <1>8, <1>9, <1>10, <2>2
  <2>3. CASE p # Shell /\ p \in H
    <3>1. PICK t, h : t = sh[p] /\ ShellRight(p, t) /\ h = [t EXCEPT !.step = "gone"]
      BY <2>1
    <3>2. ShellRight(p, h) /\ h.last = t.last /\ h.step = "gone"
      BY <3>1, HitShell
    <3>3. sh'[p] = h /\ ends'[p] = ends[p]
      BY <1>1, <1>3, <2>3, <3>1
    <3>4. QED
      BY <3>1, <3>2, <3>3 DEF EndsRight
  <2>4. CASE p # Shell /\ p \notin H
    BY <1>1, <1>3, <2>1, <2>4
  <2>5. QED
    BY <2>2, <2>3, <2>4
<1>12. ASSUME NEW q \in DOMAIN kid PROVE KidRight(kid'[q]) /\ KidEnds(kid'[q], ends'[q])
  <2>1. PICK v, w : v = kid[q] /\ KidRight(v) /\ KidEnds(v, ends[q]) /\ w = [v EXCEPT !.pc = "gone"]
    BY DEF ShellInv
  <2>2. kid'[q] = v \/ kid'[q] = w
    BY <1>1, <2>1
  <2>3. KidRight(w) /\ KidEnds(w, ends[q])
    BY <2>1 DEF KidRight, KidFields, KidEnds
  <2>4. QED
    BY <1>3, <2>1, <2>2, <2>3
<1>13. FgRight(fg', r)
  <2>1. CASE r.group = Shell
    <3>1. IsThere(Shell)'
      BY <1>4, <1>8, <1>9, <2>1 DEF IsThere
    <3>2. fg' = Shell
      BY <3>1 DEF RunList, ClaimForeground
    <3>3. QED
      BY <3>2 DEF FgRight
  <2>2. CASE r.group # Shell
    BY <2>2 DEF FgRight
  <2>3. QED
    BY <2>1, <2>2
<1>14. \A p \in DOMAIN sh' : sh'[p].last # 0 => sh'[p].last \in DOMAIN kid'
  BY <1>4, <1>11 DEF ShellInv
<1>15. todo' \in Seq(Lines) /\ buf' \in Seq(0 .. PipeSize)
  BY <1>3 DEF ShellInv
<1>16. QED
  BY <1>4, <1>6, <1>8, <1>11, <1>12, <1>13, <1>14, <1>15 DEF ShellInv

LEMMA SequenceKeeps ==
  ASSUME ShellInv, NEW p \in DOMAIN sh, Sequence(p)
  PROVE  ShellInv'
<1>1. PICK s : /\ s = sh[p] /\ ShellRight(p, s) /\ EndsRight(s, ends[p])
               /\ (s.last # 0 => s.last \in DOMAIN kid) /\ s.step = "list"
  BY DEF ShellInv, Sequence
<1>2. ends[p] = {} /\ UNCHANGED <<todo, kid, buf, defined, fg>>
  BY <1>1 DEF EndsRight, Sequence
<1>3. todo' \in Seq(Lines) /\ buf' \in Seq(0 .. PipeSize) /\ Procs
  BY <1>2 DEF ShellInv
<1>4. p = Shell => fg = Shell \/ s.group # Shell
  BY <1>1 DEF ShellInv, FgRight
<1>5. Fields(s) /\ s.pgid # Shell /\ s.c \in Nat \ {0} /\ CodeRight(s.code) /\ (p # Shell => Len(s.code) = 1 /\ Op(s.code[1]) = "&")
  BY <1>1 DEF ShellRight
<1>6. CASE s.c > Len(s.code)
  <2>1. PICK r : r = [s EXCEPT !.step = "ended"]
    OBVIOUS
  <2>2. Go(p, r) /\ ends' = [ends EXCEPT ![p] = {}] /\ p # Shell
    BY <1>1, <1>6, <2>1 DEF Sequence
  <2>3. kid' = [q \in DOMAIN kid |-> kid'[q]] /\ \A q \in DOMAIN kid : KidRight(kid'[q]) /\ KidEnds(kid'[q], ends[q])
    BY <1>2 DEF ShellInv, Procs
  <2>4. ShellRight(p, r) /\ EndsRight(r, {}) /\ r.last = s.last
    BY <1>1, <2>1, HitShell
  <2>5. QED
    BY <1>1, <1>2, <1>3, <2>2, <2>3, <2>4, OneShell
<1>7. CASE s.c <= Len(s.code) /\ ~(p = Shell /\ Background(p))
  <2>1. PICK r : r = [s EXCEPT !.step = "pick", !.i = 1, !.stat = <<>>, !.ran = <<>>]
    OBVIOUS
  <2>2. Go(p, r) /\ UNCHANGED ends
    <3>1. ~(s.c > Len(s.code))
      BY <1>5, <1>7 DEF CodeRight, IsList
    <3>2. QED
      BY <1>1, <1>7, <2>1, <3>1 DEF Sequence
  <2>3. /\ r.step = "pick" /\ r.i = 1 /\ r.stat = <<>> /\ r.ran = <<>>
        /\ r.last = s.last /\ r.c = s.c /\ r.code = s.code /\ r.pgid = s.pgid /\ r.group = s.group /\ Fields(r)
    BY <1>5, <2>1 DEF Fields
  <2>4. r.c \in DOMAIN r.code
    BY <1>5, <1>7, <2>3 DEF CodeRight, IsList
  <2>5. AtWork(r)
    BY <1>5, <2>3, <2>4, BegunRight
  <2>6. ShellRight(p, r) /\ EndsRight(r, {})
    BY <1>5, <2>3, <2>5 DEF ShellRight, EndsRight, Working
  <2>7. p = Shell => FgRight(fg, r)
    BY <1>4, <2>3 DEF FgRight
  <2>8. QED
    BY <1>1, <1>2, <1>3, <2>2, <2>3, <2>6, <2>7, ShellMoves
<1>8. CASE s.c <= Len(s.code) /\ p = Shell /\ Background(p)
  <2>1. ~(s.c > Len(s.code)) /\ s.c \in DOMAIN s.code
    BY <1>5, <1>8 DEF CodeRight, IsList
  <2>2. PICK cond, q : cond = s.code[s.c] /\ q = NextPid
    OBVIOUS
  <2>3. Cond(p) = cond /\ CondRight(cond) /\ Op(cond) = "&"
    BY <1>1, <1>5, <1>8, <2>1, <2>2 DEF Cond, CodeRight, Background
  <2>4. PICK code, new, r : code = <<cond>> /\ new = NewShell(code, "pick", s.group) /\ r = [s EXCEPT !.c = @ + 1]
    OBVIOUS
  <2>5. PICK moved : moved = [sh EXCEPT ![p] = r]
    OBVIOUS
  <2>6. \/ Go(p, r) /\ UNCHANGED ends
        \/ sh' = And(q, moved, new) /\ ends' = And(q, ends, ends[p])
    <3>1. [sh EXCEPT ![p].c = @ + 1] = moved
      BY <1>1, <2>4, <2>5
    <3>2. QED
      BY <1>1, <1>8, <2>1, <2>2, <2>3, <2>4, <2>5, <3>1 DEF Sequence, Go
  <2>7. ASSUME Go(p, r), UNCHANGED ends
        PROVE  ShellInv'
    <3>1. /\ r.c = s.c + 1 /\ r.step = "list" /\ r.code = s.code /\ r.last = s.last /\ r.pgid = s.pgid /\ r.group = s.group
          /\ Fields(r)
      BY <1>1, <1>5, <2>4 DEF Fields
    <3>2. r.c \in Nat \ {0}
      BY <1>5, <3>1
    <3>3. ShellRight(p, r) /\ EndsRight(r, ends[p]) /\ FgRight(fg, r)
      BY <1>2, <1>4, <1>5, <1>8, <3>1, <3>2 DEF ShellRight, EndsRight, Working, FgRight
    <3>4. QED
      BY <1>1, <1>2, <1>3, <2>7, <3>1, <3>3, ShellMoves
  <2>8. ASSUME sh' = And(q, moved, new), ends' = And(q, ends, ends[p])
        PROVE  ShellInv'
    <3>1. /\ q \notin DOMAIN ends /\ q # Shell /\ Cardinality(DOMAIN ends \cup {q}) \in Nat
          /\ DOMAIN ends \cup {q} = 1 .. Cardinality(DOMAIN ends \cup {q})
      BY <2>2, NewProcess
    <3>2. DOMAIN moved = DOMAIN sh /\ moved[p] = r /\ \A t \in DOMAIN sh : t # p => moved[t] = sh[t]
      BY <1>3, <2>5 DEF Procs
    <3>3. q \notin DOMAIN sh /\ q \notin DOMAIN kid
      BY <1>3, <3>1 DEF Procs
    <3>4. /\ DOMAIN sh' = DOMAIN sh \cup {q} /\ sh'[q] = new /\ \A t \in DOMAIN sh : sh'[t] = moved[t]
          /\ sh' = [t \in DOMAIN sh' |-> sh'[t]]
      <4>1. q \notin DOMAIN moved /\ sh' = And(q, moved, new)
        BY <2>8, <3>2, <3>3
      <4>2. /\ DOMAIN sh' = DOMAIN moved \cup {q} /\ sh'[q] = new /\ \A t \in DOMAIN moved : sh'[t] = moved[t]
            /\ sh' = [t \in DOMAIN sh' |-> sh'[t]]
        BY <4>1 DEF And
      <4>3. QED
        BY <3>2, <4>2
    <3>5. /\ DOMAIN ends' = DOMAIN ends \cup {q} /\ ends'[q] = {} /\ \A t \in DOMAIN ends : ends'[t] = ends[t]
          /\ ends' = [t \in DOMAIN ends' |-> ends'[t]]
      <4>1. ends' = And(q, ends, {})
        BY <1>2, <2>8
      <4>2. QED
        BY <3>1, <4>1 DEF And
    <3>6. Procs'
      <4>1. kid' = [t \in DOMAIN kid' |-> kid'[t]] /\ DOMAIN kid' = DOMAIN kid
        BY <1>2, <1>3 DEF Procs
      <4>2. /\ DOMAIN sh' \cap DOMAIN kid' = {} /\ DOMAIN sh' \cup DOMAIN kid' = DOMAIN ends'
            /\ Shell \in DOMAIN sh'
        BY <1>3, <3>3, <3>4, <3>5, <4>1 DEF Procs
      <4>3. Cardinality(DOMAIN ends') \in Nat /\ DOMAIN ends' = 1 .. Cardinality(DOMAIN ends')
        BY <3>1, <3>5, Zenon
      <4>4. QED
        BY <3>4, <3>5, <4>1, <4>2, <4>3 DEF Procs
    <3>7. ShellRight(q, new) /\ EndsRight(new, {}) /\ new.last = 0
      <4>1. /\ new.step = "pick" /\ new.i = 1 /\ new.stat = <<>> /\ new.ran = <<>> /\ new.last = 0 /\ new.c = 1
            /\ new.code = code /\ new.pgid # Shell /\ Fields(new)
        BY <2>4 DEF NewShell, Fields, Shell
      <4>2. DOMAIN code = 1 .. 1 /\ Len(code) = 1 /\ code[1] = cond
        BY <2>4
      <4>3. CodeRight(code) /\ new.c \in DOMAIN code
        BY <2>3, <4>1, <4>2 DEF CodeRight, IsList
      <4>4. AtWork(new)
        BY <4>1, <4>3, BegunRight
      <4>5. new.c \in Nat \ {0}
        BY <4>1
      <4>6. QED
        BY <2>3, <4>1, <4>2, <4>3, <4>4, <4>5 DEF ShellRight, EndsRight, Working
    <3>8. ShellRight(p, r) /\ EndsRight(r, {}) /\ r.last = s.last /\ r.step = s.step /\ r.group = s.group
      <4>1. r.c = s.c + 1 /\ r.step = "list" /\ r.code = s.code /\ r.last = s.last /\ r.pgid = s.pgid
            /\ r.group = s.group /\ Fields(r)
        BY <1>1, <1>5, <2>4 DEF Fields
      <4>2. r.c \in Nat \ {0}
        BY <1>5, <4>1
      <4>3. QED
        BY <1>1, <1>5, <1>8, <4>1, <4>2 DEF ShellRight, EndsRight, Working
    <3>9. \A t \in DOMAIN sh' : ShellRight(t, sh'[t]) /\ EndsRight(sh'[t], ends'[t]) /\ (sh'[t].last # 0 => sh'[t].last \in DOMAIN kid)
      <4>1. \A t \in DOMAIN sh : t \in DOMAIN ends
        BY <1>3 DEF Procs
      <4>2. \A t \in DOMAIN sh : t # p => ShellRight(t, sh[t]) /\ EndsRight(sh[t], ends[t]) /\ (sh[t].last # 0 => sh[t].last \in DOMAIN kid)
        BY DEF ShellInv
      <4>3. ShellRight(p, sh'[p]) /\ EndsRight(sh'[p], ends'[p]) /\ (sh'[p].last # 0 => sh'[p].last \in DOMAIN kid)
        BY <1>1, <1>2, <3>2, <3>4, <3>5, <3>8, <4>1
      <4>4. ShellRight(q, sh'[q]) /\ EndsRight(sh'[q], ends'[q]) /\ (sh'[q].last # 0 => sh'[q].last \in DOMAIN kid)
        BY <3>4, <3>5, <3>7
      <4>5. QED
        BY <3>2, <3>4, <3>5, <4>1, <4>2, <4>3, <4>4
    <3>10. \A t \in DOMAIN kid : KidRight(kid[t]) /\ KidEnds(kid[t], ends'[t])
      <4>1. \A t \in DOMAIN kid : t \in DOMAIN ends
        BY <1>3 DEF Procs
      <4>2. QED
        BY <3>5, <4>1 DEF ShellInv
    <3>11. FgRight(fg', sh'[Shell])
      BY <1>2, <1>4, <1>8, <3>2, <3>4, <3>8 DEF FgRight
    <3>12. QED
      BY <1>2, <1>3, <3>6, <3>9, <3>10, <3>11 DEF ShellInv
  <2>9. QED
    BY <2>6, <2>7, <2>8
<1>9. QED
  <2>1. s.c > Len(s.code) \/ s.c <= Len(s.code)
    BY <1>5 DEF CodeRight, IsList
  <2>2. QED
    BY <1>6, <1>7, <1>8, <2>1


LEMMA ConditionalKeeps ==
  ASSUME ShellInv, NEW p \in DOMAIN sh, Conditional(p)
  PROVE  ShellInv'
<1>1. PICK s : /\ s = sh[p] /\ ShellRight(p, s) /\ EndsRight(s, ends[p])
               /\ (s.last # 0 => s.last \in DOMAIN kid) /\ s.step = "pick"
  BY DEF ShellInv, Conditional
<1>2. ends[p] = {} /\ UNCHANGED <<todo, kid, ends, buf, defined, fg, mishaps>>
  BY <1>1 DEF EndsRight, Conditional
<1>3. todo' \in Seq(Lines) /\ (p = Shell => fg = Shell \/ s.group # Shell)
  BY <1>1, <1>2 DEF ShellInv, FgRight
<1>4. Fields(s) /\ s.pgid # Shell /\ s.c \in Nat \ {0} /\ CodeRight(s.code) /\ (p # Shell => Len(s.code) = 1 /\ Op(s.code[1]) = "&") /\ AtWork(s)
  BY <1>1 DEF ShellRight, Working
<1>5. PICK list : list = s.code[s.c] /\ list = Cond(p)
  BY <1>1 DEF Cond
<1>6. CondRight(list) /\ s.c \in DOMAIN s.code
  BY <1>4, <1>5 DEF CodeRight, AtWork
<1>7. IsList(list) /\ Len(list) \in Nat /\ (Len(list) >= 2 => list[1].op \in {"&&", "||"})
  BY <1>6 DEF CondRight, IsList
<1>8. /\ s.ran \in Seq(BOOLEAN) /\ s.stat \in Seq(Stats) /\ s.i \in Nat \ {0} /\ Len(s.stat) = s.i - 1 /\ Len(s.ran) = s.i - 1
      /\ s.i <= Len(list) + 1 /\ Read(list, s.ran, s.stat)
  BY <1>1, <1>4, <1>5 DEF AtWork, Stats
<1>9. CASE s.i > Len(list)
  <2>1. PICK r : r = [s EXCEPT !.c = @ + 1, !.step = "list"]
    OBVIOUS
  <2>2. Go(p, r)
    BY <1>1, <1>5, <1>9, <2>1 DEF Conditional
  <2>3. r.step = "list" /\ r.last = s.last /\ r.c = s.c + 1 /\ r.code = s.code /\ r.pgid = s.pgid /\ r.group = s.group
        /\ Fields(r)
    BY <1>4, <2>1 DEF Fields
  <2>4. r.c \in Nat \ {0}
    BY <1>4, <2>3
  <2>5. ShellRight(p, r) /\ EndsRight(r, ends[p])
    BY <1>2, <1>4, <2>3, <2>4 DEF ShellRight, EndsRight, Working
  <2>6. QED
    BY <1>1, <1>2, <1>3, <2>2, <2>3, <2>5, ShellMoves DEF FgRight
<1>10. ASSUME s.i <= Len(list), s.i > 1, NEW v, v = s.stat[s.i - 1], Skips(p, v),
              Go(p, [s EXCEPT !.stat = Append(@, v), !.ran = Append(@, FALSE), !.i = @ + 1])
       PROVE  ShellInv'
  <2>1. s.i >= 2 /\ list[1].op \in {"&&", "||"} /\ list[1].op = (IF v = "ok" THEN "||" ELSE "&&")
    BY <1>5, <1>7, <1>8, <1>10 DEF Skips
  <2>2. PICK ran, stat, i : ran = Append(s.ran, FALSE) /\ stat = Append(s.stat, v) /\ i = s.i + 1
    OBVIOUS
  <2>3. v \in Stats /\ Read(list, ran, stat)
    <3>1. PICK n, old, had : n = s.i /\ n \in Nat /\ n >= 2 /\ old = s.ran /\ had = s.stat /\ v = had[n - 1]
      BY <1>8, <1>10, <2>1
    <3>2. old \in Seq(BOOLEAN) /\ had \in Seq(Stats) /\ Len(old) = n - 1 /\ Len(had) = n - 1 /\ Read(list, old, had)
      BY <1>8, <3>1
    <3>3. Read(list, Append(old, FALSE), Append(had, had[n - 1]))
      BY <2>1, <3>1, <3>2, ReadSkip
    <3>4. v \in Stats
      BY <3>1, <3>2
    <3>5. QED
      BY <2>2, <3>1, <3>3, <3>4
  <2>4. /\ ran \in Seq(BOOLEAN) /\ Len(ran) = i - 1 /\ stat \in Seq({"ok", "bad"}) /\ Len(stat) = i - 1
        /\ i \in Nat \ {0} /\ i <= Len(list) + 1
    <3>1. \A n \in Nat \ {0} : n + 1 \in Nat \ {0} /\ (n + 1) - 1 = (n - 1) + 1
      OBVIOUS
    <3>2. ran \in Seq(BOOLEAN) /\ Len(ran) = Len(s.ran) + 1
      BY <1>8, <2>2
    <3>3. stat \in Seq({"ok", "bad"}) /\ Len(stat) = Len(s.stat) + 1
      BY <1>8, <2>2, <2>3 DEF Stats
    <3>4. QED
      BY <1>7, <1>8, <1>10, <2>2, <3>1, <3>2, <3>3
  <2>5. PICK r : r = [s EXCEPT !.stat = stat, !.ran = ran, !.i = i]
    OBVIOUS
  <2>6. Go(p, r)
    BY <1>4, <1>10, <2>2, <2>5 DEF Fields
  <2>7. /\ r.step = "pick" /\ r.last = s.last /\ r.c = s.c /\ r.code = s.code /\ r.pgid = s.pgid /\ r.group = s.group
        /\ Fields(r) /\ r.stat = stat /\ r.ran = ran /\ r.i = i
    BY <1>1, <1>4, <2>5 DEF Fields
  <2>8. AtWork(r)
    BY <1>5, <1>6, <2>3, <2>4, <2>7 DEF AtWork
  <2>9. ShellRight(p, r) /\ EndsRight(r, ends[p])
    BY <1>2, <1>4, <2>7, <2>8 DEF ShellRight, EndsRight, Working
  <2>10. QED
    BY <1>1, <1>2, <1>3, <2>6, <2>7, <2>9, ShellMoves DEF FgRight
<1>11. ASSUME s.i <= Len(list), ~(s.i > 1 /\ Skips(p, s.stat[s.i - 1])), NEW quiet, quiet = Background(p),
              Go(p, [s EXCEPT !.ran = Append(@, TRUE), !.step = "fork", !.k = 1, !.last = 0, !.pgid = 0,
                              !.rd = 0, !.wr = 0, !.quiet = quiet])
       PROVE  ShellInv'
  <2>1. s.i >= 2 => /\ list[1].op \in {"&&", "||"}
                    /\ list[1].op # (IF s.stat[s.i - 1] = "ok" THEN "||" ELSE "&&")
    <3>1. HAVE s.i >= 2
    <3>2. list[1].op # (IF s.stat[s.i - 1] = "ok" THEN "||" ELSE "&&")
      BY <1>5, <1>8, <1>11, <3>1 DEF Skips
    <3>3. list[1].op \in {"&&", "||"}
      BY <1>7, <1>8, <1>11, <3>1
    <3>4. QED
      BY <3>2, <3>3
  <2>2. PICK ran : ran = Append(s.ran, TRUE)
    OBVIOUS
  <2>3. Read(list, ran, s.stat)
    BY <1>8, <2>1, <2>2, ReadRun
  <2>4. ran \in Seq(BOOLEAN) /\ Len(ran) = s.i /\ ran[s.i]
    <3>1. PICK b \in BOOLEAN : b = TRUE
      OBVIOUS
    <3>2. ran = Append(s.ran, b)
      BY <2>2, <3>1
    <3>3. ran \in Seq(BOOLEAN) /\ Len(ran) = s.i /\ ran[s.i] = b
      BY <1>8, <3>2, Longer
    <3>4. QED
      BY <3>1, <3>3
  <2>5. PICK r : r = [s EXCEPT !.ran = ran, !.step = "fork", !.k = 1, !.last = 0, !.pgid = 0, !.rd = 0, !.wr = 0, !.quiet = quiet]
    OBVIOUS
  <2>6. Go(p, r)
    BY <1>4, <1>11, <2>2, <2>5 DEF Fields
  <2>7. /\ r.step = "fork" /\ r.last = 0 /\ r.c = s.c /\ r.code = s.code /\ Fields(r)
        /\ r.stat = s.stat /\ r.ran = ran /\ r.i = s.i /\ r.k = 1 /\ r.pgid = 0 /\ r.quiet = quiet
        /\ r.group = s.group
    BY <1>4, <2>5 DEF Fields
  <2>8. 1 \in DOMAIN list[s.i].cmds /\ s.i \in DOMAIN list
    <3>1. s.i \in DOMAIN list
      BY <1>7, <1>8, <1>11 DEF IsList
    <3>2. PipelineRight(list[s.i])
      BY <1>6, <3>1 DEF CondRight
    <3>3. QED
      BY <3>1, <3>2 DEF PipelineRight, IsList
  <2>9. AtWork(r)
    BY <1>5, <1>6, <1>8, <1>11, <2>3, <2>4, <2>7, <2>8 DEF AtWork, Stats
  <2>10. p # Shell => quiet
    <3>1. HAVE p # Shell
    <3>2. s.c = 1
      BY <1>4, <1>6, <3>1 DEF CodeRight, IsList
    <3>3. Background(p)
      BY <1>4, <1>5, <3>1, <3>2 DEF Background
    <3>4. QED
      BY <1>11, <3>3
  <2>11. ShellRight(p, r) /\ EndsRight(r, ends[p])
    <3>1. r.pgid # Shell
      BY <2>7 DEF Shell
    <3>2. QED
      BY <1>2, <1>4, <2>7, <2>9, <2>10, <3>1 DEF ShellRight, EndsRight, Working
  <2>12. QED
    BY <1>1, <1>2, <1>3, <2>6, <2>7, <2>11, ShellMoves DEF FgRight
<1>12. QED
  <2>1. s.i > Len(list) \/ s.i <= Len(list)
    BY <1>7, <1>8
  <2>2. CASE s.i <= Len(list)
    <3>1. ~(s.i > Len(Cond(p)))
      BY <1>5, <1>7, <1>8, <2>2
    <3>2. QED
      BY <1>1, <1>5, <1>10, <1>11, <2>2, <3>1, Zenon DEF Conditional
  <2>3. QED
    BY <1>9, <2>1, <2>2


\* The list and the pipeline a shell is at.
LEMMA PipelineIs ==
  ASSUME NEW p, NEW s, s = sh[p], ShellRight(p, s), s.step \in Working \ {"pick"}
  PROVE  /\ Pipeline(p) = s.code[s.c][s.i].cmds /\ PipelineRight(s.code[s.c][s.i])
         /\ s.i \in DOMAIN s.code[s.c] /\ AtWork(s) /\ Fields(s) /\ CodeRight(s.code)
         /\ s.ran \in Seq(BOOLEAN) /\ s.stat \in Seq(Stats) /\ s.i \in Nat \ {0} /\ Len(s.ran) = s.i /\ Len(s.stat) = s.i - 1
         /\ Read(s.code[s.c], s.ran, s.stat) /\ s.ran[s.i]
<1>1. AtWork(s) /\ Fields(s) /\ CodeRight(s.code)
  BY DEF ShellRight
<1>2. PICK list : list = s.code[s.c] /\ list = Cond(p)
  BY DEF Cond
<1>3. CondRight(list) /\ IsList(list)
  BY <1>1, <1>2 DEF AtWork, CodeRight, CondRight
<1>4. s.i \in DOMAIN list
  BY <1>1, <1>2, <1>3 DEF AtWork, IsList
<1>5. PipelineRight(list[s.i])
  BY <1>3, <1>4 DEF CondRight
<1>6. Pipeline(p) = list[s.i].cmds
  BY <1>2 DEF Pipeline
<1>7. /\ s.ran \in Seq(BOOLEAN) /\ s.stat \in Seq(Stats) /\ s.i \in Nat \ {0} /\ Len(s.ran) = s.i /\ Len(s.stat) = s.i - 1
      /\ Read(s.code[s.c], s.ran, s.stat) /\ s.ran[s.i]
  BY <1>1 DEF AtWork, Stats
<1>8. QED
  BY <1>1, <1>2, <1>4, <1>5, <1>6, <1>7

LEMMA CloseEndsKeeps ==
  ASSUME ShellInv, NEW p \in DOMAIN sh, CloseEnds(p)
  PROVE  ShellInv'
<1>1. PICK s : /\ s = sh[p] /\ ShellRight(p, s) /\ EndsRight(s, ends[p])
               /\ (s.last # 0 => s.last \in DOMAIN kid) /\ s.step = "close"
  BY DEF ShellInv, CloseEnds
<1>2. s.step \in Working \ {"pick"} /\ UNCHANGED <<todo, buf, defined, fg, mishaps>>
  BY <1>1 DEF Working, CloseEnds
<1>3. todo' \in Seq(Lines) /\ buf' \in Seq(0 .. PipeSize) /\ (p = Shell => fg = Shell \/ s.group # Shell)
  BY <1>1, <1>2 DEF ShellInv, FgRight
<1>4. PICK cmds : cmds = Pipeline(p) /\ cmds = s.code[s.c][s.i].cmds /\ IsList(cmds) /\ s.k \in DOMAIN cmds
  <2>1. Pipeline(p) = s.code[s.c][s.i].cmds /\ PipelineRight(s.code[s.c][s.i]) /\ AtWork(s)
    BY <1>1, <1>2, PipelineIs
  <2>2. QED
    BY <1>1, <2>1 DEF PipelineRight, AtWork
<1>5. /\ Fields(s) /\ s.pgid # Shell /\ s.c \in Nat \ {0} /\ CodeRight(s.code) /\ (p # Shell => Len(s.code) = 1 /\ Op(s.code[1]) = "&")
      /\ AtWork(s) /\ (p # Shell => s.quiet) /\ (s.quiet => s.pgid = 0)
  BY <1>1, <1>2 DEF ShellRight
<1>20. PICK pgid : pgid = IF s.k = 1 /\ ~s.quiet THEN s.last ELSE s.pgid
  OBVIOUS
<1>21. PICK moves : Go(p, [s EXCEPT !.pgid = pgid, !.k = @ + 1, !.rd = s.wr, !.group = IF moves THEN pgid ELSE @,
                                    !.step = IF s.k < Len(cmds) THEN "fork" ELSE "claim"])
  BY <1>1, <1>4, <1>20, Zenon DEF CloseEnds
<1>22. pgid # Shell
  BY <1>1, <1>5, <1>20 DEF ShellInv, Procs, Shell
<1>6. PICK group, step, k :
        /\ group = (IF moves THEN pgid ELSE s.group)
        /\ step = (IF s.k < Len(cmds) THEN "fork" ELSE "claim")
        /\ k = s.k + 1
  OBVIOUS
<1>7. PICK r : r = [s EXCEPT !.pgid = pgid, !.k = k, !.rd = s.wr, !.group = group, !.step = step]
  OBVIOUS
<1>8. PICK mine : mine = ends[p] \ {<<s.rd, "r">>, <<s.wr, "w">>}
  OBVIOUS
<1>9. /\ Go(p, r) /\ ends' = [ends EXCEPT ![p] = mine]
      /\ kid' = (IF Moves(p, pgid) THEN [kid EXCEPT ![s.last].group = pgid] ELSE kid)
  <2>1. Go(p, r)
    BY <1>5, <1>6, <1>7, <1>21 DEF Fields
  <2>2. kid' = IF Moves(p, pgid) THEN [kid EXCEPT ![s.last].group = pgid] ELSE kid
    BY <1>1, <1>20, Zenon DEF CloseEnds
  <2>3. ends' = [ends EXCEPT ![p] = mine]
    BY <1>1, <1>8, Zenon DEF CloseEnds
  <2>4. QED
    BY <2>1, <2>2, <2>3
<1>10. kid' = [q \in DOMAIN kid |-> kid'[q]] /\ \A q \in DOMAIN kid : KidRight(kid'[q]) /\ KidEnds(kid'[q], ends[q])
  <2>1. kid = [q \in DOMAIN kid |-> kid[q]] /\ \A q \in DOMAIN kid : KidRight(kid[q]) /\ KidEnds(kid[q], ends[q])
    BY DEF ShellInv, Procs
  <2>2. CASE Moves(p, pgid)
    <3>0. s.last # 0
      BY <1>1, <2>2 DEF Moves
    <3>1. PICK l, v : l = s.last /\ l \in DOMAIN kid /\ v = [kid[l] EXCEPT !.group = pgid] /\ kid' = [kid EXCEPT ![l] = v]
      BY <1>1, <1>9, <2>2, <3>0
    <3>2. KidRight(v) /\ KidEnds(v, ends[l])
      BY <2>1, <3>1 DEF KidRight, KidFields, KidEnds
    <3>3. QED
      BY <2>1, <3>1, <3>2
  <2>3. CASE ~Moves(p, pgid)
    BY <1>9, <2>1, <2>3
  <2>4. QED
    BY <2>2, <2>3
<1>11. /\ r.step = step /\ r.pgid = pgid /\ r.k = k /\ r.rd = s.wr /\ r.last = s.last /\ r.c = s.c /\ r.i = s.i
       /\ r.code = s.code /\ r.stat = s.stat /\ r.ran = s.ran /\ r.quiet = s.quiet /\ r.group = group /\ Fields(r)
  BY <1>5, <1>7 DEF Fields
<1>12. step \in {"fork", "claim"} /\ (step = "fork" => k \in DOMAIN cmds)
  <2>1. PICK n, h : n = Len(cmds) /\ h = s.k
    OBVIOUS
  <2>2. n \in Nat /\ DOMAIN cmds = 1 .. n /\ h \in 1 .. n
    BY <1>4, <2>1 DEF IsList
  <2>3. step = (IF h < n THEN "fork" ELSE "claim") /\ k = h + 1
    BY <1>6, <2>1
  <2>4. QED
    BY <2>2, <2>3
<1>13. AtWork(r)
  BY <1>1, <1>4, <1>5, <1>11, <1>12 DEF AtWork
<1>14. ShellRight(p, r)
  <2>1. s.quiet => pgid = 0
    BY <1>5, <1>20
  <2>2. QED
    BY <1>5, <1>11, <1>12, <1>13, <1>22, <2>1 DEF ShellRight, Working
<1>15. EndsRight(r, mine)
  BY <1>1, <1>8, <1>11, <1>12 DEF EndsRight
<1>16. IF p = Shell THEN FgRight(fg', r) ELSE fg' = fg
  BY <1>2, <1>3, <1>6, <1>11, <1>22 DEF FgRight
<1>17. QED
  BY <1>1, <1>3, <1>9, <1>10, <1>11, <1>14, <1>15, <1>16, OneShell

LEMMA ClaimKeeps ==
  ASSUME ShellInv, NEW p \in DOMAIN sh, Claim(p)
  PROVE  ShellInv'
<1>1. PICK s : /\ s = sh[p] /\ ShellRight(p, s) /\ (s.last # 0 => s.last \in DOMAIN kid) /\ s.step = "claim"
  BY DEF ShellInv, Claim
<1>2. UNCHANGED <<todo, kid, buf, defined, mishaps>>
  BY DEF Claim
<1>3. todo' \in Seq(Lines) /\ buf' \in Seq(0 .. PipeSize) /\ (p = Shell => fg = Shell \/ s.group # Shell)
  BY <1>1, <1>2 DEF ShellInv, FgRight
<1>4. /\ Fields(s) /\ s.pgid # Shell /\ s.c \in Nat \ {0} /\ CodeRight(s.code) /\ (p # Shell => Len(s.code) = 1 /\ Op(s.code[1]) = "&")
      /\ AtWork(s) /\ (p # Shell => s.quiet) /\ (s.quiet => s.pgid = 0)
  BY <1>1 DEF ShellRight, Working
<1>5. PICK r : r = [s EXCEPT !.step = "wait"]
  OBVIOUS
<1>6. Go(p, r) /\ ends' = [ends EXCEPT ![p] = {}] /\ (s.pgid = 0 => fg' = fg)
  BY <1>1, <1>5 DEF Claim
<1>7. /\ r.step = "wait" /\ r.pgid = s.pgid /\ r.group = s.group /\ r.last = s.last /\ r.c = s.c /\ r.i = s.i
      /\ r.code = s.code /\ r.stat = s.stat /\ r.ran = s.ran /\ r.quiet = s.quiet /\ Fields(r)
  BY <1>4, <1>5 DEF Fields
<1>8. AtWork(r)
  BY <1>1, <1>4, <1>7 DEF AtWork
<1>9. ShellRight(p, r) /\ EndsRight(r, {})
  BY <1>4, <1>7, <1>8 DEF ShellRight, EndsRight, Working
<1>10. IF p = Shell THEN FgRight(fg', r) ELSE fg' = fg
  BY <1>3, <1>4, <1>6, <1>7 DEF FgRight
<1>11. kid' = [q \in DOMAIN kid |-> kid'[q]] /\ \A q \in DOMAIN kid : KidRight(kid'[q]) /\ KidEnds(kid'[q], ends[q])
  BY <1>2 DEF ShellInv, Procs
<1>12. QED
  BY <1>1, <1>3, <1>6, <1>7, <1>9, <1>10, <1>11, OneShell

LEMMA WaitKeeps ==
  ASSUME ShellInv, NEW p \in DOMAIN sh, Wait(p)
  PROVE  ShellInv'
<1>1. PICK s : /\ s = sh[p] /\ ShellRight(p, s) /\ EndsRight(s, ends[p])
               /\ (s.last # 0 => s.last \in DOMAIN kid) /\ s.step = "wait"
  BY DEF ShellInv, Wait
<1>2. s.step \in Working \ {"pick"} /\ UNCHANGED <<todo, ends, buf, defined, mishaps>>
  BY <1>1 DEF Working, Wait
<1>3. todo' \in Seq(Lines) /\ buf' \in Seq(0 .. PipeSize) /\ ends[p] = {}
  BY <1>1, <1>2 DEF ShellInv, EndsRight
<1>4. /\ Fields(s) /\ s.pgid # Shell /\ s.c \in Nat \ {0} /\ CodeRight(s.code) /\ (p # Shell => Len(s.code) = 1 /\ Op(s.code[1]) = "&")
      /\ AtWork(s) /\ (p # Shell => s.quiet)
  BY <1>1, <1>2 DEF ShellRight
<1>5. PICK x : x = (IF s.last = 0 THEN "ok" ELSE kid[s.last].code) /\ x \in Stats
  BY <1>1 DEF ShellInv, KidRight, Stats
<1>6. PICK stat, i : stat = Append(s.stat, x) /\ i = s.i + 1
  OBVIOUS
<1>7. PICK r : r = [s EXCEPT !.stat = stat, !.i = i, !.step = "pick"]
  OBVIOUS
<1>8. /\ Go(p, r) /\ kid' = (IF s.last = 0 THEN kid ELSE [kid EXCEPT ![s.last].pc = "gone"])
      /\ (IF s.quiet THEN fg' = fg ELSE ClaimForeground(Shell))
  <2>1. Go(p, r)
    BY <1>1, <1>4, <1>5, <1>6, <1>7 DEF Wait, Fields
  <2>2. kid' = (IF s.last = 0 THEN kid ELSE [kid EXCEPT ![s.last].pc = "gone"]) /\ (IF s.quiet THEN fg' = fg ELSE ClaimForeground(Shell))
    BY <1>1, Zenon DEF Wait
  <2>3. QED
    BY <2>1, <2>2
<1>9. kid' = [q \in DOMAIN kid |-> kid'[q]] /\ \A q \in DOMAIN kid : KidRight(kid'[q]) /\ KidEnds(kid'[q], ends[q])
  <2>1. kid = [q \in DOMAIN kid |-> kid[q]] /\ \A q \in DOMAIN kid : KidRight(kid[q]) /\ KidEnds(kid[q], ends[q])
    BY DEF ShellInv, Procs
  <2>2. CASE s.last # 0
    <3>1. PICK l, v : l = s.last /\ l \in DOMAIN kid /\ v = [kid[l] EXCEPT !.pc = "gone"] /\ kid' = [kid EXCEPT ![l] = v]
      BY <1>1, <1>8, <2>2
    <3>2. KidRight(v) /\ KidEnds(v, ends[l])
      BY <2>1, <3>1 DEF KidRight, KidFields, KidEnds
    <3>3. QED
      BY <2>1, <3>1, <3>2
  <2>3. CASE s.last = 0
    BY <1>8, <2>1, <2>3
  <2>4. QED
    BY <2>2, <2>3
<1>10. PICK list : list = s.code[s.c] /\ s.i \in DOMAIN list /\ IsList(list) /\ s.c \in DOMAIN s.code
  <2>1. s.i \in DOMAIN s.code[s.c] /\ AtWork(s) /\ CodeRight(s.code)
    BY <1>1, <1>2, PipelineIs
  <2>2. QED
    BY <2>1 DEF AtWork, CodeRight, CondRight
<1>11. /\ s.ran \in Seq(BOOLEAN) /\ s.stat \in Seq(Stats) /\ s.i \in Nat \ {0} /\ Len(s.ran) = s.i /\ Len(s.stat) = s.i - 1
       /\ Read(list, s.ran, s.stat) /\ s.ran[s.i]
  BY <1>1, <1>2, <1>10, PipelineIs
<1>12. Read(list, s.ran, stat)
  BY <1>5, <1>6, <1>11, ReadEnd
<1>13. stat \in Seq({"ok", "bad"}) /\ Len(stat) = i - 1 /\ Len(s.ran) = i - 1 /\ i \in Nat \ {0} /\ i <= Len(list) + 1
  <2>1. stat \in Seq(Stats) /\ Len(stat) = s.i
    BY <1>5, <1>6, <1>11, Longer
  <2>2. s.i <= Len(list) /\ Len(list) \in Nat
    BY <1>10 DEF IsList
  <2>3. QED
    BY <1>6, <1>11, <2>1, <2>2 DEF Stats
<1>14. /\ r.step = "pick" /\ r.last = s.last /\ r.c = s.c /\ r.i = i /\ r.pgid = s.pgid /\ r.group = s.group
       /\ r.code = s.code /\ r.stat = stat /\ r.ran = s.ran /\ r.quiet = s.quiet /\ Fields(r)
  BY <1>4, <1>7 DEF Fields
<1>15. AtWork(r)
  BY <1>10, <1>11, <1>12, <1>13, <1>14 DEF AtWork
<1>16. ShellRight(p, r) /\ EndsRight(r, {})
  BY <1>4, <1>14, <1>15 DEF ShellRight, EndsRight, Working
<1>17. IF p = Shell THEN FgRight(fg', r) ELSE fg' = fg
  <2>1. CASE p = Shell
    <3>1. CASE s.group # Shell
      BY <1>14, <2>1, <3>1 DEF FgRight
    <3>2. CASE s.group = Shell /\ s.quiet
      BY <1>1, <1>8, <2>1, <3>2 DEF ShellInv, FgRight
    <3>3. CASE s.group = Shell /\ ~s.quiet
      <4>1. sh'[Shell] = r /\ Shell \in DOMAIN sh'
        BY <1>8, <2>1 DEF Go, ShellInv, Procs
      <4>2. IsThere(Shell)'
        BY <1>14, <3>3, <4>1 DEF IsThere
      <4>3. QED
        BY <1>8, <2>1, <3>3, <4>2 DEF ClaimForeground, FgRight
    <3>4. QED
      BY <3>1, <3>2, <3>3
  <2>2. CASE p # Shell
    BY <1>4, <1>8, <2>2
  <2>3. QED
    BY <2>1, <2>2
<1>18. ends' = [ends EXCEPT ![p] = {}]
  BY <1>2, <1>3, SameEnds
<1>19. QED
  BY <1>1, <1>3, <1>8, <1>9, <1>14, <1>16, <1>17, <1>18, OneShell


LEMMA RunCommandKeeps ==
  ASSUME ShellInv, NEW p \in DOMAIN sh, RunCommand(p)
  PROVE  ShellInv'
<1>1. PICK s : /\ s = sh[p] /\ ShellRight(p, s) /\ EndsRight(s, ends[p])
               /\ (s.last # 0 => s.last \in DOMAIN kid) /\ s.step = "fork"
  BY DEF ShellInv, RunCommand
<1>2. s.step \in Working \ {"pick"} /\ UNCHANGED <<todo, fg, mishaps>>
  BY <1>1 DEF Working, RunCommand
<1>3. todo' \in Seq(Lines) /\ buf \in Seq(0 .. PipeSize) /\ (p = Shell => fg = Shell \/ s.group # Shell) /\ Procs
  BY <1>1, <1>2 DEF ShellInv, FgRight
<1>4. /\ Fields(s) /\ s.pgid # Shell /\ s.c \in Nat \ {0} /\ CodeRight(s.code) /\ (p # Shell => Len(s.code) = 1 /\ Op(s.code[1]) = "&")
      /\ AtWork(s) /\ (p # Shell => s.quiet) /\ (s.quiet => s.pgid = 0)
  BY <1>1, <1>2 DEF ShellRight
<1>5. PICK cmds : cmds = Pipeline(p) /\ s.k \in DOMAIN cmds /\ Typed(cmds[s.k])
  <2>1. Pipeline(p) = s.code[s.c][s.i].cmds /\ PipelineRight(s.code[s.c][s.i])
    BY <1>1, <1>2, PipelineIs
  <2>2. QED
    BY <1>1, <1>4, <2>1 DEF PipelineRight, AtWork
<1>6. PICK cmd, out, mine :
        /\ cmd = cmds[s.k]
        /\ out = (IF s.k < Len(cmds) THEN Len(buf) + 1 ELSE 0)
        /\ mine = ends[p] \cup (IF out = 0 THEN {} ELSE {<<out, "r">>, <<out, "w">>})
  OBVIOUS
<1>7. Typed(cmd)
  BY <1>5, <1>6
<1>8. mine \subseteq {<<s.rd, "r">>, <<out, "r">>, <<out, "w">>}
  BY <1>1, <1>6 DEF EndsRight
<1>9. buf' \in Seq(0 .. PipeSize)
  <2>1. buf' = IF out = 0 THEN buf ELSE Append(buf, 0)
    BY <1>1, <1>5, <1>6, Zenon DEF RunCommand
  <2>2. PICK D : D = 0 .. PipeSize /\ 0 \in D
    BY ShellAssumption
  <2>3. buf \in Seq(D) /\ Append(buf, 0) \in Seq(D)
    BY <1>3, <2>2
  <2>4. QED
    BY <2>1, <2>2, <2>3, Zenon
<1>10. PICK q : q = NextPid
  OBVIOUS
<1>11. PICK last, r : last = (IF Kind(cmd) = "process" THEN q ELSE 0) /\ r = [s EXCEPT !.last = last, !.wr = out, !.step = "close"]
  OBVIOUS
<1>12. /\ r.step = "close" /\ r.last = last /\ r.c = s.c /\ r.i = s.i /\ r.k = s.k /\ r.rd = s.rd /\ r.wr = out /\ r.pgid = s.pgid
       /\ r.group = s.group /\ r.code = s.code /\ r.stat = s.stat /\ r.ran = s.ran /\ r.quiet = s.quiet /\ Fields(r)
  BY <1>4, <1>11 DEF Fields
<1>13. AtWork(r)
  BY <1>1, <1>4, <1>12 DEF AtWork
<1>14. ShellRight(p, r) /\ EndsRight(r, mine)
  BY <1>4, <1>8, <1>12, <1>13 DEF ShellRight, EndsRight, Working
<1>15. p = Shell => FgRight(fg, r)
  BY <1>3, <1>12 DEF FgRight
<1>16. CASE Kind(cmd) # "process"
  <2>1. Go(p, r) /\ ends' = [ends EXCEPT ![p] = mine] /\ UNCHANGED kid
    <3>1. Go(p, [s EXCEPT !.last = 0, !.wr = out, !.step = "close"]) /\ ends' = [ends EXCEPT ![p] = mine] /\ UNCHANGED kid
      BY <1>1, <1>5, <1>6, <1>16, Zenon DEF RunCommand
    <3>2. QED
      BY <1>11, <1>16, <3>1
  <2>2. kid' = [t \in DOMAIN kid |-> kid'[t]] /\ \A t \in DOMAIN kid : KidRight(kid'[t]) /\ KidEnds(kid'[t], ends[t])
    BY <2>1 DEF ShellInv, Procs
  <2>3. IF p = Shell THEN FgRight(fg', r) ELSE fg' = fg
    BY <1>2, <1>15
  <2>4. r.last = 0
    BY <1>11, <1>12, <1>16
  <2>5. QED
    BY <1>3, <1>9, <1>14, <2>1, <2>2, <2>3, <2>4, OneShell
<1>17. CASE Kind(cmd) = "process"
  <2>1. PICK cd : /\ cd \in (IF cmd.args[1].kind = "cd" THEN {"ok", "bad"} ELSE {"none"})
                  /\ kid' = And(q, kid, Kid(p, cmd, s.rd, out, cd))
    BY <1>1, <1>5, <1>6, <1>10, <1>17, Zenon DEF RunCommand
  <2>2. PICK moved, new : moved = [ends EXCEPT ![p] = mine] /\ new = Kid(p, cmd, s.rd, out, cd)
    OBVIOUS
  <2>3. ends' = And(q, moved, mine) /\ Go(p, r)
    <3>1. ends' = And(q, moved, mine) /\ Go(p, [s EXCEPT !.last = q, !.wr = out, !.step = "close"])
      BY <1>1, <1>5, <1>6, <1>10, <1>17, <2>2, Zenon DEF RunCommand
    <3>2. QED
      BY <1>11, <1>17, <3>1
  <2>4. /\ q \notin DOMAIN ends /\ q # Shell /\ Cardinality(DOMAIN ends \cup {q}) \in Nat
        /\ DOMAIN ends \cup {q} = 1 .. Cardinality(DOMAIN ends \cup {q})
    BY <1>10, NewProcess
  <2>5. DOMAIN moved = DOMAIN ends /\ moved[p] = mine /\ \A t \in DOMAIN ends : t # p => moved[t] = ends[t]
    BY <1>3, <2>2 DEF Procs
  <2>6. q \notin DOMAIN sh /\ q \notin DOMAIN kid /\ p \in DOMAIN ends
    BY <1>3, <2>4 DEF Procs
  <2>7. /\ DOMAIN kid' = DOMAIN kid \cup {q} /\ kid'[q] = new /\ \A t \in DOMAIN kid : kid'[t] = kid[t]
        /\ kid' = [t \in DOMAIN kid' |-> kid'[t]]
    <3>1. kid' = And(q, kid, new)
      BY <2>1, <2>2
    <3>2. QED
      BY <2>6, <3>1 DEF And
  <2>8. /\ DOMAIN ends' = DOMAIN ends \cup {q} /\ ends'[q] = mine /\ \A t \in DOMAIN ends : ends'[t] = moved[t]
        /\ ends' = [t \in DOMAIN ends' |-> ends'[t]]
    <3>1. q \notin DOMAIN moved
      BY <2>4, <2>5
    <3>2. /\ DOMAIN ends' = DOMAIN moved \cup {q} /\ ends'[q] = mine /\ \A t \in DOMAIN moved : ends'[t] = moved[t]
          /\ ends' = [t \in DOMAIN ends' |-> ends'[t]]
      BY <2>3, <3>1 DEF And
    <3>3. QED
      BY <2>5, <3>2
  <2>9. DOMAIN sh' = DOMAIN sh /\ sh' = [t \in DOMAIN sh' |-> sh'[t]] /\ sh'[p] = r /\ \A t \in DOMAIN sh : t # p => sh'[t] = sh[t]
    BY <1>3, <2>3 DEF Procs, Go
  <2>10. Procs'
    <3>1. /\ DOMAIN sh' \cap DOMAIN kid' = {} /\ DOMAIN sh' \cup DOMAIN kid' = DOMAIN ends' /\ Shell \in DOMAIN sh'
      BY <1>3, <2>6, <2>7, <2>8, <2>9 DEF Procs
    <3>2. Cardinality(DOMAIN ends') \in Nat /\ DOMAIN ends' = 1 .. Cardinality(DOMAIN ends')
      BY <2>4, <2>8, Zenon
    <3>3. QED
      BY <2>7, <2>8, <2>9, <3>1, <3>2 DEF Procs
  <2>11. KidRight(new) /\ KidEnds(new, mine)
    <3>1. /\ new.pc = "setup" /\ new.left = 0 /\ new.code = "ok" /\ new.cd = cd /\ new.cmd = cmd /\ new.in = s.rd /\ new.out = out
          /\ new.own = out /\ KidFields(new)
      BY <2>2 DEF Kid, KidFields
    <3>2. cd \in {"none", "ok", "bad"} /\ (cd = "none" => cmd.args[1].kind # "cd")
      BY <2>1
    <3>3. cd = "none" => cmd.args[1].name \in DOMAIN Programs
      BY <1>7, <1>17, <3>2 DEF Typed
    <3>4. KidRight(new)
      BY <3>1, <3>2, <3>3 DEF KidRight
    <3>5. QED
      BY <1>8, <3>1, <3>4 DEF KidEnds
  <2>12. \A t \in DOMAIN sh' : ShellRight(t, sh'[t]) /\ EndsRight(sh'[t], ends'[t]) /\ (sh'[t].last # 0 => sh'[t].last \in DOMAIN kid')
    <3>1. \A t \in DOMAIN sh : t \in DOMAIN ends
      BY <1>3 DEF Procs
    <3>2. \A t \in DOMAIN sh : t # p => ShellRight(t, sh[t]) /\ EndsRight(sh[t], ends[t]) /\ (sh[t].last # 0 => sh[t].last \in DOMAIN kid)
      BY DEF ShellInv
    <3>3. ShellRight(p, sh'[p]) /\ EndsRight(sh'[p], ends'[p]) /\ (sh'[p].last # 0 => sh'[p].last \in DOMAIN kid')
      BY <1>11, <1>12, <1>14, <1>17, <2>5, <2>6, <2>7, <2>8, <2>9
    <3>4. QED
      BY <2>5, <2>7, <2>8, <2>9, <3>1, <3>2, <3>3
  <2>13. \A t \in DOMAIN kid' : KidRight(kid'[t]) /\ KidEnds(kid'[t], ends'[t])
    <3>1. \A t \in DOMAIN kid : t \in DOMAIN ends /\ t # p
      BY <1>3 DEF Procs
    <3>2. \A t \in DOMAIN kid : KidRight(kid[t]) /\ KidEnds(kid[t], ends[t])
      BY DEF ShellInv
    <3>3. QED
      BY <2>5, <2>7, <2>8, <2>11, <3>1, <3>2
  <2>14. FgRight(fg', sh'[Shell])
    <3>1. p # Shell => FgRight(fg, sh[Shell])
      BY DEF ShellInv
    <3>2. Shell \in DOMAIN sh
      BY <1>3 DEF Procs
    <3>3. QED
      BY <1>2, <1>15, <2>9, <3>1, <3>2
  <2>15. QED
    BY <1>3, <1>9, <2>10, <2>12, <2>13, <2>14 DEF ShellInv
<1>18. QED
  BY <1>16, <1>17


\* The system refuses a process or a pipe.
LEMMA NoForkKeeps ==
  ASSUME ShellInv, NEW p \in DOMAIN sh, NoFork(p)
  PROVE  ShellInv'
<1>1. PICK s : s = sh[p] /\ ShellRight(p, s) /\ EndsRight(s, ends[p]) /\ s.step = "fork"
  BY DEF ShellInv, NoFork
<1>2. s.step \in Working \ {"pick"} /\ UNCHANGED <<todo, kid, fg>>
  BY <1>1 DEF Working, NoFork
<1>3. todo' \in Seq(Lines) /\ buf \in Seq(0 .. PipeSize) /\ (p = Shell => fg = Shell \/ s.group # Shell) /\ Procs
  BY <1>1, <1>2 DEF ShellInv, FgRight
<1>4. Fields(s) /\ AtWork(s)
  BY <1>1, <1>2 DEF ShellRight
<1>5. PICK out, more, mine :
        /\ out = (IF s.k < Len(Pipeline(p)) THEN Len(buf) + 1 ELSE 0)
        /\ more = (IF out = 0 THEN {} ELSE {<<out, "r">>, <<out, "w">>})
        /\ mine = ends[p] \cup more
  OBVIOUS
<1>6. PICK r : r = [s EXCEPT !.last = 0, !.wr = out, !.step = "close"]
  OBVIOUS
<1>7. Go(p, r) /\ ends' = [ends EXCEPT ![p] = mine] /\ buf' = (IF out = 0 THEN buf ELSE Append(buf, 0))
  BY <1>1, <1>5, <1>6, Zenon DEF NoFork
<1>8. /\ r.step = "close" /\ r.last = 0 /\ r.c = s.c /\ r.i = s.i /\ r.k = s.k /\ r.rd = s.rd /\ r.wr = out /\ r.pgid = s.pgid
      /\ r.group = s.group /\ r.code = s.code /\ r.stat = s.stat /\ r.ran = s.ran /\ r.quiet = s.quiet /\ Fields(r)
  BY <1>4, <1>6 DEF Fields
<1>9. AtWork(r)
  BY <1>1, <1>4, <1>8 DEF AtWork
<1>10. ShellRight(p, r)
  BY <1>1, <1>2, <1>8, <1>9 DEF ShellRight, Working
<1>11. EndsRight(r, mine)
  BY <1>1, <1>5, <1>8 DEF EndsRight
<1>12. buf' \in Seq(0 .. PipeSize)
  <2>1. PICK D : D = 0 .. PipeSize /\ 0 \in D
    BY ShellAssumption
  <2>2. buf \in Seq(D) /\ Append(buf, 0) \in Seq(D)
    BY <1>3, <2>1
  <2>3. QED
    BY <1>7, <2>1, <2>2, Zenon
<1>13. kid' = [q \in DOMAIN kid |-> kid'[q]] /\ \A q \in DOMAIN kid : KidRight(kid'[q]) /\ KidEnds(kid'[q], ends[q])
  BY <1>2 DEF ShellInv, Procs
<1>14. IF p = Shell THEN FgRight(fg', r) ELSE fg' = fg
  BY <1>2, <1>3, <1>8 DEF FgRight
<1>15. QED
  BY <1>3, <1>7, <1>8, <1>10, <1>11, <1>12, <1>13, <1>14, OneShell

LEMMA NoPipeKeeps ==
  ASSUME ShellInv, NEW p \in DOMAIN sh, NoPipe(p)
  PROVE  ShellInv'
<1>1. PICK s, r : s = sh[p] /\ ShellRight(p, s) /\ r = [s EXCEPT !.step = "ended"]
  BY DEF ShellInv
<1>2. Go(p, r) /\ ends' = [ends EXCEPT ![p] = {}] /\ UNCHANGED <<todo, kid, buf, fg>>
  BY <1>1 DEF NoPipe
<1>3. ShellRight(p, r) /\ EndsRight(r, {}) /\ r.last = s.last /\ r.step = "ended"
  BY <1>1, HitShell
<1>4. r.last # 0 => r.last \in DOMAIN kid
  BY <1>1, <1>3 DEF ShellInv
<1>5. kid' = [q \in DOMAIN kid |-> kid'[q]] /\ \A q \in DOMAIN kid : KidRight(kid'[q]) /\ KidEnds(kid'[q], ends[q])
  BY <1>2 DEF ShellInv, Procs
<1>6. todo' \in Seq(Lines) /\ buf' \in Seq(0 .. PipeSize)
  BY <1>2 DEF ShellInv
<1>7. IF p = Shell THEN FgRight(fg', r) ELSE fg' = fg
  BY <1>2, <1>3 DEF FgRight
<1>8. QED
  BY <1>2, <1>3, <1>4, <1>5, <1>6, <1>7, OneShell

\* A pipe is given a new count, if there is one.
LEMMA Put ==
  ASSUME NEW D, NEW s \in Seq(D), NEW i, NEW x, i \in DOMAIN s => x \in D
  PROVE  [s EXCEPT ![i] = x] \in Seq(D)
<1>1. PICK t : t = [s EXCEPT ![i] = x]
  OBVIOUS
<1>2. Len(s) \in Nat /\ DOMAIN s = 1 .. Len(s) /\ \A j \in DOMAIN s : s[j] \in D
  OBVIOUS
<1>3. DOMAIN t = 1 .. Len(s) /\ t = [j \in 1 .. Len(s) |-> t[j]] /\ \A j \in 1 .. Len(s) : t[j] \in D
  BY <1>1, <1>2
<1>4. t \in [1 .. Len(s) -> D]
  BY <1>3, Zenon
<1>5. QED
  BY <1>1, <1>2, <1>4, SeqDef

\* A command ends.
LEMMA EndedRight ==
  ASSUME NEW v, KidRight(v), NEW code \in {"ok", "bad"}
  PROVE  KidRight([v EXCEPT !.pc = "zombie", !.code = code])
<1>1. PICK w : w = [v EXCEPT !.pc = "zombie", !.code = code]
  OBVIOUS
<1>2. KidFields(v)
  BY DEF KidRight
<1>3. /\ w.pc = "zombie" /\ w.code = code /\ w.left = v.left /\ w.cd = v.cd /\ w.cmd = v.cmd
      /\ KidFields(w)
  BY <1>1, <1>2 DEF KidFields
<1>4. KidRight(w)
  BY <1>3 DEF KidRight
<1>5. QED
  BY <1>1, <1>4

LEMMA EndedKeeps ==
  ASSUME ShellInv, NEW q \in DOMAIN kid, NEW code \in {"ok", "bad"}, Ended(q, code), UNCHANGED <<todo, sh, fg, buf>>
  PROVE  ShellInv'
<1>1. PICK v : v = kid[q]
  OBVIOUS
<1>2. KidRight(v)
  BY <1>1 DEF ShellInv
<1>3. PICK w : w = [v EXCEPT !.pc = "zombie", !.code = code]
  OBVIOUS
<1>4. KidRight(w) /\ KidEnds(w, {})
  BY <1>2, <1>3, EndedRight DEF KidEnds
<1>5. kid' = [kid EXCEPT ![q] = w] /\ ends' = [ends EXCEPT ![q] = {}]
  <2>1. KidFields(v) /\ kid = [t \in DOMAIN kid |-> kid[t]]
    BY <1>2 DEF KidRight, ShellInv, Procs
  <2>2. kid' = [kid EXCEPT ![q].pc = "zombie", ![q].code = code] /\ ends' = [ends EXCEPT ![q] = {}]
    BY DEF Ended
  <2>3. QED
    BY <1>1, <1>3, <2>1, <2>2 DEF KidFields
<1>6. buf' \in Seq(0 .. PipeSize)
  BY DEF ShellInv
<1>7. QED
  BY <1>4, <1>5, <1>6, OneKid

\* What a command is, and its program once it is set up to run.
LEMMA KidIs ==
  ASSUME ShellInv, NEW q \in DOMAIN kid
  PROVE  /\ KidRight(kid[q]) /\ KidEnds(kid[q], ends[q]) /\ ends = [ends EXCEPT ![q] = ends[q]]
         /\ kid[q].cd = "none" => Program(q).writes \in Nat /\ Program(q).codes \in SUBSET {"ok", "bad"}
<1>1. KidRight(kid[q]) /\ KidEnds(kid[q], ends[q])
  BY DEF ShellInv
<1>2. ends = [ends EXCEPT ![q] = ends[q]]
  BY DEF ShellInv, Procs
<1>3. ASSUME kid[q].cd = "none" PROVE Program(q).writes \in Nat /\ Program(q).codes \in SUBSET {"ok", "bad"}
  <2>1. kid[q].cmd.args[1].name \in DOMAIN Programs
    BY <1>1, <1>3 DEF KidRight
  <2>2. Program(q) \in [found : BOOLEAN, reads : {"none", "one", "all"}, writes : Nat, codes : SUBSET {"ok", "bad"}]
    BY <2>1, ShellAssumption DEF Program
  <2>3. QED
    BY <2>2
<1>4. QED
  BY <1>1, <1>2, <1>3

LEMMA SetupKeeps ==
  ASSUME ShellInv, NEW q \in DOMAIN kid, Setup(q), UNCHANGED <<todo, sh, defined, fg, mishaps>>
  PROVE  ShellInv'
<1>1. PICK v : v = kid[q] /\ KidRight(v) /\ KidEnds(v, ends[q]) /\ v.pc = "setup"
  BY DEF ShellInv, Setup
<1>2. UNCHANGED buf /\ buf' \in Seq(0 .. PipeSize) /\ KidFields(v)
  BY <1>1 DEF ShellInv, Setup, KidRight
<1>3. PICK cmd, dropped :
        /\ cmd = v.cmd
        /\ dropped = (IF cmd.in # {} THEN {<<v.in, "r">>} ELSE {}) \cup (IF cmd.out # {} THEN {<<v.out, "w">>} ELSE {})
  OBVIOUS
<1>4. ASSUME NEW code \in {"ok", "bad"}, Ended(q, code)
      PROVE  ShellInv'
  BY <1>2, <1>4, EndedKeeps
<1>5. ASSUME v.cd = "none",
             kid' = [kid EXCEPT ![q] = [kid[q] EXCEPT
                           !.pc = IF Program(q).reads = "none" THEN "write" ELSE "read",
                           !.left = Program(q).writes,
                           !.in = IF cmd.in # {} THEN 0 ELSE @, !.out = IF cmd.out # {} THEN 0 ELSE @, !.execed = TRUE]],
             ends' = [ends EXCEPT ![q] = @ \ dropped]
      PROVE  ShellInv'
  <2>1. PICK pc, in, out, left :
          /\ pc = (IF Program(q).reads = "none" THEN "write" ELSE "read") /\ left = Program(q).writes
          /\ in = (IF cmd.in # {} THEN 0 ELSE v.in) /\ out = (IF cmd.out # {} THEN 0 ELSE v.out)
    OBVIOUS
  <2>2. PICK w : w = [v EXCEPT !.pc = pc, !.left = left, !.in = in, !.out = out, !.execed = TRUE]
    OBVIOUS
  <2>3. kid' = [kid EXCEPT ![q] = w]
    <3>1. w = [v EXCEPT !.pc = IF Program(q).reads = "none" THEN "write" ELSE "read",
                        !.left = Program(q).writes,
                        !.in = IF cmd.in # {} THEN 0 ELSE @, !.out = IF cmd.out # {} THEN 0 ELSE @, !.execed = TRUE]
      BY <1>2, <2>1, <2>2 DEF KidFields
    <3>2. QED
      BY <1>1, <1>5, <3>1
  <2>4. ends' = [ends EXCEPT ![q] = ends[q] \ dropped]
    BY <1>5
  <2>5. /\ w.pc = pc /\ w.left = left /\ w.in = in /\ w.out = out /\ w.own = v.own /\ w.code = v.code /\ w.cd = v.cd
        /\ w.cmd = v.cmd /\ KidFields(w)
    BY <1>2, <2>2 DEF KidFields
  <2>6. left \in Nat /\ pc \in {"read", "write"}
    BY <1>1, <1>5, <2>1, KidIs
  <2>7. KidRight(w)
    BY <1>1, <1>5, <2>5, <2>6 DEF KidRight
  <2>8. KidEnds(w, ends[q] \ dropped)
    BY <1>1, <1>3, <2>1, <2>5 DEF KidEnds
  <2>9. QED
    BY <1>2, <2>3, <2>4, <2>7, <2>8, OneKid
<1>6. QED
  <2>1. v.cd # "none" => v.cd \in {"ok", "bad"}
    BY <1>1 DEF KidRight
  <2>2. CASE Fails(cmd) /\ Ended(q, "bad")
    BY <1>4, <2>2
  <2>3. CASE ~(Fails(cmd) /\ Ended(q, "bad"))
    <3>1. CASE v.cd # "none"
      <4>1. Ended(q, v.cd)
        BY <1>1, <1>3, <2>3, <3>1, Zenon DEF Setup
      <4>2. QED
        BY <1>4, <2>1, <3>1, <4>1
    <3>2. CASE v.cd = "none" /\ ~Program(q).found
      <4>1. Ended(q, "ok")
        BY <1>1, <1>3, <2>3, <3>2, Zenon DEF Setup
      <4>2. QED
        BY <1>4, <4>1
    <3>3. CASE v.cd = "none" /\ Program(q).found
      <4>1. /\ kid' = [kid EXCEPT ![q] = [kid[q] EXCEPT
                             !.pc = IF Program(q).reads = "none" THEN "write" ELSE "read",
                             !.left = Program(q).writes,
                             !.in = IF cmd.in # {} THEN 0 ELSE @, !.out = IF cmd.out # {} THEN 0 ELSE @, !.execed = TRUE]]
            /\ ends' = [ends EXCEPT ![q] = @ \ dropped]
        BY <1>1, <1>3, <2>3, <3>3, Zenon DEF Setup
      <4>2. QED
        BY <1>5, <3>3, <4>1
    <3>4. QED
      BY <3>1, <3>2, <3>3
  <2>4. QED
    BY <2>2, <2>3

LEMMA ReadInputKeeps ==
  ASSUME ShellInv, NEW q \in DOMAIN kid, ReadInput(q), UNCHANGED <<todo, sh, defined, fg, mishaps>>
  PROVE  ShellInv'
<1>1. PICK v : v = kid[q] /\ KidRight(v) /\ KidEnds(v, ends[q]) /\ v.pc = "read"
  BY DEF ShellInv, ReadInput
<1>8. PICK pc \in {"write", "stopped"} :
        kid' = [kid EXCEPT ![q].pc = pc] \/ kid' = [kid EXCEPT ![q].pc = IF Program(q).reads = "one" THEN "write" ELSE @]
  BY DEF ReadInput
<1>9. PICK go \in {"write", "stopped"} : kid' = [kid EXCEPT ![q].pc = go] \/ kid' = [kid EXCEPT ![q].pc = @]
  BY <1>8
<1>2. PICK w : w = [v EXCEPT !.pc = go]
  OBVIOUS
<1>3. KidRight(w) /\ KidEnds(w, ends[q])
  BY <1>1, <1>2 DEF KidRight, KidFields, KidEnds
<1>4. kid' = [kid EXCEPT ![q] = w] \/ kid' = [kid EXCEPT ![q] = v]
  <2>1. KidFields(v) /\ kid = [t \in DOMAIN kid |-> kid[t]]
    BY <1>1 DEF KidRight, ShellInv, Procs
  <2>4. CASE kid' = [kid EXCEPT ![q].pc = go]
    BY <1>1, <1>2, <2>1, <2>4 DEF KidFields
  <2>5. CASE kid' = [kid EXCEPT ![q].pc = @]
    BY <1>1, <2>1, <2>5 DEF KidFields
  <2>6. QED
    BY <1>9, <2>4, <2>5
<1>5. buf' \in Seq(0 .. PipeSize)
  <2>1. PICK D : D = 0 .. PipeSize
    OBVIOUS
  <2>2. buf \in Seq(D)
    BY <2>1 DEF ShellInv
  <2>3. buf' = buf \/ (buf[v.in] > 0 /\ buf' = [buf EXCEPT ![v.in] = buf[v.in] - 1])
    BY <1>1 DEF ReadInput
  <2>4. buf[v.in] > 0 /\ v.in \in DOMAIN buf => buf[v.in] - 1 \in D
    <3>1. v.in \in DOMAIN buf => buf[v.in] \in D
      BY <2>2
    <3>2. QED
      BY <2>1, <3>1, ShellAssumption
  <2>5. ~(buf[v.in] > 0) \/ [buf EXCEPT ![v.in] = buf[v.in] - 1] \in Seq(D)
    BY <2>2, <2>4, Put
  <2>6. QED
    BY <2>1, <2>2, <2>3, <2>5
<1>6. ends' = [ends EXCEPT ![q] = ends[q]]
  BY KidIs DEF ReadInput
<1>7. QED
  BY <1>1, <1>3, <1>4, <1>5, <1>6, OneKid

LEMMA WriteOutputKeeps ==
  ASSUME ShellInv, NEW q \in DOMAIN kid, WriteOutput(q), UNCHANGED <<todo, sh, defined, fg, mishaps>>
  PROVE  ShellInv'
<1>1. PICK v : v = kid[q] /\ KidRight(v) /\ KidEnds(v, ends[q]) /\ v.pc = "write" /\ v.left > 0
  BY DEF ShellInv, WriteOutput
<1>2. CASE v.out # 0 /\ ~HasEnd(<<v.out, "r">>)
  BY <1>1, <1>2, EndedKeeps DEF WriteOutput
<1>3. CASE ~(v.out # 0 /\ ~HasEnd(<<v.out, "r">>))
  <2>1. PICK w : w = [v EXCEPT !.left = @ - 1]
    OBVIOUS
  <2>2. kid' = [kid EXCEPT ![q] = w] /\ UNCHANGED ends /\ ~PipeFull(q)
        /\ buf' = IF v.out = 0 THEN buf ELSE [buf EXCEPT ![v.out] = @ + 1]
    BY <1>1, <1>3, <2>1 DEF WriteOutput
  <2>3. KidRight(w) /\ KidEnds(w, ends[q])
    BY <1>1, <2>1 DEF KidRight, KidFields, KidEnds
  <2>4. buf' \in Seq(0 .. PipeSize)
    <3>1. PICK D : D = 0 .. PipeSize
      OBVIOUS
    <3>2. buf \in Seq(D)
      BY <3>1 DEF ShellInv
    <3>3. v.out # 0 /\ v.out \in DOMAIN buf => buf[v.out] + 1 \in D
      <4>1. v.out \in DOMAIN buf => buf[v.out] \in D
        BY <3>2
      <4>2. v.out # 0 => buf[v.out] # PipeSize
        BY <1>1, <2>2 DEF PipeFull
      <4>3. QED
        BY <3>1, <4>1, <4>2, ShellAssumption
    <3>4. buf' = buf \/ (v.out # 0 /\ buf' = [buf EXCEPT ![v.out] = buf[v.out] + 1])
      BY <2>2
    <3>5. [buf EXCEPT ![v.out] = buf[v.out] + 1] \in Seq(D) \/ v.out = 0
      BY <3>2, <3>3, Put
    <3>6. QED
      BY <3>1, <3>2, <3>4, <3>5
  <2>5. ends' = [ends EXCEPT ![q] = ends[q]]
    BY <2>2, KidIs
  <2>6. QED
    BY <2>2, <2>3, <2>4, <2>5, OneKid
<1>4. QED
  BY <1>2, <1>3

LEMMA ExitProgramKeeps ==
  ASSUME ShellInv, NEW q \in DOMAIN kid, ExitProgram(q), UNCHANGED <<todo, sh, defined, fg, mishaps>>
  PROVE  ShellInv'
<1>1. KidRight(kid[q]) /\ kid[q].pc = "write" /\ UNCHANGED buf
  BY DEF ShellInv, ExitProgram
<1>2. kid[q].cd = "none"
  BY <1>1 DEF KidRight
<1>3. PICK code \in Program(q).codes : Ended(q, code)
  BY DEF ExitProgram
<1>4. code \in {"ok", "bad"}
  BY <1>2, <1>3, KidIs
<1>5. QED
  BY <1>1, <1>3, <1>4, EndedKeeps


\* SIGINT ends those it hits, and closes their ends.
LEMMA InterruptKeeps ==
  ASSUME ShellInv, Interrupt
  PROVE  ShellInv'
<1>1. PICK H :
        /\ sh' = [q \in DOMAIN sh |-> IF q \in H THEN [sh[q] EXCEPT !.step = "ended"] ELSE sh[q]]
        /\ kid' = [q \in DOMAIN kid |-> IF q \in H THEN [kid[q] EXCEPT !.pc = "zombie", !.code = "bad"] ELSE kid[q]]
        /\ ends' = [q \in DOMAIN ends |-> IF q \in H THEN {} ELSE ends[q]]
  <2>1. PICK H : H = {q \in DOMAIN ends : \/ Alive(q) /\ kid[q].group = fg /\ kid[q].pc # "stopped"
                                          \/ q \in DOMAIN sh /\ sh[q].group = fg /\ sh[q].step \notin {"ended", "gone", "stopped"}}
    OBVIOUS
  <2>2. DOMAIN sh \subseteq DOMAIN ends /\ DOMAIN kid \subseteq DOMAIN ends
    BY DEF ShellInv, Procs
  <2>3. \A q \in DOMAIN ends : q \in H <=> \/ Alive(q) /\ kid[q].group = fg /\ kid[q].pc # "stopped"
                                           \/ q \in DOMAIN sh /\ sh[q].group = fg /\ sh[q].step \notin {"ended", "gone", "stopped"}
    BY <2>1
  <2>4. QED
    BY <2>2, <2>3 DEF Interrupt
<1>2. Procs /\ UNCHANGED <<todo, buf, fg>>
  BY DEF ShellInv, Interrupt
<1>3. DOMAIN sh' = DOMAIN sh /\ DOMAIN kid' = DOMAIN kid /\ DOMAIN ends' = DOMAIN ends
  BY <1>1
<1>4. sh' = [q \in DOMAIN sh' |-> sh'[q]] /\ kid' = [q \in DOMAIN kid' |-> kid'[q]] /\ ends' = [q \in DOMAIN ends' |-> ends'[q]]
  BY <1>1
<1>5. Procs'
  BY <1>2, <1>3, <1>4 DEF Procs
<1>6. ASSUME NEW p \in DOMAIN sh
      PROVE  ShellRight(p, sh'[p]) /\ EndsRight(sh'[p], ends'[p]) /\ sh'[p].last = sh[p].last
             /\ (sh'[p].step = "ended" \/ sh'[p] = sh[p])
  <2>1. p \in DOMAIN ends /\ ShellRight(p, sh[p]) /\ EndsRight(sh[p], ends[p])
    BY <1>2 DEF ShellInv, Procs
  <2>2. CASE p \in H
    <3>1. PICK t, h : t = sh[p] /\ ShellRight(p, t) /\ h = [t EXCEPT !.step = "ended"]
      BY <2>1
    <3>2. ShellRight(p, h) /\ EndsRight(h, {}) /\ h.last = t.last /\ h.step = "ended"
      BY <3>1, HitShell
    <3>3. sh'[p] = h /\ ends'[p] = {}
      BY <1>1, <2>1, <2>2, <3>1
    <3>4. QED
      BY <3>1, <3>2, <3>3
  <2>3. CASE p \notin H
    BY <1>1, <2>1, <2>3
  <2>4. QED
    BY <2>2, <2>3
<1>7. ASSUME NEW q \in DOMAIN kid
      PROVE  KidRight(kid'[q]) /\ KidEnds(kid'[q], ends'[q])
  <2>1. q \in DOMAIN ends /\ KidRight(kid[q]) /\ KidEnds(kid[q], ends[q])
    BY <1>2 DEF ShellInv, Procs
  <2>2. CASE q \in H
    <3>1. kid'[q] = [kid[q] EXCEPT !.pc = "zombie", !.code = "bad"] /\ ends'[q] = {}
      BY <1>1, <2>1, <2>2
    <3>2. KidRight([kid[q] EXCEPT !.pc = "zombie", !.code = "bad"])
      BY <2>1, EndedRight
    <3>3. QED
      BY <3>1, <3>2 DEF KidEnds
  <2>3. CASE q \notin H
    BY <1>1, <2>1, <2>3
  <2>4. QED
    BY <2>2, <2>3
<1>8. FgRight(fg', sh'[Shell])
  <2>1. Shell \in DOMAIN sh /\ FgRight(fg, sh[Shell])
    BY DEF ShellInv, Procs
  <2>2. QED
    BY <1>2, <1>6, <2>1 DEF FgRight
<1>9. \A p \in DOMAIN sh' : sh'[p].last # 0 => sh'[p].last \in DOMAIN kid'
  <2>1. \A p \in DOMAIN sh : sh[p].last # 0 => sh[p].last \in DOMAIN kid
    BY DEF ShellInv
  <2>2. QED
    BY <1>3, <1>6, <2>1
<1>10. todo' \in Seq(Lines) /\ buf' \in Seq(0 .. PipeSize)
  BY <1>2 DEF ShellInv
<1>11. QED
  BY <1>3, <1>5, <1>6, <1>7, <1>8, <1>9, <1>10 DEF ShellInv

LEMMA ShellStepKeeps == ShellInv /\ [ShellNext]_shellVars => ShellInv'
<1> SUFFICES ASSUME ShellInv, [ShellNext]_shellVars PROVE ShellInv'
  OBVIOUS
<1>1. CASE UNCHANGED shellVars
  BY <1>1 DEF shellVars, ShellInv, Procs
<1>2. CASE Interrupt
  BY <1>2, InterruptKeeps
<1>3. ASSUME NEW p \in DOMAIN ends, Step(p) PROVE ShellInv'
  <2>1. CASE ReadLine \/ RunList
    BY <2>1, ReadLineKeeps, RunListKeeps
  <2>2. CASE p \in DOMAIN sh /\ ShellStep(p)
    <3>1. CASE Sequence(p)
      BY <2>2, <3>1, SequenceKeeps
    <3>2. CASE Conditional(p)
      BY <2>2, <3>2, ConditionalKeeps
    <3>3. CASE RunCommand(p)
      BY <2>2, <3>3, RunCommandKeeps
    <3>4. CASE CloseEnds(p)
      BY <2>2, <3>4, CloseEndsKeeps
    <3>5. CASE Claim(p)
      BY <2>2, <3>5, ClaimKeeps
    <3>6. CASE Wait(p)
      BY <2>2, <3>6, WaitKeeps
    <3>7. CASE NoFork(p) \/ NoPipe(p)
      BY <2>2, <3>7, NoForkKeeps, NoPipeKeeps
    <3>8. QED
      BY <2>2, <3>1, <3>2, <3>3, <3>4, <3>5, <3>6, <3>7 DEF ShellStep
  <2>3. CASE p \in DOMAIN kid /\ KidStep(p)
    <3>1. UNCHANGED <<todo, sh, defined, fg, mishaps>>
      BY <2>3 DEF KidStep
    <3>2. CASE Setup(p)
      BY <2>3, <3>1, <3>2, SetupKeeps
    <3>3. CASE ReadInput(p)
      BY <2>3, <3>1, <3>3, ReadInputKeeps
    <3>4. CASE WriteOutput(p)
      BY <2>3, <3>1, <3>4, WriteOutputKeeps
    <3>5. CASE ExitProgram(p)
      BY <2>3, <3>1, <3>5, ExitProgramKeeps
    <3>6. QED
      BY <2>3, <3>2, <3>3, <3>4, <3>5 DEF KidStep
  <2>4. QED
    BY <1>3, <2>1, <2>2, <2>3 DEF Step
<1>4. QED
  BY <1>1, <1>2, <1>3 DEF ShellNext

-----------------------------------------------------------------------------
LEMMA ShellInvAlways == ShellSpec => []ShellInv
<1>1. ShellInit => ShellInv
  BY InitRight
<1>2. ShellInv /\ [ShellNext]_shellVars => ShellInv'
  BY ShellStepKeeps
<1>3. QED
  BY <1>1, <1>2, PTL DEF ShellSpec

LEMMA ShellOKHolds == ShellInv => ShellOK
<1> SUFFICES ASSUME ShellInv PROVE ShellOK
  OBVIOUS
<1>1. DOMAIN ends = 1 .. Cardinality(DOMAIN ends) /\ DOMAIN sh \cap DOMAIN kid = {}
  BY DEF ShellInv, Procs
<1>2. \A p \in DOMAIN sh : sh[p].step \in {"prompt", "list", "pick", "fork", "close", "claim", "wait",
                                         "stopped", "ended", "gone"}
  BY DEF ShellInv, ShellRight, Working
<1>3. \A q \in DOMAIN kid : /\ kid[q].pc \in {"setup", "read", "write", "stopped", "zombie", "gone"}
                            /\ kid[q].left \in Nat /\ kid[q].code \in {"ok", "bad"}
  BY DEF ShellInv, KidRight
<1>4. \A i \in DOMAIN buf : buf[i] \in 0 .. PipeSize
  <2>1. PICK D : D = 0 .. PipeSize
    OBVIOUS
  <2>2. buf \in Seq(D)
    BY <2>1 DEF ShellInv
  <2>3. \A i \in DOMAIN buf : buf[i] \in D
    BY <2>2
  <2>4. QED
    BY <2>1, <2>3
<1>5. QED
  BY <1>1, <1>2, <1>3, <1>4 DEF ShellOK

LEMMA ListsRunRightly == ShellInv => ListsRunAsTheyRead
<1> SUFFICES ASSUME ShellInv PROVE ListsRunAsTheyRead
  OBVIOUS
<1>1. ASSUME NEW p \in DOMAIN sh, sh[p].step \in Working, NEW i \in DOMAIN sh[p].ran
      PROVE  LET before == {j \in 1..(i - 1) : sh[p].ran[j]}
                 want == IF Cond(p)[1].op = "&&" THEN "ok" ELSE "bad" IN
             /\ \A j \in before : j < i => j \in DOMAIN sh[p].stat
             /\ sh[p].ran[i] => \A j \in before : sh[p].stat[j] = want
             /\ ~sh[p].ran[i] => \E j \in before : sh[p].stat[j] # want
  <2>1. PICK ran, stat, list, at :
          /\ ran = sh[p].ran /\ stat = sh[p].stat /\ list = Cond(p) /\ at = sh[p].i
    OBVIOUS
  <2>2. /\ ran \in Seq(BOOLEAN) /\ stat \in Seq({"ok", "bad"}) /\ at \in Nat \ {0}
        /\ Len(stat) = at - 1 /\ (Len(ran) = at - 1 \/ Len(ran) = at) /\ Read(list, ran, stat)
    BY <1>1, <2>1 DEF ShellInv, ShellRight, AtWork, Cond
  <2>3. i \in 1 .. at /\ DOMAIN stat = 1 .. (at - 1)
    BY <1>1, <2>1, <2>2
  <2>4. \A j \in 1 .. (i - 1) : j \in DOMAIN stat
    BY <2>2, <2>3
  <2>5. /\ ran[i] => \A j \in 1 .. (i - 1) : stat[j] = Want(list)
        /\ ~ran[i] => \E j \in 1 .. (i - 1) : ran[j] /\ stat[j] # Want(list)
    BY <1>1, <2>1, <2>2 DEF Read
  <2>6. Want(list) = IF Cond(p)[1].op = "&&" THEN "ok" ELSE "bad"
    BY <2>1 DEF Want
  <2>7. QED
    BY <2>1, <2>4, <2>5, <2>6
<1>2. QED
  BY <1>1, ShellOKHolds DEF ListsRunAsTheyRead, Working


-----------------------------------------------------------------------------
(* The last commands of pipelines: one that is there is the one its shell  *)
(* waits for, or is about to.                                              *)
Calm == {"prompt", "list", "pick", "fork"}
LastRight(r, q, v) ==
  /\ r.step \in Calm => v.pc = "gone"
  /\ r.step \in {"close", "claim", "wait"} => v.pc = "gone" \/ (q = r.last /\ (r.step = "close" => r.wr = 0))
WriteRight(r) == r.step = "close" /\ r.k < Len(r.code[r.c][r.i].cmds) => r.wr # 0
KidsRight ==
  /\ \A q \in DOMAIN kid : kid[q].parent \in DOMAIN sh
  /\ \A p \in DOMAIN sh : WriteRight(sh[p])
  /\ \A p \in DOMAIN sh, q \in DOMAIN kid :
       kid[q].parent = p /\ kid[q].own = 0 => LastRight(sh[p], q, kid[q])

\* What a step leaves of a command.
SameKid(v, w) == w.parent = v.parent /\ w.own = v.own /\ (v.pc = "gone" => w.pc = "gone")
Settles(r, s) == s = r \/ s.step \in {"ended", "gone", "stopped"} \/ (r.step \in Calm /\ s.step \in Calm)

LEMMA KidsStay ==
  ASSUME KidsRight, DOMAIN sh' = DOMAIN sh, DOMAIN kid' = DOMAIN kid,
         \A q \in DOMAIN kid : SameKid(kid[q], kid'[q]),
         \A p \in DOMAIN sh : Settles(sh[p], sh'[p])
  PROVE  KidsRight'
<1>1. \A q \in DOMAIN kid' : kid'[q].parent \in DOMAIN sh'
  BY DEF KidsRight, SameKid
<1>2. ASSUME NEW p \in DOMAIN sh' PROVE WriteRight(sh'[p])
  <2>1. WriteRight(sh[p]) /\ Settles(sh[p], sh'[p])
    BY DEF KidsRight
  <2>2. QED
    BY <2>1 DEF WriteRight, Settles, Calm
<1>3. ASSUME NEW p \in DOMAIN sh', NEW q \in DOMAIN kid', kid'[q].parent = p, kid'[q].own = 0
      PROVE  LastRight(sh'[p], q, kid'[q])
  <2>1. LastRight(sh[p], q, kid[q])
    BY <1>3 DEF KidsRight, SameKid
  <2>2. SameKid(kid[q], kid'[q]) /\ Settles(sh[p], sh'[p])
    OBVIOUS
  <2>3. QED
    BY <2>1, <2>2 DEF LastRight, SameKid, Settles, Calm
<1>4. QED
  BY <1>1, <1>2, <1>3 DEF KidsRight

\* One shell goes on with its pipeline.
LEMMA KidsOne ==
  ASSUME KidsRight, sh = [t \in DOMAIN sh |-> sh[t]], NEW p \in DOMAIN sh, NEW r, Go(p, r), DOMAIN kid' = DOMAIN kid,
         \A q \in DOMAIN kid : SameKid(kid[q], kid'[q]), WriteRight(r),
         \A q \in DOMAIN kid : kid[q].parent = p /\ kid[q].own = 0 => LastRight(r, q, kid'[q])
  PROVE  KidsRight'
<1>1. DOMAIN sh' = DOMAIN sh /\ sh'[p] = r /\ \A t \in DOMAIN sh : t # p => sh'[t] = sh[t]
  BY DEF Go
<1>2. \A q \in DOMAIN kid' : kid'[q].parent \in DOMAIN sh'
  BY <1>1 DEF KidsRight, SameKid
<1>3. \A t \in DOMAIN sh' : WriteRight(sh'[t])
  BY <1>1 DEF KidsRight
<1>4. ASSUME NEW t \in DOMAIN sh', NEW q \in DOMAIN kid', kid'[q].parent = t, kid'[q].own = 0
      PROVE  LastRight(sh'[t], q, kid'[q])
  <2>1. kid[q].parent = t /\ kid[q].own = 0
    BY <1>4 DEF SameKid
  <2>2. CASE t = p
    BY <1>1, <2>1, <2>2
  <2>3. CASE t # p
    <3>1. LastRight(sh[t], q, kid[q]) /\ sh'[t] = sh[t]
      BY <1>1, <2>1, <2>3 DEF KidsRight
    <3>2. SameKid(kid[q], kid'[q])
      OBVIOUS
    <3>3. QED
      BY <3>1, <3>2 DEF LastRight, SameKid
  <2>4. QED
    BY <2>2, <2>3
<1>5. QED
  BY <1>2, <1>3, <1>4 DEF KidsRight

\* A step of one command.
LEMMA KidMoves ==
  ASSUME ShellInv, KidsRight, NEW q \in DOMAIN kid, NEW v, kid' = [kid EXCEPT ![q] = v], UNCHANGED sh,
         SameKid(kid[q], v)
  PROVE  KidsRight'
<1>1. DOMAIN kid' = DOMAIN kid /\ kid'[q] = v /\ \A t \in DOMAIN kid : t # q => kid'[t] = kid[t]
  BY DEF ShellInv, Procs
<1>2. \A t \in DOMAIN kid : SameKid(kid[t], kid'[t])
  BY <1>1 DEF SameKid
<1>3. \A p \in DOMAIN sh : Settles(sh[p], sh'[p])
  BY DEF Settles
<1>4. QED
  BY <1>1, <1>2, <1>3, KidsStay


LEMMA BufRight == ShellInv => Len(buf) \in Nat
BY DEF ShellInv

LEMMA KidStepStays ==
  ASSUME ShellInv, KidsRight, NEW q \in DOMAIN kid, KidStep(q)
  PROVE  KidsRight'
<1>1. PICK v : v = kid[q] /\ KidFields(v)
  BY DEF ShellInv, KidRight
<1>2. UNCHANGED sh /\ kid = [t \in DOMAIN kid |-> kid[t]]
  BY DEF KidStep, ShellInv, Procs
<1>3. ASSUME NEW code, Ended(q, code)
      PROVE  KidsRight'
  <2>1. PICK w : w = [v EXCEPT !.pc = "zombie", !.code = code]
    OBVIOUS
  <2>2. kid' = [kid EXCEPT ![q] = w]
    BY <1>1, <1>2, <1>3, <2>1 DEF Ended, KidFields
  <2>3. w.parent = v.parent /\ w.own = v.own
    BY <1>1, <2>1 DEF KidFields
  <2>4. CASE v.pc # "gone"
    <3>1. SameKid(v, w)
      BY <2>3, <2>4 DEF SameKid
    <3>2. QED
      BY <1>1, <1>2, <2>2, <3>1, KidMoves
  <2>5. v.pc # "gone"
    BY <1>1 DEF KidStep, Setup, ReadInput, WriteOutput, ExitProgram
  <2>6. QED
    BY <2>4, <2>5
<1>4. CASE Setup(q)
  <2>1. CASE \E code : Ended(q, code)
    BY <1>3, <2>1
  <2>2. CASE ~ \E code : Ended(q, code)
    <3>1. kid' = [kid EXCEPT ![q] = [kid[q] EXCEPT
                        !.pc = IF Program(q).reads = "none" THEN "write" ELSE "read",
                        !.left = Program(q).writes,
                        !.in = IF kid[q].cmd.in # {} THEN 0 ELSE @, !.out = IF kid[q].cmd.out # {} THEN 0 ELSE @, !.execed = TRUE]]
      BY <1>4, <2>2, Zenon DEF Setup
    <3>2. PICK w : w = [v EXCEPT !.pc = IF Program(q).reads = "none" THEN "write" ELSE "read",
                                 !.left = Program(q).writes,
                                 !.in = IF v.cmd.in # {} THEN 0 ELSE @,
                                 !.out = IF v.cmd.out # {} THEN 0 ELSE @,
                                 !.execed = TRUE]
      OBVIOUS
    <3>3. kid' = [kid EXCEPT ![q] = w]
      BY <1>1, <1>2, <3>1, <3>2 DEF KidFields
    <3>4. w.parent = v.parent /\ w.own = v.own /\ v.pc = "setup"
      BY <1>1, <1>4, <3>2 DEF KidFields, Setup
    <3>5. SameKid(v, w)
      BY <3>4 DEF SameKid
    <3>6. QED
      BY <1>1, <1>2, <3>3, <3>5, KidMoves
  <2>3. QED
    BY <2>1, <2>2
<1>5. CASE ReadInput(q)
  <2>1. PICK pc : kid' = [kid EXCEPT ![q].pc = pc] \/ kid' = [kid EXCEPT ![q].pc = @]
    BY <1>5 DEF ReadInput
  <2>2. v.pc = "read"
    BY <1>1, <1>5 DEF ReadInput
  <2>3. PICK w : w = [v EXCEPT !.pc = pc] \/ w = v
    OBVIOUS
  <2>4. PICK u : kid' = [kid EXCEPT ![q] = u] /\ (u = [v EXCEPT !.pc = pc] \/ u = v)
    BY <1>1, <1>2, <2>1 DEF KidFields
  <2>5. SameKid(v, u)
    BY <1>1, <2>2, <2>4 DEF SameKid, KidFields
  <2>6. QED
    BY <1>1, <1>2, <2>4, <2>5, KidMoves
<1>6. CASE WriteOutput(q)
  <2>1. CASE \E code : Ended(q, code)
    BY <1>3, <2>1
  <2>2. CASE ~ \E code : Ended(q, code)
    <3>1. PICK w : w = [v EXCEPT !.left = @ - 1]
      OBVIOUS
    <3>2. kid' = [kid EXCEPT ![q] = w]
      BY <1>1, <1>2, <1>6, <2>2, <3>1 DEF WriteOutput
    <3>3. SameKid(v, w)
      BY <1>1, <3>1 DEF SameKid, KidFields
    <3>4. QED
      BY <1>1, <1>2, <3>2, <3>3, KidMoves
  <2>3. QED
    BY <2>1, <2>2
<1>7. CASE ExitProgram(q)
  BY <1>3, <1>7 DEF ExitProgram
<1>8. QED
  BY <1>4, <1>5, <1>6, <1>7 DEF KidStep

LEMMA CloseEndsStays ==
  ASSUME ShellInv, KidsRight, NEW p \in DOMAIN sh, CloseEnds(p)
  PROVE  KidsRight'
<1>1. PICK s : s = sh[p] /\ Fields(s) /\ s.step = "close" /\ (s.last # 0 => s.last \in DOMAIN kid)
  BY DEF ShellInv, ShellRight, CloseEnds
<1>2. PICK cmds : cmds = Pipeline(p) /\ cmds = s.code[s.c][s.i].cmds
  BY <1>1 DEF Pipeline, Cond
<1>3. PICK pgid : pgid = IF s.k = 1 /\ ~s.quiet THEN s.last ELSE s.pgid
  OBVIOUS
<1>4. PICK moves : Go(p, [s EXCEPT !.pgid = pgid, !.k = @ + 1, !.rd = s.wr, !.group = IF moves THEN pgid ELSE @,
                                   !.step = IF s.k < Len(cmds) THEN "fork" ELSE "claim"])
  BY <1>1, <1>2, <1>3, Zenon DEF CloseEnds
<1>5. PICK group, step :
        group = (IF moves THEN pgid ELSE s.group) /\ step = (IF s.k < Len(cmds) THEN "fork" ELSE "claim")
  OBVIOUS
<1>6. PICK r : r = [s EXCEPT !.pgid = pgid, !.k = s.k + 1, !.rd = s.wr, !.group = group, !.step = step]
  OBVIOUS
<1>7. Go(p, r)
  BY <1>1, <1>4, <1>5, <1>6 DEF Fields
<1>8. r.step = step /\ r.last = s.last
  BY <1>1, <1>6 DEF Fields
<1>9. kid' = IF Moves(p, pgid) THEN [kid EXCEPT ![s.last].group = pgid] ELSE kid
  BY <1>1, <1>3, Zenon DEF CloseEnds
<1>10. sh = [t \in DOMAIN sh |-> sh[t]] /\ kid = [q \in DOMAIN kid |-> kid[q]] /\ \A q \in DOMAIN kid : KidFields(kid[q])
  BY DEF ShellInv, Procs, KidRight
<1>11. DOMAIN kid' = DOMAIN kid /\ \A q \in DOMAIN kid : SameKid(kid[q], kid'[q]) /\ kid'[q].pc = kid[q].pc
  <2>1. CASE Moves(p, pgid)
    <3>1. PICK l, v : l = s.last /\ l \in DOMAIN kid /\ v = [kid[l] EXCEPT !.group = pgid] /\ kid' = [kid EXCEPT ![l] = v]
      BY <1>1, <1>9, <2>1 DEF Moves
    <3>2. SameKid(kid[l], v) /\ v.pc = kid[l].pc
      BY <1>10, <3>1 DEF KidFields, SameKid
    <3>3. DOMAIN kid' = DOMAIN kid /\ kid'[l] = v /\ \A q \in DOMAIN kid : q # l => kid'[q] = kid[q]
      BY <1>10, <3>1
    <3>4. QED
      BY <3>2, <3>3 DEF SameKid
  <2>2. CASE ~Moves(p, pgid)
    BY <1>9, <2>2 DEF SameKid
  <2>3. QED
    BY <2>1, <2>2
<1>12. WriteRight(r)
  BY <1>5, <1>8 DEF WriteRight
<1>13. ASSUME NEW q \in DOMAIN kid, kid[q].parent = p, kid[q].own = 0
       PROVE  LastRight(r, q, kid'[q])
  <2>1. LastRight(s, q, kid[q]) /\ WriteRight(s)
    BY <1>1, <1>13 DEF KidsRight
  <2>2. kid[q].pc = "gone" \/ (q = s.last /\ ~(s.k < Len(cmds)))
    BY <1>1, <1>2, <2>1 DEF LastRight, WriteRight
  <2>3. QED
    BY <1>5, <1>8, <1>11, <2>2 DEF LastRight, Calm
<1>14. QED
  BY <1>7, <1>10, <1>11, <1>12, <1>13, KidsOne

LEMMA ClaimStays ==
  ASSUME ShellInv, KidsRight, NEW p \in DOMAIN sh, Claim(p)
  PROVE  KidsRight'
<1>1. PICK s, r : s = sh[p] /\ Fields(s) /\ s.step = "claim" /\ r = [s EXCEPT !.step = "wait"]
  BY DEF ShellInv, ShellRight, Claim
<1>2. Go(p, r) /\ kid' = kid /\ sh = [t \in DOMAIN sh |-> sh[t]]
  BY <1>1 DEF Claim, ShellInv, Procs
<1>3. r.step = "wait" /\ r.last = s.last
  BY <1>1 DEF Fields
<1>4. WriteRight(r) /\ \A q \in DOMAIN kid : SameKid(kid[q], kid'[q])
  BY <1>2, <1>3 DEF WriteRight, SameKid
<1>5. ASSUME NEW q \in DOMAIN kid, kid[q].parent = p, kid[q].own = 0
      PROVE  LastRight(r, q, kid'[q])
  <2>1. LastRight(s, q, kid[q])
    BY <1>1, <1>5 DEF KidsRight
  <2>2. QED
    BY <1>1, <1>2, <1>3, <2>1 DEF LastRight, Calm
<1>6. QED
  BY <1>2, <1>4, <1>5, KidsOne

LEMMA WaitStays ==
  ASSUME ShellInv, KidsRight, NEW p \in DOMAIN sh, Wait(p)
  PROVE  KidsRight'
<1>1. PICK s : s = sh[p] /\ Fields(s) /\ s.step = "wait" /\ (s.last # 0 => s.last \in DOMAIN kid)
  BY DEF ShellInv, ShellRight, Wait
<1>2. PICK stat, i, r : Go(p, r) /\ r = [s EXCEPT !.stat = stat, !.i = i, !.step = "pick"]
  BY <1>1 DEF Wait
<1>3. kid' = (IF s.last = 0 THEN kid ELSE [kid EXCEPT ![s.last].pc = "gone"])
  BY <1>1, Zenon DEF Wait
<1>4. /\ sh = [t \in DOMAIN sh |-> sh[t]] /\ kid = [q \in DOMAIN kid |-> kid[q]] /\ (\A q \in DOMAIN kid : KidFields(kid[q]))
      /\ 0 \notin DOMAIN kid
  BY DEF ShellInv, Procs, KidRight
<1>5. r.step = "pick"
  BY <1>1, <1>2 DEF Fields
<1>6. /\ DOMAIN kid' = DOMAIN kid /\ \A q \in DOMAIN kid : SameKid(kid[q], kid'[q])
      /\ s.last # 0 => kid'[s.last].pc = "gone"
  <2>1. CASE s.last # 0
    <3>1. PICK l, v : l = s.last /\ l \in DOMAIN kid /\ v = [kid[l] EXCEPT !.pc = "gone"] /\ kid' = [kid EXCEPT ![l] = v]
      BY <1>1, <1>3, <2>1
    <3>2. SameKid(kid[l], v) /\ v.pc = "gone"
      BY <1>4, <3>1 DEF KidFields, SameKid
    <3>3. DOMAIN kid' = DOMAIN kid /\ kid'[l] = v /\ \A q \in DOMAIN kid : q # l => kid'[q] = kid[q]
      BY <1>4, <3>1
    <3>4. QED
      BY <3>1, <3>2, <3>3 DEF SameKid
  <2>2. CASE s.last = 0
    BY <1>3, <2>2 DEF SameKid
  <2>3. QED
    BY <2>1, <2>2
<1>7. WriteRight(r)
  BY <1>5 DEF WriteRight
<1>8. ASSUME NEW q \in DOMAIN kid, kid[q].parent = p, kid[q].own = 0
      PROVE  LastRight(r, q, kid'[q])
  <2>1. LastRight(s, q, kid[q])
    BY <1>1, <1>8 DEF KidsRight
  <2>2. kid'[q].pc = "gone"
    BY <1>1, <1>4, <1>6, <2>1 DEF LastRight, SameKid
  <2>3. QED
    BY <1>5, <2>2 DEF LastRight, Calm
<1>9. QED
  BY <1>2, <1>4, <1>6, <1>7, <1>8, KidsOne


LEMMA NoForkStays ==
  ASSUME ShellInv, KidsRight, NEW p \in DOMAIN sh, NoFork(p)
  PROVE  KidsRight'
<1>1. PICK s : s = sh[p] /\ Fields(s) /\ s.step = "fork"
  BY DEF ShellInv, ShellRight, NoFork
<1>2. PICK out : out = (IF s.k < Len(Pipeline(p)) THEN Len(buf) + 1 ELSE 0)
  OBVIOUS
<1>3. PICK r : r = [s EXCEPT !.last = 0, !.wr = out, !.step = "close"]
  OBVIOUS
<1>4. Go(p, r) /\ kid' = kid /\ sh = [t \in DOMAIN sh |-> sh[t]]
  BY <1>1, <1>2, <1>3, Zenon DEF NoFork, ShellInv, Procs
<1>5. r.step = "close" /\ r.last = 0 /\ r.wr = out /\ r.k = s.k /\ r.code = s.code /\ r.c = s.c /\ r.i = s.i
  BY <1>1, <1>3 DEF Fields
<1>6. WriteRight(r) /\ \A q \in DOMAIN kid : SameKid(kid[q], kid'[q])
  <2>1. Len(buf) + 1 # 0
    BY BufRight
  <2>2. Pipeline(p) = r.code[r.c][r.i].cmds
    BY <1>1, <1>5 DEF Pipeline, Cond
  <2>3. QED
    BY <1>2, <1>4, <1>5, <2>1, <2>2 DEF WriteRight, SameKid
<1>7. ASSUME NEW q \in DOMAIN kid, kid[q].parent = p, kid[q].own = 0
      PROVE  LastRight(r, q, kid'[q])
  <2>1. LastRight(s, q, kid[q])
    BY <1>1, <1>7 DEF KidsRight
  <2>2. QED
    BY <1>1, <1>4, <1>5, <2>1 DEF LastRight, Calm
<1>8. QED
  BY <1>4, <1>6, <1>7, KidsOne

LEMMA RunCommandStays ==
  ASSUME ShellInv, KidsRight, NEW p \in DOMAIN sh, RunCommand(p)
  PROVE  KidsRight'
<1>1. PICK s : s = sh[p] /\ Fields(s) /\ s.step = "fork"
  BY DEF ShellInv, ShellRight, RunCommand
<1>2. PICK cmd, out, n :
        cmd = Pipeline(p)[s.k] /\ out = (IF s.k < Len(Pipeline(p)) THEN Len(buf) + 1 ELSE 0) /\ n = NextPid
  OBVIOUS
<1>3. PICK last, r : last = (IF Kind(cmd) = "process" THEN n ELSE 0) /\ r = [s EXCEPT !.last = last, !.wr = out, !.step = "close"]
  OBVIOUS
<1>4. /\ r.step = "close" /\ r.last = last /\ r.wr = out /\ r.k = s.k /\ r.code = s.code /\ r.c = s.c /\ r.i = s.i
  BY <1>1, <1>3 DEF Fields
<1>5. WriteRight(r)
  <2>1. Len(buf) + 1 # 0
    BY BufRight
  <2>2. Pipeline(p) = r.code[r.c][r.i].cmds
    BY <1>1, <1>4 DEF Pipeline, Cond
  <2>3. QED
    BY <1>2, <1>4, <2>1, <2>2 DEF WriteRight
<1>6. ASSUME NEW q \in DOMAIN kid, kid[q].parent = p, kid[q].own = 0
      PROVE  kid[q].pc = "gone"
  BY <1>1, <1>6 DEF KidsRight, LastRight, Calm
<1>7. CASE Kind(cmd) # "process"
  <2>1. Go(p, r) /\ kid' = kid /\ sh = [t \in DOMAIN sh |-> sh[t]]
    <3>1. Go(p, [s EXCEPT !.last = 0, !.wr = out, !.step = "close"]) /\ kid' = kid
      BY <1>1, <1>2, <1>7, Zenon DEF RunCommand
    <3>2. QED
      BY <1>3, <1>7, <3>1 DEF ShellInv, Procs
  <2>2. \A q \in DOMAIN kid : SameKid(kid[q], kid'[q])
    BY <2>1 DEF SameKid
  <2>3. ASSUME NEW q \in DOMAIN kid, kid[q].parent = p, kid[q].own = 0
        PROVE  LastRight(r, q, kid'[q])
    BY <1>4, <1>6, <2>1, <2>3 DEF LastRight, Calm
  <2>4. QED
    BY <1>5, <2>1, <2>2, <2>3, KidsOne
<1>8. CASE Kind(cmd) = "process"
  <2>1. PICK cd : kid' = And(n, kid, Kid(p, cmd, s.rd, out, cd))
    BY <1>1, <1>2, <1>8, Zenon DEF RunCommand
  <2>2. PICK new : new = Kid(p, cmd, s.rd, out, cd) /\ kid' = And(n, kid, new)
    BY <2>1
  <2>3. new.parent = p /\ new.own = out
    BY <2>2 DEF Kid
  <2>4. n \notin DOMAIN ends
    BY <1>2, NewProcess
  <2>5. n \notin DOMAIN kid
    BY <2>4 DEF ShellInv, Procs
  <2>6. DOMAIN kid' = DOMAIN kid \cup {n} /\ kid'[n] = new /\ \A q \in DOMAIN kid : kid'[q] = kid[q]
    BY <2>2, <2>5 DEF And
  <2>7. Go(p, r)
    <3>1. Go(p, [s EXCEPT !.last = n, !.wr = out, !.step = "close"])
      BY <1>1, <1>2, <1>8, Zenon DEF RunCommand
    <3>2. QED
      BY <1>3, <1>8, <3>1
  <2>8. DOMAIN sh' = DOMAIN sh /\ sh'[p] = r /\ \A t \in DOMAIN sh : t # p => sh'[t] = sh[t]
    BY <2>7 DEF Go, ShellInv, Procs
  <2>9. \A q \in DOMAIN kid' : kid'[q].parent \in DOMAIN sh'
    BY <2>3, <2>6, <2>8 DEF KidsRight
  <2>10. \A t \in DOMAIN sh' : WriteRight(sh'[t])
    BY <1>5, <2>8 DEF KidsRight
  <2>11. ASSUME NEW t \in DOMAIN sh', NEW q \in DOMAIN kid', kid'[q].parent = t, kid'[q].own = 0
         PROVE  LastRight(sh'[t], q, kid'[q])
    <3>1. CASE q = n
      <4>1. t = p /\ out = 0
        BY <2>3, <2>6, <2>11, <3>1
      <4>2. QED
        BY <1>3, <1>4, <1>8, <2>8, <3>1, <4>1 DEF LastRight, Calm
    <3>2. CASE q # n
      <4>1. q \in DOMAIN kid /\ kid'[q] = kid[q] /\ kid[q].parent = t /\ kid[q].own = 0
        BY <2>6, <2>11, <3>2
      <4>2. CASE t = p
        BY <1>4, <1>6, <2>8, <4>1, <4>2 DEF LastRight, Calm
      <4>3. CASE t # p
        BY <2>8, <4>1, <4>3 DEF KidsRight
      <4>4. QED
        BY <4>2, <4>3
    <3>3. QED
      BY <3>1, <3>2
  <2>12. QED
    BY <2>9, <2>10, <2>11 DEF KidsRight
<1>9. QED
  BY <1>7, <1>8


\* A shell moves, and no command does.
LEMMA ShellSettles ==
  ASSUME ShellInv, KidsRight, NEW p \in DOMAIN sh, NEW r, Go(p, r), UNCHANGED kid, Settles(sh[p], r)
  PROVE  KidsRight'
<1>1. DOMAIN sh' = DOMAIN sh /\ sh'[p] = r /\ \A t \in DOMAIN sh : t # p => sh'[t] = sh[t]
  BY DEF Go, ShellInv, Procs
<1>2. \A t \in DOMAIN sh : Settles(sh[t], sh'[t])
  BY <1>1 DEF Settles
<1>3. \A q \in DOMAIN kid : SameKid(kid[q], kid'[q])
  BY DEF SameKid
<1>4. QED
  BY <1>1, <1>2, <1>3, KidsStay

LEMMA ReadLineStays ==
  ASSUME ShellInv, KidsRight, ReadLine
  PROVE  KidsRight'
<1>1. Shell \in DOMAIN sh /\ UNCHANGED kid /\ sh[Shell].step = "prompt" /\ Fields(sh[Shell])
  BY DEF ShellInv, Procs, ReadLine, ShellRight
<1>2. PICK s : s = sh[Shell]
  OBVIOUS
<1>3. PICK r : Go(Shell, r) /\ r.step \in {"ended", "stopped", "list"}
  <2>1. CASE \E step \in {"ended", "stopped"} : Go(Shell, [s EXCEPT !.step = step])
    <3>1. PICK step \in {"ended", "stopped"} : Go(Shell, [s EXCEPT !.step = step])
      BY <2>1
    <3>2. [s EXCEPT !.step = step].step = step
      BY <1>1, <1>2 DEF Fields
    <3>3. QED
      BY <3>1, <3>2
  <2>2. CASE Go(Shell, NewShell(Parsed[todo[1]], "list", s.group))
    <3>1. NewShell(Parsed[todo[1]], "list", s.group).step = "list"
      BY DEF NewShell
    <3>2. QED
      BY <2>2, <3>1
  <2>3. QED
    BY <1>2, <2>1, <2>2 DEF ReadLine
<1>4. Settles(sh[Shell], r)
  BY <1>1, <1>3 DEF Settles, Calm
<1>5. QED
  BY <1>1, <1>3, <1>4, ShellSettles

LEMMA ConditionalStays ==
  ASSUME ShellInv, KidsRight, NEW p \in DOMAIN sh, Conditional(p)
  PROVE  KidsRight'
<1>1. PICK s : s = sh[p] /\ Fields(s) /\ s.step = "pick" /\ UNCHANGED kid
  BY DEF ShellInv, ShellRight, Conditional
<1>2. PICK r : Go(p, r) /\ r.step \in {"list", "pick", "fork"}
  <2>1. CASE Go(p, [s EXCEPT !.c = @ + 1, !.step = "list"])
    <3>1. PICK r : r = [s EXCEPT !.c = @ + 1, !.step = "list"]
      OBVIOUS
    <3>2. r.step = "list"
      BY <1>1, <3>1 DEF Fields
    <3>3. QED
      BY <2>1, <3>1, <3>2
  <2>2. CASE Go(p, [s EXCEPT !.stat = Append(@, s.stat[s.i - 1]), !.ran = Append(@, FALSE), !.i = @ + 1])
    <3>1. PICK r : r = [s EXCEPT !.stat = Append(@, s.stat[s.i - 1]), !.ran = Append(@, FALSE), !.i = @ + 1]
      OBVIOUS
    <3>2. r.step = "pick"
      BY <1>1, <3>1 DEF Fields
    <3>3. QED
      BY <2>2, <3>1, <3>2
  <2>3. CASE Go(p, [s EXCEPT !.ran = Append(@, TRUE), !.step = "fork", !.k = 1, !.last = 0, !.pgid = 0,
                             !.rd = 0, !.wr = 0, !.quiet = Background(p)])
    <3>1. PICK r : r = [s EXCEPT !.ran = Append(@, TRUE), !.step = "fork", !.k = 1, !.last = 0, !.pgid = 0,
                             !.rd = 0, !.wr = 0, !.quiet = Background(p)]
      OBVIOUS
    <3>2. r.step = "fork"
      BY <1>1, <3>1 DEF Fields
    <3>3. QED
      BY <2>3, <3>1, <3>2
  <2>4. QED
    BY <1>1, <2>1, <2>2, <2>3, Zenon DEF Conditional
<1>3. Settles(sh[p], r)
  BY <1>1, <1>2 DEF Settles, Calm
<1>4. QED
  BY <1>1, <1>2, <1>3, ShellSettles

LEMMA NoPipeStays ==
  ASSUME ShellInv, KidsRight, NEW p \in DOMAIN sh, NoPipe(p)
  PROVE  KidsRight'
<1>1. PICK s, r : s = sh[p] /\ Fields(s) /\ r = [s EXCEPT !.step = "ended"]
  BY DEF ShellInv, ShellRight
<1>2. Go(p, r) /\ UNCHANGED kid
  BY <1>1 DEF NoPipe
<1>3. Settles(sh[p], r)
  BY <1>1 DEF Settles, Fields
<1>4. QED
  BY <1>2, <1>3, ShellSettles

LEMMA SequenceStays ==
  ASSUME ShellInv, KidsRight, NEW p \in DOMAIN sh, Sequence(p)
  PROVE  KidsRight'
<1>1. PICK s : s = sh[p] /\ Fields(s) /\ s.step = "list" /\ UNCHANGED kid
  BY DEF ShellInv, ShellRight, Sequence
<1>2. ASSUME NEW r, Go(p, r), r.step \in {"list", "pick", "ended"}
      PROVE  KidsRight'
  <2>1. Settles(sh[p], r)
    BY <1>1, <1>2 DEF Settles, Calm
  <2>2. QED
    BY <1>1, <1>2, <2>1, ShellSettles
<1>3. CASE Go(p, [s EXCEPT !.step = "ended"])
  BY <1>1, <1>2, <1>3 DEF Fields
<1>4. CASE Go(p, [s EXCEPT !.c = @ + 1])
  BY <1>1, <1>2, <1>4 DEF Fields
<1>5. CASE Go(p, [s EXCEPT !.step = "pick", !.i = 1, !.stat = <<>>, !.ran = <<>>])
  BY <1>1, <1>2, <1>5 DEF Fields
<1>6. CASE sh' = And(NextPid, [sh EXCEPT ![p].c = @ + 1], NewShell(<<Cond(p)>>, "pick", s.group))
  <2>1. PICK n, moved, new : /\ n = NextPid /\ moved = [sh EXCEPT ![p].c = @ + 1]
                             /\ new = NewShell(<<Cond(p)>>, "pick", s.group) /\ sh' = And(n, moved, new)
    BY <1>6
  <2>2. n \notin DOMAIN ends
    BY <2>1, NewProcess
  <2>3. n \notin DOMAIN sh /\ sh = [t \in DOMAIN sh |-> sh[t]]
    BY <2>2 DEF ShellInv, Procs
  <2>4. PICK r : r = [s EXCEPT !.c = @ + 1]
    OBVIOUS
  <2>5. DOMAIN moved = DOMAIN sh /\ moved[p] = r /\ \A t \in DOMAIN sh : t # p => moved[t] = sh[t]
    BY <1>1, <2>1, <2>3, <2>4
  <2>6. DOMAIN sh' = DOMAIN sh \cup {n} /\ sh'[n] = new /\ \A t \in DOMAIN sh : sh'[t] = moved[t]
    BY <2>1, <2>3, <2>5 DEF And
  <2>7. r.step = "list" /\ new.step = "pick"
    BY <1>1, <2>1, <2>4 DEF Fields, NewShell
  <2>8. \A q \in DOMAIN kid' : kid'[q].parent \in DOMAIN sh'
    BY <1>1, <2>6 DEF KidsRight
  <2>9. \A t \in DOMAIN sh' : WriteRight(sh'[t])
    <3>1. WriteRight(r) /\ WriteRight(new)
      BY <2>7 DEF WriteRight
    <3>2. \A t \in DOMAIN sh : WriteRight(sh[t])
      BY DEF KidsRight
    <3>3. QED
      BY <2>5, <2>6, <3>1, <3>2
  <2>10. ASSUME NEW t \in DOMAIN sh', NEW q \in DOMAIN kid', kid'[q].parent = t, kid'[q].own = 0
         PROVE  LastRight(sh'[t], q, kid'[q])
    <3>1. kid'[q] = kid[q] /\ q \in DOMAIN kid
      BY <1>1
    <3>2. t \in DOMAIN sh
      BY <2>10, <3>1 DEF KidsRight
    <3>3. LastRight(sh[t], q, kid[q])
      BY <2>10, <3>1, <3>2 DEF KidsRight
    <3>4. CASE t = p
      BY <1>1, <2>5, <2>6, <2>7, <3>1, <3>3, <3>4 DEF LastRight, Calm
    <3>5. CASE t # p
      BY <2>5, <2>6, <3>1, <3>2, <3>3, <3>5
    <3>6. QED
      BY <3>4, <3>5
  <2>11. QED
    BY <2>8, <2>9, <2>10 DEF KidsRight
<1>7. QED
  BY <1>1, <1>3, <1>4, <1>5, <1>6, Zenon DEF Sequence

LEMMA RunListStays ==
  ASSUME ShellInv, KidsRight, RunList
  PROVE  KidsRight'
<1>1. Shell \in DOMAIN sh /\ (\A p \in DOMAIN sh : Fields(sh[p])) /\ \A q \in DOMAIN kid : KidFields(kid[q])
  BY DEF ShellInv, Procs, ShellRight, KidRight
<1>2. PICK H : /\ sh' = [q \in DOMAIN sh |-> IF q = Shell THEN [sh[q] EXCEPT !.step = "prompt"]
                                            ELSE IF q \in H THEN [sh[q] EXCEPT !.step = "gone"] ELSE sh[q]]
               /\ kid' = [q \in DOMAIN kid |-> IF q \in H THEN [kid[q] EXCEPT !.pc = "gone"] ELSE kid[q]]
  BY Zenon DEF RunList
<1>3. DOMAIN sh' = DOMAIN sh /\ DOMAIN kid' = DOMAIN kid /\ sh[Shell].step = "list"
  BY <1>2 DEF RunList
<1>4. ASSUME NEW p \in DOMAIN sh PROVE Settles(sh[p], sh'[p])
  <2>1. CASE p = Shell
    <3>1. sh'[p].step = "prompt"
      BY <1>1, <1>2, <2>1 DEF Fields
    <3>2. QED
      BY <1>3, <2>1, <3>1 DEF Settles, Calm
  <2>2. CASE p # Shell /\ p \in H
    <3>1. sh'[p].step = "gone"
      BY <1>1, <1>2, <2>2 DEF Fields
    <3>2. QED
      BY <3>1 DEF Settles
  <2>3. CASE p # Shell /\ p \notin H
    BY <1>2, <2>3 DEF Settles
  <2>4. QED
    BY <2>1, <2>2, <2>3
<1>5. ASSUME NEW q \in DOMAIN kid PROVE SameKid(kid[q], kid'[q])
  <2>1. CASE q \in H
    BY <1>1, <1>2, <2>1 DEF KidFields, SameKid
  <2>2. CASE q \notin H
    BY <1>2, <2>2 DEF SameKid
  <2>3. QED
    BY <2>1, <2>2
<1>6. QED
  BY <1>3, <1>4, <1>5, KidsStay

LEMMA InterruptStays ==
  ASSUME ShellInv, KidsRight, Interrupt
  PROVE  KidsRight'
<1>1. (\A p \in DOMAIN sh : Fields(sh[p])) /\ (\A q \in DOMAIN kid : KidFields(kid[q])) /\ DOMAIN sh \cap DOMAIN kid = {}
  BY DEF ShellInv, Procs, ShellRight, KidRight
<1>2. PICK H :
        /\ sh' = [q \in DOMAIN sh |-> IF q \in H THEN [sh[q] EXCEPT !.step = "ended"] ELSE sh[q]]
        /\ kid' = [q \in DOMAIN kid |-> IF q \in H THEN [kid[q] EXCEPT !.pc = "zombie", !.code = "bad"] ELSE kid[q]]
        /\ \A q \in DOMAIN kid : q \in H => kid[q].pc # "gone"
  <2>1. PICK H : H = {q \in DOMAIN sh \cup DOMAIN kid :
                        \/ Alive(q) /\ kid[q].group = fg /\ kid[q].pc # "stopped"
                        \/ q \in DOMAIN sh /\ sh[q].group = fg /\ sh[q].step \notin {"ended", "gone", "stopped"}}
    OBVIOUS
  <2>2. \A q \in DOMAIN sh \cup DOMAIN kid :
          q \in H <=> \/ Alive(q) /\ kid[q].group = fg /\ kid[q].pc # "stopped"
                      \/ q \in DOMAIN sh /\ sh[q].group = fg /\ sh[q].step \notin {"ended", "gone", "stopped"}
    BY <2>1
  <2>3. \A q \in DOMAIN kid : q \in H => kid[q].pc # "gone"
    BY <1>1, <2>2 DEF Alive
  <2>4. QED
    BY <2>2, <2>3 DEF Interrupt
<1>3. DOMAIN sh' = DOMAIN sh /\ DOMAIN kid' = DOMAIN kid
  BY <1>2
<1>4. ASSUME NEW p \in DOMAIN sh PROVE Settles(sh[p], sh'[p])
  <2>1. CASE p \in H
    <3>1. PICK r, h : r = sh[p] /\ Fields(r) /\ h = [r EXCEPT !.step = "ended"]
      BY <1>1
    <3>2. h.step = "ended" /\ sh'[p] = h
      BY <1>2, <2>1, <3>1 DEF Fields
    <3>3. QED
      BY <3>2 DEF Settles
  <2>2. CASE p \notin H
    BY <1>2, <2>2 DEF Settles
  <2>3. QED
    BY <2>1, <2>2
<1>5. ASSUME NEW q \in DOMAIN kid PROVE SameKid(kid[q], kid'[q])
  <2>1. CASE q \in H
    <3>1. PICK v, w : v = kid[q] /\ KidFields(v) /\ w = [v EXCEPT !.pc = "zombie", !.code = "bad"]
      BY <1>1
    <3>2. w.parent = v.parent /\ w.own = v.own /\ v.pc # "gone" /\ kid'[q] = w
      BY <1>2, <2>1, <3>1 DEF KidFields
    <3>3. QED
      BY <3>1, <3>2 DEF SameKid
  <2>2. CASE q \notin H
    BY <1>2, <2>2 DEF SameKid
  <2>3. QED
    BY <2>1, <2>2
<1>6. QED
  BY <1>3, <1>4, <1>5, KidsStay


LEMMA KidsStepKeeps == ShellInv /\ KidsRight /\ [ShellNext]_shellVars => KidsRight'
<1> SUFFICES ASSUME ShellInv, KidsRight, [ShellNext]_shellVars PROVE KidsRight'
  OBVIOUS
<1>1. CASE UNCHANGED shellVars
  BY <1>1 DEF shellVars, KidsRight
<1>2. CASE Interrupt
  BY <1>2, InterruptStays
<1>3. ASSUME NEW p \in DOMAIN ends, Step(p) PROVE KidsRight'
  <2>1. CASE ReadLine \/ RunList
    BY <2>1, ReadLineStays, RunListStays
  <2>2. CASE p \in DOMAIN sh /\ ShellStep(p)
    <3>1. CASE Sequence(p) \/ Conditional(p)
      BY <2>2, <3>1, SequenceStays, ConditionalStays
    <3>2. CASE RunCommand(p) \/ NoFork(p) \/ NoPipe(p)
      BY <2>2, <3>2, RunCommandStays, NoForkStays, NoPipeStays
    <3>3. CASE CloseEnds(p) \/ Claim(p) \/ Wait(p)
      BY <2>2, <3>3, CloseEndsStays, ClaimStays, WaitStays
    <3>4. QED
      BY <2>2, <3>1, <3>2, <3>3 DEF ShellStep
  <2>3. CASE p \in DOMAIN kid /\ KidStep(p)
    BY <2>3, KidStepStays
  <2>4. QED
    BY <1>3, <2>1, <2>2, <2>3 DEF Step
<1>4. QED
  BY <1>1, <1>2, <1>3 DEF ShellNext

LEMMA KidsRightAlways == ShellSpec => []KidsRight
<1>1. ShellInit => KidsRight
  <2> SUFFICES ASSUME ShellInit PROVE KidsRight
    OBVIOUS
  <2>1. DOMAIN kid = {} /\ DOMAIN sh = {Shell} /\ sh[Shell] = NewShell(<<>>, "prompt", Shell)
    BY DEF ShellInit
  <2>2. NewShell(<<>>, "prompt", Shell).step = "prompt"
    BY DEF NewShell
  <2>3. QED
    BY <2>1, <2>2 DEF KidsRight, WriteRight
<1>2. QED
  BY <1>1, ShellInvAlways, KidsStepKeeps, PTL DEF ShellSpec

LEMMA PromptsOK == ShellInv /\ KidsRight => PromptOK
<1> SUFFICES ASSUME ShellInv, KidsRight PROVE PromptOK
  OBVIOUS
<1>1. Shell \in DOMAIN sh
  BY DEF ShellInv, Procs
<1>2. \A p \in DOMAIN sh : sh[p].step \in {"prompt", "list", "pick", "wait"} => ends[p] = {}
  BY DEF ShellInv, EndsRight
<1>3. sh[Shell].step = "prompt" => (sh[Shell].group = Shell => fg = Shell)
  BY DEF ShellInv, FgRight
<1>4. \A q \in DOMAIN kid : ends[q] \subseteq {<<kid[q].in, "r">>, <<kid[q].out, "w">>, <<kid[q].own, "r">>}
  BY DEF ShellInv, KidEnds
<1>5. \A p \in DOMAIN sh, q \in DOMAIN kid :
        sh[p].step \in {"prompt", "pick", "list"} /\ kid[q].parent = p /\ kid[q].own = 0 => kid[q].pc = "gone"
  BY DEF KidsRight, LastRight, Calm
<1>6. QED
  BY <1>1, <1>2, <1>3, <1>4, <1>5 DEF PromptOK

\* Only the end of run_list brings the prompt, and by then every dead child is reaped.
LEMMA NothingIsDead == ShellInv /\ [ShellNext]_shellVars => [NothingDead]_shellVars
<1> SUFFICES ASSUME ShellInv, ShellNext PROVE NothingDead
  BY DEF NothingDead
<1>1. Shell \in DOMAIN sh /\ sh = [t \in DOMAIN sh |-> sh[t]] /\ \A t \in DOMAIN sh : Fields(sh[t])
  BY DEF ShellInv, Procs, ShellRight
<1>2. ASSUME NEW p \in DOMAIN sh, NEW r, Go(p, r), r.step # "prompt"
      PROVE  NothingDead
  <2>1. sh'[p] = r /\ \A t \in DOMAIN sh : t # p => sh'[t] = sh[t]
    BY <1>1, <1>2 DEF Go
  <2>2. QED
    BY <1>1, <1>2, <2>1 DEF NothingDead
<1>3. ASSUME UNCHANGED sh \/ ReadLine
      PROVE  NothingDead
  BY <1>3 DEF ReadLine, NothingDead
<1>4. CASE Interrupt
  <2>1. PICK H : sh' = [q \in DOMAIN sh |-> IF q \in H THEN [sh[q] EXCEPT !.step = "ended"] ELSE sh[q]]
    <3>1. PICK H : H = {q \in DOMAIN sh : \/ Alive(q) /\ kid[q].group = fg /\ kid[q].pc # "stopped"
                                          \/ q \in DOMAIN sh /\ sh[q].group = fg /\ sh[q].step \notin {"ended", "gone", "stopped"}}
      OBVIOUS
    <3>2. \A q \in DOMAIN sh : q \in H <=> \/ Alive(q) /\ kid[q].group = fg /\ kid[q].pc # "stopped"
                                           \/ q \in DOMAIN sh /\ sh[q].group = fg /\ sh[q].step \notin {"ended", "gone", "stopped"}
      BY <3>1
    <3>3. QED
      BY <1>4, <3>2 DEF Interrupt
  <2>2. PICK r, h : r = sh[Shell] /\ Fields(r) /\ h = [r EXCEPT !.step = "ended"]
    BY <1>1
  <2>3. h.step = "ended" /\ (sh'[Shell] = h \/ sh'[Shell] = r)
    BY <1>1, <2>1, <2>2 DEF Fields
  <2>4. QED
    BY <2>2, <2>3 DEF NothingDead
<1>5. CASE RunList
  <2>1. PICK dead :
          /\ dead = Dead
          /\ sh' = [q \in DOMAIN sh |-> IF q = Shell THEN [sh[q] EXCEPT !.step = "prompt"]
                                        ELSE IF q \in dead THEN [sh[q] EXCEPT !.step = "gone"] ELSE sh[q]]
          /\ kid' = [q \in DOMAIN kid |-> IF q \in dead THEN [kid[q] EXCEPT !.pc = "gone"] ELSE kid[q]]
    BY <1>5, Zenon DEF RunList
  <2>2. ASSUME NEW q \in DOMAIN kid, kid'[q].parent = Shell PROVE kid'[q].pc # "zombie"
    <3>1. PICK v, w : v = kid[q] /\ KidFields(v) /\ w = [v EXCEPT !.pc = "gone"]
      BY DEF ShellInv, KidRight
    <3>2. w.parent = v.parent /\ w.pc = "gone"
      BY <3>1 DEF KidFields
    <3>3. CASE q \in dead
      BY <2>1, <3>1, <3>2, <3>3
    <3>4. CASE q \notin dead
      <4>1. kid'[q] = v
        BY <2>1, <3>1, <3>4
      <4>2. QED
        BY <2>1, <2>2, <3>1, <3>4, <4>1 DEF Dead
    <3>5. QED
      BY <3>3, <3>4
  <2>3. ASSUME NEW q \in DOMAIN sh PROVE sh'[q].step # "ended"
    <3>1. PICK r, here, gone : /\ r = sh[q] /\ Fields(r) /\ here = [r EXCEPT !.step = "prompt"]
                               /\ gone = [r EXCEPT !.step = "gone"]
      BY <1>1
    <3>2. here.step = "prompt" /\ gone.step = "gone"
      BY <3>1 DEF Fields
    <3>3. CASE q = Shell
      BY <2>1, <3>1, <3>2, <3>3
    <3>4. CASE q # Shell /\ q \in dead
      BY <2>1, <3>1, <3>2, <3>4
    <3>5. CASE q # Shell /\ q \notin dead
      <4>1. sh'[q] = r
        BY <2>1, <3>1, <3>5
      <4>2. QED
        BY <2>1, <3>1, <3>5, <4>1 DEF Dead
    <3>6. QED
      BY <3>3, <3>4, <3>5
  <2>4. DOMAIN sh' = DOMAIN sh /\ DOMAIN kid' = DOMAIN kid
    BY <2>1
  <2>5. QED
    BY <2>2, <2>3, <2>4 DEF NothingDead
<1>6. ASSUME NEW p \in DOMAIN sh, ShellStep(p) PROVE NothingDead
  <2>1. PICK s : s = sh[p] /\ Fields(s)
    BY <1>1
  <2>2. CASE Sequence(p)
    <3>1. s.step = "list"
      BY <2>1, <2>2 DEF Sequence
    <3>2. PICK off, on, begun : /\ off = [s EXCEPT !.step = "ended"] /\ on = [s EXCEPT !.c = @ + 1]
                                /\ begun = [s EXCEPT !.step = "pick", !.i = 1, !.stat = <<>>, !.ran = <<>>]
      OBVIOUS
    <3>3. off.step = "ended" /\ on.step = "list" /\ begun.step = "pick"
      BY <2>1, <3>1, <3>2 DEF Fields
    <3>4. CASE Go(p, off) \/ Go(p, on) \/ Go(p, begun)
      BY <1>2, <3>3, <3>4
    <3>5. CASE sh' = And(NextPid, [sh EXCEPT ![p].c = @ + 1], NewShell(<<Cond(p)>>, "pick", s.group))
      <4>1. PICK n, moved, new : n = NextPid /\ moved = [sh EXCEPT ![p].c = @ + 1] /\ sh' = And(n, moved, new)
        BY <3>5
      <4>2. n # Shell
        BY <4>1, NewProcess
      <4>3. sh'[Shell] = moved[Shell] /\ moved[p] = on /\ (p # Shell => moved[Shell] = sh[Shell])
        BY <1>1, <2>1, <3>2, <4>1, <4>2 DEF And
      <4>4. QED
        BY <3>3, <4>3 DEF NothingDead
    <3>6. QED
      BY <2>1, <2>2, <3>2, <3>4, <3>5, Zenon DEF Sequence
  <2>3. CASE Conditional(p)
    <3>1. s.step = "pick"
      BY <2>1, <2>3 DEF Conditional
    <3>2. PICK done, skipped, run :
            /\ done = [s EXCEPT !.c = @ + 1, !.step = "list"]
            /\ skipped = [s EXCEPT !.stat = Append(@, s.stat[s.i - 1]), !.ran = Append(@, FALSE), !.i = @ + 1]
            /\ run = [s EXCEPT !.ran = Append(@, TRUE), !.step = "fork", !.k = 1, !.last = 0, !.pgid = 0,
                               !.rd = 0, !.wr = 0, !.quiet = Background(p)]
      OBVIOUS
    <3>3. done.step = "list" /\ skipped.step = "pick" /\ run.step = "fork"
      BY <2>1, <3>1, <3>2 DEF Fields
    <3>4. Go(p, done) \/ Go(p, skipped) \/ Go(p, run)
      BY <2>1, <2>3, <3>2, Zenon DEF Conditional
    <3>5. QED
      BY <1>2, <3>3, <3>4
  <2>4. CASE RunCommand(p) \/ NoFork(p)
    <3>1. PICK last, out : Go(p, [s EXCEPT !.last = last, !.wr = out, !.step = "close"])
      BY <2>1, <2>4, Zenon DEF RunCommand, NoFork
    <3>2. PICK r : r = [s EXCEPT !.last = last, !.wr = out, !.step = "close"]
      OBVIOUS
    <3>3. r.step = "close" /\ Go(p, r)
      BY <2>1, <3>1, <3>2 DEF Fields
    <3>4. QED
      BY <1>2, <3>3
  <2>5. CASE NoPipe(p)
    <3>1. PICK r : r = [s EXCEPT !.step = "ended"]
      OBVIOUS
    <3>2. r.step = "ended" /\ Go(p, r)
      BY <2>1, <2>5, <3>1 DEF Fields, NoPipe
    <3>3. QED
      BY <1>2, <3>2
  <2>6. CASE CloseEnds(p)
    <3>1. PICK pgid : pgid = IF s.k = 1 /\ ~s.quiet THEN s.last ELSE s.pgid
      OBVIOUS
    <3>2. PICK moves : Go(p, [s EXCEPT !.pgid = pgid, !.k = @ + 1, !.rd = s.wr, !.group = IF moves THEN pgid ELSE @,
                                       !.step = IF s.k < Len(Pipeline(p)) THEN "fork" ELSE "claim"])
      BY <2>1, <2>6, <3>1, Zenon DEF CloseEnds
    <3>3. PICK r : r = [s EXCEPT !.pgid = pgid, !.k = @ + 1, !.rd = s.wr, !.group = IF moves THEN pgid ELSE @,
                                 !.step = IF s.k < Len(Pipeline(p)) THEN "fork" ELSE "claim"]
      OBVIOUS
    <3>4. r.step \in {"fork", "claim"} /\ Go(p, r)
      BY <2>1, <3>2, <3>3 DEF Fields
    <3>5. QED
      BY <1>2, <3>4
  <2>7. CASE Claim(p)
    <3>1. PICK r : r = [s EXCEPT !.step = "wait"]
      OBVIOUS
    <3>2. r.step = "wait" /\ Go(p, r)
      BY <2>1, <2>7, <3>1 DEF Fields, Claim
    <3>3. QED
      BY <1>2, <3>2
  <2>8. CASE Wait(p)
    <3>1. PICK stat, i, r : Go(p, r) /\ r = [s EXCEPT !.stat = stat, !.i = i, !.step = "pick"]
      BY <2>1, <2>8 DEF Wait
    <3>2. r.step = "pick"
      BY <2>1, <3>1 DEF Fields
    <3>3. QED
      BY <1>2, <3>1, <3>2
  <2>9. QED
    BY <1>6, <2>2, <2>3, <2>4, <2>5, <2>6, <2>7, <2>8 DEF ShellStep
<1>7. QED
  BY <1>3, <1>4, <1>5, <1>6 DEF ShellNext, Step, KidStep

(* In a list of && a pipeline runs if and only if those before it that ran *)
(* succeeded, in one of || if and only if they failed, and it starts when  *)
(* they have ended; for any line the user types, and whatever the programs *)
(* do (command_list_conditional::run).                                     *)
THEOREM ListsRunRight == ShellSpec => []ListsRunAsTheyRead
BY ShellInvAlways, ListsRunRightly, PTL

(* A prompt is clean.  When run_list returns no child of the shell is dead *)
(* and not reaped; at the prompt, and between pipelines, the last command  *)
(* of every pipeline of the shell is reaped; at the prompt the shell has   *)
(* no pipe open and, unless it moved into a pipeline's group, the          *)
(* terminal; and a process has no end but those of the pipes of its own    *)
(* place.  So whatever is typed and whatever the programs do, though       *)
(* setpgid, tcsetpgrp, fork and pipe fail and SIGINT comes at any moment   *)
(* (run_list, command_list_pipeline::run, claim_foreground).               *)
THEOREM PromptsAreClean == ShellSpec => PromptIsClean
<1>1. ShellSpec => [](ShellInv /\ KidsRight)
  BY ShellInvAlways, KidsRightAlways, PTL
<1>2. ShellInv /\ KidsRight => PromptOK
  BY PromptsOK
<1>3. ShellInv /\ [ShellNext]_shellVars => [NothingDead]_shellVars
  BY NothingIsDead
<1>4. QED
  BY <1>1, <1>2, <1>3, PTL DEF ShellSpec, PromptIsClean
=============================================================================
