--------------------------------- MODULE File ---------------------------------
(***************************************************************************)
(* What a user of io61.cc may rely on: a pointer into the bytes of one     *)
(* file.  A read is short only at the end of the file; what was written is *)
(* in the file no later than the next flush or close.  A call that fails   *)
(* may have moved the pointer, but neither lost nor invented a byte.       *)
(***************************************************************************)
EXTENDS Integers, Sequences

CONSTANTS Byte, MaxPos

VARIABLES content,  \* the bytes of the file as its user sees it
          stored,   \* the bytes that have reached the system
          at,       \* the file pointer
          asked,    \* bytes asked for by the read in progress, or 0
          answer    \* what the last read returned, or the result of the last other call

fvars == <<content, stored, at, asked, answer>>

Error == <<-1>>
Done == <<>>
Zero == 0  \* a byte of a hole

\* s written over d from position p on
Overlay(d, p, s) ==
  [i \in 1..(IF s # <<>> /\ p + Len(s) > Len(d) THEN p + Len(s) ELSE Len(d)) |->
     IF i > p /\ i <= p + Len(s) THEN s[i - p] ELSE IF i <= Len(d) THEN d[i] ELSE Zero]

\* the n bytes of d from position p on, or as many as there are
From(d, p, n) == SubSeq(d, p + 1, IF p + n < Len(d) THEN p + n ELSE Len(d))

FileInit ==
  /\ content = stored
  /\ at = 0
  /\ asked = 0
  /\ answer = Done

Ask == asked = 0 /\ asked' \in 1..MaxPos /\ UNCHANGED <<content, stored, at, answer>>

Read ==
  /\ asked > 0
  /\ answer' = From(content, at, asked)
  /\ at' = at + Len(answer')
  /\ asked' = 0
  /\ UNCHANGED <<content, stored>>

Write(s) ==
  /\ content' = Overlay(content, at, s)
  /\ at' = at + Len(s)
  /\ UNCHANGED <<stored, asked, answer>>

Seek(p) == at' = p /\ answer' = Done /\ UNCHANGED <<content, stored, asked>>

Fail ==
  /\ answer' = Error
  /\ asked' = 0
  /\ at' \in 0..MaxPos
  /\ stored' \in {stored, content}
  /\ UNCHANGED content

\* Some bytes reach the system, when the cache likes.
WriteBack ==
  /\ \E p \in 0..Len(content), n \in 0..Len(content) : stored' = Overlay(stored, p, From(content, p, n))
  /\ UNCHANGED <<content, at, asked, answer>>

Flush == stored' = content /\ answer' = Done /\ UNCHANGED <<content, at, asked>>

FileNext ==
  \/ Ask \/ Read \/ Fail \/ WriteBack \/ Flush
  \/ \E n \in 1..MaxPos : \E s \in [1..n -> Byte] : Write(s)
  \/ \E p \in 0..MaxPos : Seek(p)

FileSpec == FileInit /\ [][FileNext]_fvars
=============================================================================
