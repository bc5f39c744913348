---------------------------- MODULE ProtocolProofs ----------------------------
(***************************************************************************)
(* Proofs about Protocol, for any clients, scripts, sizes of chunks and    *)
(* buffers: replies arrive whole, the server ends only as it is known to,  *)
(* and a file is loaded as it is.                                          *)
(* The invariant places what is under way: the units between a client and  *)
(* the server are consecutive units of its commands, whose first is the    *)
(* one the server's loop is at and whose last ends what the client sent;   *)
(* the units of a reply are what split_message made of it, but for what    *)
(* was printed.  A second one says of a transfer what is read of its file, *)
(* over lemmas on partial_load: a text is read from where the text before  *)
(* it was left, a row of a file becomes a row of the columns, and so do    *)
(* the rows one after the other, wherever the pieces were cut.             *)
(***************************************************************************)
EXTENDS Protocol, SequenceTheorems, FiniteSetTheorems, WellFoundedInduction, TLAPS

Sent(c, k) == Units(script[c][k], k)
Reply(c, k) == Split(Request(script[c][k], k))
Up(c) == toServer[c] \o outbox[c]
Down(c) == toClient[c] \o (IF c \in serving THEN replies ELSE <<>>)
Unserved(c) == cpc[c] = "start" \/ \E i \in DOMAIN backlog : backlog[i] = c

(* a place is a command and a unit of its message *)
Places(c) == {p \in Nat \X Nat : /\ p[1] \in DOMAIN script[c] /\ p[1] <= at[c]
                                 /\ script[c][p[1]].kind # "badload"
                                 /\ p[1] = at[c] \/ ~Answered(c, p[1])
                                 /\ p[2] \in 1..Len(Sent(c, p[1]))}
Following(c, p) == IF p[2] < Len(Sent(c, p[1])) THEN <<p[1], p[2] + 1>> ELSE <<p[1] + 1, 1>>
Along(c, w) ==
  /\ w \in [1..Len(Up(c)) -> Places(c)]
  /\ \A i \in 1..Len(Up(c)) : Up(c)[i] = Sent(c, w[i][1])[w[i][2]]
  /\ \A i \in 1..(Len(Up(c)) - 1) : w[i + 1] = Following(c, w[i])
(* where the server's loop is in the message of the first unit *)
Starts(c, p) ==
  /\ Unserved(c) => p = <<1, 1>>
  /\ c \in serving =>
       /\ spc \in {"header", "reply"} => p[2] = 1
       /\ spc = "payload" => p[2] = 2 /\ Answered(c, p[1])
       /\ spc = "chunk" => p[2] % 2 = 0 /\ script[c][p[1]].kind = "load"
       /\ spc = "csvheader" => p[2] % 2 = 1 /\ p[2] > 1 /\ script[c][p[1]].kind = "load"
(* what a client has sent, or is sending, is whole messages *)
Ends(c, p) ==
  /\ p[2] = Len(Sent(c, p[1]))
  /\ cpc[c] = "idle" => p[1] + 1 = at[c]
  /\ cpc[c] \in {"send", "wait"} => p[1] = at[c]
  /\ cpc[c] = "closed" /\ ~ServerGone /\ c \notin deaths => p[1] + 1 = at[c]
  /\ cpc[c] = "closed" => \/ p[1] = at[c] /\ (outbox[c] # <<>> \/ Answered(c, at[c]))
                          \/ p[1] + 1 = at[c] /\ outbox[c] = <<>>
Lies(c, w) == Along(c, w) /\ (Up(c) # <<>> => Starts(c, w[1]) /\ Ends(c, w[Len(Up(c))]))
Stream(c) == \E w \in [1..Len(Up(c)) -> Places(c)] : Lies(c, w)

(* nothing is under way to the server *)
Quiet(c) == hdr.status = "OK" \/ (cpc[c] \in {"idle", "closed"} /\ (at[c] = 1 \/ script[c][at[c] - 1].kind = "load"))
Drained(c) == Up(c) = <<>> =>
  /\ Unserved(c) => at[c] = 1 /\ cpc[c] # "wait"
  /\ c \in serving => /\ spc \notin {"payload", "chunk", "csvheader"}
                      /\ spc \in {"header", "reply"} /\ c \notin deaths => Quiet(c)

ClientFits(c) ==
  /\ cpc[c] \in {"start", "idle", "wait"} => outbox[c] = <<>>
  /\ cpc[c] = "start" => at[c] = 1 /\ toServer[c] = <<>>
  /\ cpc[c] = "send" => outbox[c] # <<>> /\ at[c] <= Len(script[c])
  /\ cpc[c] = "wait" => at[c] <= Len(script[c]) /\ Answered(c, at[c])
  /\ cpc[c] = "closed" /\ ~ServerGone /\ c \notin deaths => outbox[c] = <<>> /\ Down(c) = <<>>
  /\ c \in reset => c \in deaths \/ ServerGone

(* j pieces of the reply are printed, the others are under way *)
Upto(s, j) == IF j = 0 THEN 0 ELSE s[2 * j].note[2] + s[2 * j].note[3]
Rest(s, j) == [u \in 1..(Len(s) - 2 * j) |-> s[u + 2 * j]]
HalfWay(c, j) == Prints(c, at[c], Upto(Reply(c, at[c]), j)) /\ Down(c) = Rest(Reply(c, at[c]), j)
(* the server failed over a client: nothing more comes *)
Cut(c) == spc = "crashed" /\ c \in serving
Answering(c) ==
  /\ cpc[c] \in {"start", "idle", "send"} \/ (cpc[c] = "wait" /\ Up(c) # <<>>) => Prints(c, at[c], 0) /\ Down(c) = <<>>
  /\ cpc[c] = "wait" /\ Up(c) = <<>> /\ ~Cut(c) => \E j \in 0..(Len(Reply(c, at[c])) \div 2) : HalfWay(c, j)
  /\ cpc[c] = "wait" /\ Cut(c) => Down(c) = <<>>

SentUnits(c) == {Sent(c, k)[u] : k \in Nat, u \in Nat}
ReplyUnits(c) == {Reply(c, k)[u] : k \in Nat, u \in Nat}
Types ==
  /\ script \in Scripts
  /\ at \in [Clients -> Nat \ {0}] /\ \A c \in Clients : at[c] <= Len(script[c]) + 1
  /\ cpc \in [Clients -> {"start", "idle", "send", "wait", "closed"}]
  /\ DOMAIN outbox = Clients /\ \A c \in Clients : outbox[c] \in Seq(SentUnits(c))
  /\ DOMAIN toServer = Clients /\ \A c \in Clients : toServer[c] \in Seq(SentUnits(c))
  /\ DOMAIN toClient = Clients /\ \A c \in Clients : toClient[c] \in Seq(ReplyUnits(c))
  /\ printed \in [Clients -> Seq(Nat \X Nat \X Nat)]
  /\ backlog \in Seq(Clients)
  /\ reset \subseteq Clients /\ deaths \subseteq Clients /\ stop \in BOOLEAN
  /\ spc \in {"accept", "header", "payload", "chunk", "csvheader", "reply", "exited", "crashed"}

Server ==
  /\ serving = {} \/ \E c \in Clients : serving = {c} /\ cpc[c] # "start" /\ replies \in Seq(ReplyUnits(c))
  /\ spc \in {"accept", "exited"} => serving = {}
  /\ replies # <<>> => spc \in {"reply", "crashed"} /\ serving # {}
  /\ \A i \in DOMAIN backlog : cpc[backlog[i]] # "start" /\ backlog[i] \notin serving
  /\ \A i, j \in DOMAIN backlog : backlog[i] = backlog[j] => i = j
  /\ stop => \E c \in Clients : \E k \in 1..at[c] : k <= Len(script[c]) /\ script[c][k].kind = "shutdown"
  /\ spc = "exited" => stop
  /\ spc = "payload" => hdr.status = "OK"

Client(c) == Stream(c) /\ Drained(c) /\ ClientFits(c) /\ Answering(c)
ProtocolInv == Types /\ Server /\ (\A c \in Clients : Client(c)) /\ EndsAsKnown

-----------------------------------------------------------------------------
(* What a client sends, and what split_message makes of a reply. *)

LEMMA ScriptTypes ==
  ASSUME script \in Scripts, NEW c \in Clients, NEW k \in DOMAIN script[c]
  PROVE  /\ script[c] \in Seq(Commands)
         /\ script[c][k] \in Commands
         /\ k \in 1..Len(script[c])
<1>1. script[c] \in Seq(Commands)
  BY ScriptsTyped
<1>2. QED
  BY <1>1

LEMMA Kinds ==
  ASSUME script \in Scripts, NEW c \in Clients, NEW k \in DOMAIN script[c]
  PROVE  /\ script[c][k].kind \in {"query", "shutdown", "load", "emptyload", "badload"}
         /\ Answered(c, k) => script[c][k].reply \in Nat
         /\ script[c][k].kind = "load" => script[c][k].file \in Seq(STRING) /\ Len(script[c][k].file) \in Nat /\ Len(script[c][k].file) >= 2
<1>1. script[c][k] \in Commands
  BY ScriptTypes
<1>2. script[c][k].kind = "load" => Len(script[c][k].file) >= 2
  BY ScriptsTyped
<1>3. QED
  BY <1>1, <1>2 DEF Commands, Answered

LEMMA QuerySent ==
  ASSUME NEW c, NEW k, Answered(c, k)
  PROVE  /\ Sent(c, k) = <<Header("OK", FALSE, 1, <<>>), Payload(Request(script[c][k], k))>>
         /\ Len(Sent(c, k)) = 2
         /\ \E S : Sent(c, k) \in Seq(S)
         /\ Sent(c, k)[1].status = "OK"
         /\ Sent(c, k)[2].note = Request(script[c][k], k)
<1>1. Sent(c, k) = <<Header("OK", FALSE, 1, <<>>), Payload(Request(script[c][k], k))>>
  BY DEF Answered, Sent, Units
<1>2. Sent(c, k) \in Seq({Header("OK", FALSE, 1, <<>>), Payload(Request(script[c][k], k))})
  BY <1>1
<1>3. Sent(c, k)[1] = Header("OK", FALSE, 1, <<>>) /\ Sent(c, k)[2] = Payload(Request(script[c][k], k)) /\ Len(Sent(c, k)) = 2
  BY <1>1
<1>4. Sent(c, k)[1].status = "OK" /\ Sent(c, k)[2].note = Request(script[c][k], k)
  BY <1>3 DEF Header, Payload
<1>5. QED
  BY <1>1, <1>2, <1>3, <1>4

LEMMA EmptySent ==
  ASSUME NEW c, NEW k, script[c][k].kind = "emptyload"
  PROVE  /\ Sent(c, k) = <<Header("CSV", TRUE, 0, <<>>)>>
         /\ Len(Sent(c, k)) = 1
         /\ \E S : Sent(c, k) \in Seq(S)
<1>1. Sent(c, k) = <<Header("CSV", TRUE, 0, <<>>)>>
  BY DEF Sent, Units
<1>2. Sent(c, k) \in Seq({Header("CSV", TRUE, 0, <<>>)})
  BY <1>1
<1>3. QED
  BY <1>1, <1>2

LEMMA Chunks ==
  ASSUME NEW a \in Nat \ {0}, NEW b \in Nat \ {0}
  PROVE  (a + b - 1) \div b \in Nat \ {0}
<1>1. a + b - 1 \in Nat /\ a + b - 1 >= b
  OBVIOUS
<1>2. QED
  BY <1>1, Z3

LEMMA LoadSent ==
  ASSUME script \in Scripts, NEW c \in Clients, NEW k \in DOMAIN script[c], script[c][k].kind = "load"
  PROVE  \E n \in Nat \ {0} :
           /\ Len(Sent(c, k)) = 2 * n + 1
           /\ \E S : Sent(c, k) \in Seq(S)
           /\ \A u \in 1..(2 * n) : u % 2 = 1 => Sent(c, k)[u].status = "CSV" /\ Sent(c, k)[u].last = FALSE
           /\ Sent(c, k)[2 * n + 1].status = "CSV" /\ Sent(c, k)[2 * n + 1].last = TRUE
<1> DEFINE cmd == script[c][k]
           file == cmd.file
           n == (Len(file) + BufSize - 1) \div BufSize
           unit(u) == IF u % 2 = 1 THEN Header("CSV", FALSE, Len(Piece(file, (u + 1) \div 2)) + 1, <<>>)
                      ELSE Payload(Piece(file, u \div 2))
           some == [u \in 1..2 * n |-> unit(u)]
           end == <<Header("CSV", TRUE, 0, cmd.rows)>>
<1>1. Sent(c, k) = some \o end
  BY DEF Sent, Units, Transfer
<1>2. Len(file) \in Nat \ {0}
  BY Kinds
<1>3. n \in Nat \ {0}
  <2>1. BufSize \in Nat \ {0}
    BY HeaderFits
  <2>2. QED
    BY <1>2, <2>1, Chunks
<1>4. \A u \in 1..2 * n : u % 2 = 1 => unit(u).status = "CSV" /\ unit(u).last = FALSE
  BY DEF Header
<1>5. end[1].status = "CSV" /\ end[1].last = TRUE
  BY DEF Header
<1> HIDE DEF n, unit
<1> DEFINE all == {unit(u) : u \in 1..2 * n} \cup {end[1]}
<1>6. some \in Seq(all) /\ Len(some) = 2 * n /\ \A u \in 1..2 * n : some[u] = unit(u)
  <2>1. some \in [1..2 * n -> all]
    OBVIOUS
  <2>2. 2 * n \in Nat
    BY <1>3
  <2> HIDE DEF all
  <2>3. some \in Seq(all) /\ Len(some) = 2 * n
    BY <2>1, <2>2
  <2>4. QED
    BY <2>3
<1>7. end \in Seq(all) /\ Len(end) = 1
  OBVIOUS
<1> HIDE DEF all, some
<1> HIDE DEF end
<1>8. /\ some \o end \in Seq(all) /\ Len(some \o end) = 2 * n + 1
      /\ \A u \in 1..2 * n : (some \o end)[u] = unit(u)
      /\ (some \o end)[2 * n + 1] = end[1]
  <2>1. /\ some \o end \in Seq(all) /\ Len(some \o end) = Len(some) + Len(end)
        /\ \A u \in 1..Len(some) + Len(end) : (some \o end)[u] = IF u <= Len(some) THEN some[u] ELSE end[u - Len(some)]
    BY <1>6, <1>7, ConcatProperties
  <2>2. 2 * n \in Nat
    BY <1>3
  <2>3. QED
    BY <1>6, <1>7, <2>1, <2>2
<1>9. QED
  BY <1>1, <1>3, <1>4, <1>5, <1>8

LEMMA Quotients ==
  ASSUME NEW a \in Nat, NEW b \in Nat \ {0}
  PROVE  a \div b \in Nat /\ (a \div b) * b <= a
<1>1. a \div b \in Nat
  BY Z3
<1>2. a = (a \div b) * b + (a % b) /\ a % b \in 0..(b - 1)
  BY Z3
<1>3. QED
  BY <1>1, <1>2, Z3

LEMMA Products ==
  ASSUME NEW i \in Nat, NEW n \in Nat, NEW b \in Nat, i <= n
  PROVE  i * b \in Nat /\ n * b \in Nat /\ i * b <= n * b
<1>1. n * b = i * b + (n - i) * b
  BY Z3
<1>2. i * b \in Nat /\ (n - i) * b \in Nat
  BY Z3
<1>3. QED
  BY <1>1, <1>2, Z3

(* The chunks of a reply are its bytes, none empty; only the last is marked as the last. *)
ChunkOf(s, j, k, r) ==
  /\ s[2 * j].note \in Nat \X Nat \X Nat
  /\ s[2 * j].note[1] = k
  /\ s[2 * j].note[2] = Upto(s, j - 1)
  /\ s[2 * j].note[3] > 0
  /\ s[2 * j].note[2] + s[2 * j].note[3] <= r
  /\ s[2 * j - 1].last => 2 * j = Len(s) /\ s[2 * j].note[2] + s[2 * j].note[3] = r

LEMMA ReplySplit ==
  ASSUME script \in Scripts, NEW c \in Clients, NEW k \in DOMAIN script[c], Answered(c, k)
  PROVE  \E n \in Nat : /\ Reply(c, k) \in Seq(ReplyUnits(c))
                        /\ Len(Reply(c, k)) = 2 * n
                        /\ \A j \in 1..n : ChunkOf(Reply(c, k), j, k, script[c][k].reply)
<1> DEFINE r == script[c][k].reply
           n == (r + ChunkSize - 1) \div ChunkSize
           first(i) == (i - 1) * ChunkSize
           size(i) == IF first(i) + ChunkSize <= r THEN ChunkSize ELSE r - first(i)
           unit(u) == LET i == (u + 1) \div 2
                      IN IF u % 2 = 1 THEN Header("OK", first(i) + ChunkSize > r, size(i) + 1, <<>>)
                         ELSE Payload(<<k, first(i), size(i)>>)
           s == [u \in 1..2 * n |-> unit(u)]
<1>1. Reply(c, k) = s
  BY DEF Reply, Split, Request
<1>2. r \in Nat /\ ChunkSize \in Nat \ {0}
  BY Kinds, ChunkSizePositive
<1>3. k \in Nat
  BY ScriptTypes
<1>4. n \in Nat /\ n * ChunkSize <= r + ChunkSize - 1
  <2>1. r + ChunkSize - 1 \in Nat
    BY <1>2
  <2>2. QED
    BY <1>2, <2>1, Quotients
<1> HIDE DEF n
<1>5. ASSUME NEW i \in 1..n
      PROVE  /\ first(i) \in Nat /\ first(i) < r
             /\ i < n => first(i) + ChunkSize < r
             /\ first(i + 1) = first(i) + ChunkSize
  <2>1. first(i + 1) = first(i) + ChunkSize
    BY <1>2, Z3
  <2>2. i - 1 \in Nat /\ i - 1 <= n - 1 /\ n - 1 \in Nat
    BY <1>4
  <2>3. (n - 1) * ChunkSize = n * ChunkSize - ChunkSize /\ n * ChunkSize \in Nat
    BY <1>2, <1>4, Z3
  <2>4. first(i) \in Nat /\ first(i) <= (n - 1) * ChunkSize
    BY <1>2, <2>2, Products
  <2>5. i < n => first(i + 1) <= (n - 1) * ChunkSize
    <3>1. SUFFICES ASSUME i < n PROVE i * ChunkSize <= (n - 1) * ChunkSize
      BY <1>2
    <3>2. i \in Nat /\ i <= n - 1
      BY <1>4, <3>1
    <3>3. QED
      BY <1>2, <2>2, <3>2, Products
  <2> HIDE DEF first
  <2>6. first(i + 1) \in Nat
    BY <1>2, <2>1, <2>4
  <2>7. QED
    BY <1>2, <1>4, <2>1, <2>3, <2>4, <2>5, <2>6
<1>6. first(1) = 0
  BY <1>2, Z3
<1> HIDE DEF first
<1>7. ASSUME NEW i \in 1..n
      PROVE  /\ size(i) \in Nat \ {0}
             /\ first(i) + size(i) <= r
             /\ i < n => first(i) + size(i) = first(i + 1)
             /\ first(i) + ChunkSize > r => i = n /\ first(i) + size(i) = r
  BY <1>2, <1>4, <1>5
<1> HIDE DEF size
<1>8. ASSUME NEW i \in 1..n
      PROVE  /\ 2 * i \in 1..2 * n /\ 2 * i - 1 \in 1..2 * n
             /\ s[2 * i].note = <<k, first(i), size(i)>>
             /\ s[2 * i - 1].last = (first(i) + ChunkSize > r)
  <2>1. 2 * i \in 1..2 * n /\ 2 * i - 1 \in 1..2 * n
    BY <1>4
  <2>2. (2 * i) % 2 = 0 /\ (2 * i - 1) % 2 = 1 /\ (2 * i + 1) \div 2 = i /\ (2 * i - 1 + 1) \div 2 = i
    BY <1>4
  <2>3. QED
    BY <2>1, <2>2 DEF Header, Payload
<1>9. s \in Seq(ReplyUnits(c)) /\ Len(s) = 2 * n
  <2>1. s \in [1..2 * n -> ReplyUnits(c)]
    <3>1. \A u \in 1..2 * n : u \in Nat /\ s[u] = Reply(c, k)[u]
      BY <1>1, <1>4
    <3> HIDE DEF unit
    <3>2. QED
      BY <1>3, <3>1 DEF ReplyUnits
  <2>2. 2 * n \in Nat
    BY <1>4
  <2> HIDE DEF unit
  <2>3. QED
    BY <2>1, <2>2
<1> HIDE DEF s
<1>10. ASSUME NEW j \in 1..n PROVE ChunkOf(s, j, k, r)
  <2>1. s[2 * j].note = <<k, first(j), size(j)>> /\ s[2 * j - 1].last = (first(j) + ChunkSize > r)
    BY <1>8
  <2>2. Upto(s, j - 1) = first(j)
    <3>1. CASE j = 1
      BY <1>6, <3>1 DEF Upto
    <3>2. CASE j # 1
      <4>1. j - 1 \in 1..n /\ j - 1 < n /\ (j - 1) + 1 = j /\ j - 1 # 0
        BY <1>4, <3>2
      <4>2. s[2 * (j - 1)].note = <<k, first(j - 1), size(j - 1)>>
        BY <1>8, <4>1
      <4>3. first(j - 1) + size(j - 1) = first(j)
        BY <1>7, <4>1
      <4>4. QED
        BY <4>1, <4>2, <4>3 DEF Upto
    <3>3. QED
      BY <3>1, <3>2
  <2>3. first(j) \in Nat /\ size(j) \in Nat \ {0} /\ first(j) + size(j) <= r
    BY <1>5, <1>7
  <2>4. first(j) + ChunkSize > r => j = n /\ first(j) + size(j) = r
    BY <1>7
  <2>5. s[2 * j].note \in Nat \X Nat \X Nat
    BY <1>3, <2>1, <2>3
  <2>6. s[2 * j].note[1] = k /\ s[2 * j].note[2] = first(j) /\ s[2 * j].note[3] = size(j)
    BY <2>1
  <2>7. s[2 * j - 1].last => 2 * j = Len(s) /\ first(j) + size(j) = r
    BY <1>9, <2>1, <2>4
  <2>8. size(j) > 0
    BY <2>3
  <2>9. QED
    BY <2>2, <2>3, <2>5, <2>6, <2>7, <2>8 DEF ChunkOf
<1>11. QED
  BY <1>1, <1>4, <1>9, <1>10

-----------------------------------------------------------------------------
(* What a step leaves alone. *)

LEMMA SameScript ==
  ASSUME script' = script, NEW c
  PROVE  /\ \A k : Sent(c, k)' = Sent(c, k) /\ Reply(c, k)' = Reply(c, k) /\ Answered(c, k)' = Answered(c, k)
         /\ \A p : Following(c, p)' = Following(c, p)
         /\ SentUnits(c)' = SentUnits(c) /\ ReplyUnits(c)' = ReplyUnits(c)
<1>1. \A k : Sent(c, k)' = Sent(c, k) /\ Reply(c, k)' = Reply(c, k) /\ Answered(c, k)' = Answered(c, k)
  BY DEF Sent, Reply, Answered
<1>2. \A p : Following(c, p)' = Following(c, p)
  BY <1>1 DEF Following
<1>3. SentUnits(c)' = SentUnits(c) /\ ReplyUnits(c)' = ReplyUnits(c)
  BY <1>1 DEF SentUnits, ReplyUnits
<1>4. QED
  BY <1>1, <1>2, <1>3

LEMMA SamePlaces ==
  ASSUME script' = script, NEW c, at'[c] = at[c]
  PROVE  Places(c)' = Places(c)
BY SameScript DEF Places

LEMMA SamePrint ==
  ASSUME script' = script, NEW c, printed'[c] = printed[c], NEW k, NEW f
  PROVE  Prints(c, k, f)' = Prints(c, k, f)
<1>1. \A m, b : Printed(c, m, b)' = Printed(c, m, b)
  BY DEF Printed
<1>2. \A m : Answered(c, m)' = Answered(c, m)
  BY SameScript
<1>3. QED
  BY <1>1, <1>2 DEF Prints

LEMMA Streams ==
  ASSUME Types, NEW c \in Clients
  PROVE  /\ toServer[c] \in Seq(SentUnits(c)) /\ outbox[c] \in Seq(SentUnits(c))
         /\ Up(c) \in Seq(SentUnits(c)) /\ Len(Up(c)) = Len(toServer[c]) + Len(outbox[c])
         /\ Up(c) = <<>> <=> toServer[c] = <<>> /\ outbox[c] = <<>>
         /\ Up(c) # <<>> => Len(Up(c)) \in Nat \ {0} /\ 1 \in 1..Len(Up(c)) /\ Len(Up(c)) \in 1..Len(Up(c))
         /\ toServer[c] # <<>> => Up(c)[1] = Head(toServer[c])
<1>1. toServer[c] \in Seq(SentUnits(c)) /\ outbox[c] \in Seq(SentUnits(c))
  BY DEF Types
<1>2. /\ Up(c) \in Seq(SentUnits(c)) /\ Len(Up(c)) = Len(toServer[c]) + Len(outbox[c])
      /\ \A i \in 1..Len(toServer[c]) + Len(outbox[c]) : Up(c)[i] =
                     IF i <= Len(toServer[c]) THEN toServer[c][i] ELSE outbox[c][i - Len(toServer[c])]
  BY <1>1, ConcatProperties DEF Up
<1>3. Up(c) = <<>> <=> toServer[c] = <<>> /\ outbox[c] = <<>>
  BY <1>1, ConcatEqualIffEmpty, ConcatEmptySeq DEF Up
<1>4. Up(c) # <<>> => Len(Up(c)) \in Nat \ {0}
  BY <1>2, EmptySeq
<1>5. toServer[c] # <<>> => Up(c)[1] = Head(toServer[c])
  <2>1. SUFFICES ASSUME toServer[c] # <<>> PROVE Up(c)[1] = Head(toServer[c])
    OBVIOUS
  <2>2. Len(toServer[c]) \in Nat \ {0} /\ Len(outbox[c]) \in Nat /\ Head(toServer[c]) = toServer[c][1]
    BY <1>1, <2>1
  <2>3. 1 \in 1..Len(toServer[c]) + Len(outbox[c]) /\ 1 <= Len(toServer[c])
    <3>1. \A m \in Nat \ {0}, n \in Nat : 1 \in 1..m + n /\ 1 <= m
      OBVIOUS
    <3>2. QED
      BY <2>2, <3>1, Zenon
  <2>4. Up(c)[1] = toServer[c][1]
    BY <1>2, <2>3
  <2>5. QED
    BY <2>2, <2>4
<1>6. Up(c) # <<>> => 1 \in 1..Len(Up(c)) /\ Len(Up(c)) \in 1..Len(Up(c))
  BY <1>4
<1>7. QED
  BY <1>1, <1>2, <1>3, <1>4, <1>5, <1>6

LEMMA SameStream ==
  ASSUME Types, script' = script, NEW c \in Clients, at'[c] = at[c], Up(c)' = Up(c), Stream(c),
         \A p \in Places(c) : Starts(c, p) => Starts(c, p)',
         \A p \in Places(c) : Ends(c, p) => Ends(c, p)'
  PROVE  Stream(c)'
<1>1. PICK w \in [1..Len(Up(c)) -> Places(c)] : Lies(c, w)
  BY DEF Stream
<1>2. Places(c)' = Places(c)
  BY SamePlaces
<1>3. Along(c, w)'
  <2>1. Along(c, w)
    BY <1>1 DEF Lies
  <2>2. PICK u : u = Up(c)
    OBVIOUS
  <2>3. /\ w \in [1..Len(u) -> Places(c)]
        /\ \A i \in 1..Len(u) : u[i] = Sent(c, w[i][1])[w[i][2]]
        /\ \A i \in 1..(Len(u) - 1) : w[i + 1] = Following(c, w[i])
    BY <2>1, <2>2 DEF Along
  <2>4. /\ \A k : Sent(c, k)' = Sent(c, k)
        /\ \A p : Following(c, p)' = Following(c, p)
    BY SameScript
  <2>5. /\ w \in [1..Len(u) -> Places(c)']
        /\ \A i \in 1..Len(u) : u[i] = Sent(c, w[i][1])'[w[i][2]]
        /\ \A i \in 1..(Len(u) - 1) : w[i + 1] = Following(c, w[i])'
    BY <1>2, <2>3, <2>4
  <2>6. QED
    BY <2>2, <2>5 DEF Along
<1>4. (Up(c) # <<>> => Starts(c, w[1]) /\ Ends(c, w[Len(Up(c))]))'
  <2>1. SUFFICES ASSUME Up(c) # <<>> PROVE Starts(c, w[1])' /\ Ends(c, w[Len(Up(c))])'
    OBVIOUS
  <2>2. Starts(c, w[1]) /\ Ends(c, w[Len(Up(c))])
    BY <1>1, <2>1 DEF Lies
  <2>3. w[1] \in Places(c) /\ w[Len(Up(c))] \in Places(c)
    BY <1>1, <2>1, Streams
  <2>4. QED
    BY <2>2, <2>3
<1>5. Lies(c, w)'
  BY <1>3, <1>4 DEF Lies
<1>6. QED
  BY <1>1, <1>2, <1>5 DEF Stream

LEMMA Untouched ==
  ASSUME Types, NEW c \in Clients, Client(c), script' = script,
         at'[c] = at[c], cpc'[c] = cpc[c], outbox'[c] = outbox[c], toServer'[c] = toServer[c],
         printed'[c] = printed[c], Down(c)' = Down(c), Unserved(c)' => Unserved(c),
         c \in reset' => c \in reset, c \in deaths => c \in deaths', ServerGone => ServerGone',
         c \in serving' => /\ c \in serving
                          /\ \/ spc' = "crashed"
                             \/ hdr' = hdr /\ spc' = spc
                             \/ hdr' = hdr /\ spc = "reply" /\ spc' = "header",
         Cut(c) => Cut(c)', Cut(c)' /\ cpc[c] = "wait" => Cut(c) \/ Down(c) = <<>>
  PROVE  Client(c)'
<1>1. Up(c)' = Up(c)
  BY DEF Up
<1>2. /\ \A k : Sent(c, k)' = Sent(c, k) /\ Reply(c, k)' = Reply(c, k) /\ Answered(c, k)' = Answered(c, k)
      /\ \A k, f : Prints(c, k, f)' = Prints(c, k, f)
  BY SameScript, SamePrint
<1>3. Stream(c)'
  <2>1. ASSUME NEW p \in Places(c), Starts(c, p) PROVE Starts(c, p)'
    BY <1>2, <2>1 DEF Starts
  <2>2. ASSUME NEW p \in Places(c), Ends(c, p) PROVE Ends(c, p)'
    BY <1>2, <2>2 DEF Ends
  <2>3. QED
    BY <1>1, <2>1, <2>2, SameStream DEF Client
<1>4. Drained(c)'
  BY <1>1 DEF Client, Drained, Quiet
<1>5. ClientFits(c)'
  BY <1>2 DEF Client, ClientFits
<1>6. Answering(c)'
  <2>1. \A j : HalfWay(c, j)' = HalfWay(c, j)
    BY <1>2 DEF HalfWay
  <2>2. QED
    BY <1>1, <1>2, <2>1 DEF Client, Answering
<1>7. QED
  BY <1>3, <1>4, <1>5, <1>6 DEF Client

-----------------------------------------------------------------------------
(* The steps of a client. *)

ByClient(c) ==
  /\ UNCHANGED <<script, spc, serving, hdr, replies, stop>>
  /\ \A d \in Clients \ {c} : /\ at'[d] = at[d] /\ cpc'[d] = cpc[d] /\ outbox'[d] = outbox[d] /\ printed'[d] = printed[d]
                              /\ toServer'[d] = toServer[d] /\ toClient'[d] = toClient[d]
                              /\ d \in reset' => d \in reset
  /\ deaths \subseteq deaths'
  /\ at'[c] = at[c] \/ (at'[c] = at[c] + 1 /\ cpc[c] # "closed")
  /\ cpc[c] = "closed" => cpc'[c] = "closed"
  /\ backlog' = backlog \/ (backlog' = Append(backlog, c) /\ cpc[c] = "start")

LEMMA ClientAlone ==
  ASSUME ProtocolInv, NEW c \in Clients, ByClient(c), Cut(c) /\ Answered(c, at[c]) => at'[c] = at[c]
  PROVE  /\ \A d \in Clients \ {c} : Client(d)'
         /\ EndsAsKnown'
<1>1. ASSUME NEW d \in Clients \ {c} PROVE Client(d)'
  <2>1. Unserved(d)' => Unserved(d)
    <3>1. SUFFICES ASSUME NEW i \in DOMAIN backlog', backlog'[i] = d PROVE \E j \in DOMAIN backlog : backlog[j] = d
      BY DEF Unserved, ByClient
    <3>2. CASE backlog' = backlog
      BY <3>1, <3>2
    <3>3. CASE backlog' = Append(backlog, c)
      <4>1. backlog \in Seq(Clients)
        BY DEF ProtocolInv, Types
      <4>2. i \in 1..Len(backlog) \/ i = Len(backlog) + 1
        BY <3>1, <3>3, <4>1
      <4>3. i \in 1..Len(backlog)
        BY <3>1, <3>3, <4>1, <4>2
      <4>4. QED
        BY <3>1, <3>3, <4>1, <4>3
    <3>4. QED
      BY <3>2, <3>3 DEF ByClient
  <2>2. Down(d)' = Down(d)
    BY DEF ByClient, Down
  <2>3. ServerGone => ServerGone'
    BY DEF ByClient, ServerGone
  <2>4. QED
    BY <2>1, <2>2, <2>3, Untouched DEF ByClient, ProtocolInv, Cut
<1>2. /\ \A d \in Clients : at[d] \in Nat /\ at'[d] \in Nat /\ at[d] <= at'[d]
      /\ \A d \in Clients : cpc[d] = "closed" => cpc'[d] = "closed" /\ at'[d] = at[d]
  <2>1. \A d \in Clients : at[d] \in Nat
    BY DEF ProtocolInv, Types
  <2>2. QED
    BY <2>1 DEF ByClient
<1>3. EndsAsKnown'
  <2>1. serving \subseteq Clients
    BY DEF ProtocolInv, Server
  <2>2. \A d \in Clients : \A k \in 1..at[d] : k \in 1..at'[d]
    BY <1>2
  <2>3. /\ spc' = spc /\ serving' = serving /\ script' = script /\ deaths \subseteq deaths'
    BY DEF ByClient
  <2>4. ASSUME spc = "crashed" PROVE \E d \in serving : Blamed(d)'
    <3>1. PICK d \in serving : Blamed(d)
      BY <2>4 DEF ProtocolInv, EndsAsKnown
    <3>2. d \in Clients /\ Cut(d)
      BY <2>1, <2>4 DEF Cut
    <3>3. CASE ~NoMore(d) /\ Answered(d, at[d]) /\ Command(d).fatal
      <4>1. at'[d] = at[d]
        BY <3>2, <3>3 DEF ByClient
      <4>2. QED
        BY <2>3, <3>3, <4>1 DEF Blamed, NoMore, Answered, Command
    <3>4. CASE ~(~NoMore(d) /\ Answered(d, at[d]) /\ Command(d).fatal)
      BY <1>2, <2>2, <2>3, <3>1, <3>2, <3>4 DEF Blamed
    <3>5. QED
      BY <3>3, <3>4
  <2>5. ASSUME spc = "exited"
        PROVE  \E d \in Clients : \E k \in 1..at'[d] : k <= Len(script[d]) /\ script[d][k].kind = "shutdown"
    BY <2>2, <2>5 DEF ProtocolInv, EndsAsKnown
  <2>6. QED
    BY <2>3, <2>4, <2>5 DEF EndsAsKnown
<1>4. QED
  BY <1>1, <1>3

LEMMA ClientServer ==
  ASSUME ProtocolInv, NEW c \in Clients, ByClient(c), backlog' = backlog, cpc[c] # "start" => cpc'[c] # "start",
         cpc[c] = "start" => cpc'[c] # "start"
  PROVE  Server'
<1>1. backlog \in Seq(Clients) /\ (\A i \in DOMAIN backlog : backlog[i] \in Clients) /\ serving \subseteq Clients
  BY DEF ProtocolInv, Types, Server
<1>2. \A d \in Clients : cpc[d] # "start" => cpc'[d] # "start"
  BY DEF ByClient
<1>3. \A d \in Clients : at[d] \in Nat /\ \A k \in 1..at[d] : k \in 1..at'[d]
  <2>1. \A d \in Clients : at[d] \in Nat
    BY DEF ProtocolInv, Types
  <2>2. QED
    BY <2>1 DEF ByClient
<1>4. UNCHANGED <<script, spc, serving, hdr, replies, stop>>
  BY DEF ByClient
<1>5. stop => \E d \in Clients : \E k \in 1..at'[d] : k <= Len(script[d]) /\ script[d][k].kind = "shutdown"
  BY <1>3 DEF ProtocolInv, Server
<1>6. \A d : ReplyUnits(d)' = ReplyUnits(d)
  BY <1>4, SameScript
<1>7. QED
  BY <1>1, <1>2, <1>4, <1>5, <1>6 DEF ProtocolInv, Server

LEMMA ConnectKeeps ==
  ASSUME ProtocolInv, NEW c \in Clients, Connect(c)
  PROVE  ProtocolInv'
<1>1. /\ cpc[c] = "start" /\ cpc' = [cpc EXCEPT ![c] = IF ServerGone THEN "closed" ELSE "idle"]
      /\ backlog' = IF ServerGone THEN backlog ELSE Append(backlog, c)
      /\ UNCHANGED <<script, at, outbox, printed, reset, deaths, toServer, toClient, serverVars>>
  BY DEF Connect
<1>2. UNCHANGED <<spc, serving, hdr, replies, stop>>
  BY <1>1 DEF serverVars
<1>3. Types /\ Types'
  <2>1. backlog' \in Seq(Clients)
    BY <1>1 DEF ProtocolInv, Types
  <2>2. \A d : SentUnits(d)' = SentUnits(d) /\ ReplyUnits(d)' = ReplyUnits(d)
    BY <1>1, SameScript
  <2>3. QED
    BY <1>1, <1>2, <2>1, <2>2 DEF ProtocolInv, Types
<1>4. cpc'[c] \in {"closed", "idle"} /\ (cpc'[c] = "closed" => ServerGone)
  BY <1>1 DEF ProtocolInv, Types
<1>5. ByClient(c)
  BY <1>1, <1>2, <1>4 DEF ByClient, ProtocolInv, Types
<1>6. Client(c)'
  <2>1. Up(c) = <<>> /\ Up(c)' = <<>> /\ at[c] = 1 /\ outbox[c] = <<>>
    <3>1. toServer[c] = <<>> /\ outbox[c] = <<>> /\ at[c] = 1
      BY <1>1 DEF ProtocolInv, Client, ClientFits
    <3>2. QED
      BY <1>1, <1>3, <3>1, Streams DEF Up
  <2>2. c \notin serving
    BY <1>1 DEF ProtocolInv, Server
  <2>3. Stream(c)'
    BY <1>1, <1>3, <2>1, SameStream DEF ProtocolInv, Client, Stream, Lies, Along
  <2>4. Drained(c)'
    BY <1>1, <1>2, <1>4, <2>1, <2>2 DEF Drained
  <2>5. Down(c)' = Down(c) /\ Down(c) = <<>> /\ Prints(c, at[c], 0) /\ Prints(c, at[c], 0)' = Prints(c, at[c], 0)
    BY <1>1, <1>2, SamePrint DEF ProtocolInv, Client, Answering, Down
  <2>6. ClientFits(c)'
    BY <1>1, <1>2, <1>4, <2>1, <2>5 DEF ProtocolInv, Client, ClientFits, ServerGone
  <2>7. Answering(c)'
    BY <1>1, <1>4, <2>5 DEF Answering
  <2>8. QED
    BY <2>3, <2>4, <2>6, <2>7 DEF Client
<1>7. Server'
  <2>1. CASE backlog' = backlog
    BY <1>1, <1>4, <1>5, <2>1, ClientServer
  <2>2. CASE backlog' = Append(backlog, c)
    <3>1. /\ backlog \in Seq(Clients) /\ serving \subseteq Clients /\ c \notin serving
      BY <1>1 DEF ProtocolInv, Types, Server
    <3>2. \A i \in DOMAIN backlog' : (i \in DOMAIN backlog /\ backlog'[i] = backlog[i]) \/ (i = Len(backlog) + 1 /\ backlog'[i] = c)
      BY <2>2, <3>1
    <3>3. \A i \in DOMAIN backlog : backlog[i] \in Clients /\ backlog[i] # c
      BY <1>1, <3>1 DEF ProtocolInv, Server
    <3>4. \A d \in Clients : cpc[d] # "start" => cpc'[d] # "start"
      BY <1>1, <1>4 DEF ProtocolInv, Types
    <3>5. \A i \in DOMAIN backlog' : cpc'[backlog'[i]] # "start" /\ backlog'[i] \notin serving
      BY <1>4, <3>1, <3>2, <3>3, <3>4 DEF ProtocolInv, Server
    <3>6. \A i, j \in DOMAIN backlog' : backlog'[i] = backlog'[j] => i = j
      BY <3>2, <3>3 DEF ProtocolInv, Server
    <3>7. \A d : ReplyUnits(d)' = ReplyUnits(d)
      BY <1>1, SameScript
    <3>8. QED
      BY <1>1, <1>2, <3>4, <3>5, <3>6, <3>7 DEF ProtocolInv, Server
  <2>3. QED
    BY <1>1, <2>1, <2>2
<1>8. QED
  BY <1>1, <1>3, <1>5, <1>6, <1>7, ClientAlone DEF ProtocolInv

LEMMA WholeMessage ==
  ASSUME script \in Scripts, NEW c \in Clients, NEW k \in DOMAIN script[c], script[c][k].kind # "badload"
  PROVE  /\ Sent(c, k) \in Seq(SentUnits(c)) /\ Len(Sent(c, k)) \in Nat \ {0}
         /\ Answered(c, k) \/ script[c][k].kind = "emptyload" \/ script[c][k].kind = "load"
<1>1. Answered(c, k) \/ script[c][k].kind = "emptyload" \/ script[c][k].kind = "load"
  BY Kinds DEF Answered
<1>2. \E S : Sent(c, k) \in Seq(S)
  <2>1. CASE Answered(c, k)
    BY <2>1, QuerySent, Zenon
  <2>2. CASE script[c][k].kind = "emptyload"
    BY <2>2, EmptySent, Zenon
  <2>3. CASE script[c][k].kind = "load"
    BY <2>3, LoadSent
  <2>4. QED
    BY <1>1, <2>1, <2>2, <2>3
<1>3. PICK S : Sent(c, k) \in Seq(S)
  BY <1>2
<1>4. Sent(c, k) \in [1..Len(Sent(c, k)) -> SentUnits(c)] /\ Len(Sent(c, k)) \in Nat
  <2>1. Len(Sent(c, k)) \in Nat /\ Sent(c, k) \in [1..Len(Sent(c, k)) -> S]
    BY <1>3, LenProperties
  <2>2. k \in Nat
    BY ScriptTypes
  <2>3. \A u \in 1..Len(Sent(c, k)) : u \in Nat /\ Sent(c, k)[u] \in SentUnits(c)
    BY <2>1, <2>2 DEF SentUnits
  <2>4. QED
    BY <2>1, <2>3
<1>5. Sent(c, k) \in Seq(SentUnits(c))
  BY <1>4
<1>6. Len(Sent(c, k)) # 0
  <2>1. CASE Answered(c, k)
    <3>1. Len(Sent(c, k)) = 2
      BY <2>1, QuerySent, Zenon
    <3>2. QED
      BY <3>1
  <2>2. CASE script[c][k].kind = "emptyload"
    <3>1. Len(Sent(c, k)) = 1
      BY <2>2, EmptySent, Zenon
    <3>2. QED
      BY <3>1
  <2>3. CASE script[c][k].kind = "load"
    <3>1. PICK n \in Nat \ {0} : Len(Sent(c, k)) = 2 * n + 1
      BY <2>3, LoadSent
    <3>2. QED
      BY <3>1
  <2>4. QED
    BY <1>1, <2>1, <2>2, <2>3
<1>7. QED
  BY <1>1, <1>4, <1>5, <1>6

LEMMA ReadStream ==
  ASSUME ProtocolInv, NEW c \in Clients, ReadCommand(c)
  PROVE  Stream(c)' /\ Up(c)' # <<>>
<1>0. PICK k : k = at[c]
  OBVIOUS
<1> DEFINE s == Sent(c, k)
           t == toServer[c]
<1>1. /\ cpc[c] = "idle" /\ k \in DOMAIN script[c] /\ script[c][k].kind # "badload"
      /\ outbox'[c] = s /\ cpc'[c] = "send"
      /\ UNCHANGED <<script, at, deaths, backlog, toServer, spc, serving>>
  <2>1. k \in Nat \ {0} /\ k <= Len(script[c]) /\ script[c] \in Seq(Commands)
    BY <1>0, ScriptsTyped DEF ReadCommand, NoMore, ProtocolInv, Types
  <2>2. k \in DOMAIN script[c]
    BY <2>1
  <2>3. QED
    BY <1>0, <2>2 DEF ReadCommand, Command, Sent, serverVars, ProtocolInv, Types
<1>2. s \in Seq(SentUnits(c)) /\ Len(s) \in Nat \ {0}
  BY <1>1, WholeMessage DEF ProtocolInv, Types
<1>3. t \in Seq(SentUnits(c)) /\ outbox[c] = <<>> /\ Up(c) = t
  <2>1. t \in Seq(SentUnits(c)) /\ outbox[c] = <<>>
    BY <1>1 DEF ProtocolInv, Types, Client, ClientFits
  <2>2. QED
    BY <2>1, ConcatEmptySeq DEF Up
<1>4. /\ Up(c)' = t \o s /\ Len(t \o s) = Len(t) + Len(s)
      /\ \A i \in 1..Len(t) + Len(s) : (t \o s)[i] = IF i <= Len(t) THEN t[i] ELSE s[i - Len(t)]
  BY <1>1, <1>2, <1>3, ConcatProperties DEF Up
<1>5. PICK w \in [1..Len(t) -> Places(c)] : Lies(c, w)
  BY <1>3 DEF ProtocolInv, Client, Stream
<1>a. PICK n, m : n = Len(t) /\ m = Len(s)
  OBVIOUS
<1>6. n \in Nat /\ m \in Nat \ {0} /\ k \in Nat
  BY <1>0, <1>2, <1>3, <1>a DEF ProtocolInv, Types
<1>7. Places(c)' = Places(c) /\ \A i \in 1..m : <<k, i>> \in Places(c)
  <2>1. Places(c)' = Places(c)
    BY <1>1, SamePlaces
  <2>2. \A i \in 1..m : <<k, i>> \in Nat \X Nat
    BY <1>6
  <2>3. QED
    BY <1>0, <1>1, <1>6, <1>a, <2>1, <2>2 DEF Places
<1> HIDE DEF s, t
<1>8. PICK v \in [1..n + m -> Places(c)] : \A i \in 1..n + m : v[i] = IF i <= n THEN w[i] ELSE <<k, i - n>>
  <2> DEFINE x == [i \in 1..n + m |-> IF i <= n THEN w[i] ELSE <<k, i - n>>]
  <2>1. \A i \in 1..n + m : IF i <= n THEN i \in 1..n ELSE i - n \in 1..m
    BY <1>6
  <2>2. w \in [1..n -> Places(c)]
    BY <1>5, <1>a DEF t
  <2>3. x \in [1..n + m -> Places(c)]
    BY <1>7, <2>1, <2>2
  <2>4. \A i \in 1..n + m : x[i] = IF i <= n THEN w[i] ELSE <<k, i - n>>
    OBVIOUS
  <2> HIDE DEF x
  <2>5. QED
    BY <2>3, <2>4
<1>9. Along(c, v)'
  <2>1. \A i \in 1..n + m : Up(c)'[i] = Sent(c, v[i][1])[v[i][2]]
    <3>1. ASSUME NEW i \in 1..n + m PROVE Up(c)'[i] = Sent(c, v[i][1])[v[i][2]]
      <4>1. CASE i <= n
        <5>1. i \in 1..n /\ v[i] = w[i]
          BY <1>6, <1>8, <4>1
        <5>2. t[i] = Sent(c, w[i][1])[w[i][2]]
          BY <1>3, <1>5, <1>a, <5>1 DEF Lies, Along, t
        <5>3. QED
          BY <1>4, <4>1, <5>1, <5>2, <1>a
      <4>2. CASE ~(i <= n)
        <5>1. v[i] = <<k, i - n>> /\ s = Sent(c, k)
          BY <1>8, <4>2 DEF s
        <5>2. QED
          BY <1>4, <4>2, <5>1, <1>a
      <4>3. QED
        BY <4>1, <4>2
    <3>2. QED
      BY <3>1
  <2>2. \A i \in 1..(n + m - 1) : v[i + 1] = Following(c, v[i])
    <3>1. ASSUME NEW i \in 1..(n + m - 1) PROVE v[i + 1] = Following(c, v[i])
      <4>1. CASE i + 1 <= n
        <5>1. i \in 1..(n - 1) /\ v[i] = w[i] /\ v[i + 1] = w[i + 1]
          BY <1>6, <1>8, <4>1
        <5>2. w[i + 1] = Following(c, w[i])
          BY <1>3, <1>5, <1>a, <5>1 DEF Lies, Along, t
        <5>3. QED
          BY <5>1, <5>2
      <4>2. CASE i = n
        <5>1. v[i] = w[n] /\ v[i + 1] = <<k, 1>> /\ n \in 1..n
          BY <1>6, <1>8, <4>2
        <5>2. Ends(c, w[n]) /\ w[n] \in Places(c)
          BY <1>3, <1>5, <1>a, <5>1 DEF Lies, t
        <5>3. w[n][1] + 1 = k /\ w[n][2] = Len(Sent(c, w[n][1])) /\ w[n][2] \in Nat
          BY <1>0, <1>1, <5>2 DEF Ends, Places
        <5>4. QED
          BY <5>1, <5>3 DEF Following
      <4>3. CASE i > n
        <5>1. v[i] = <<k, i - n>> /\ v[i + 1] = <<k, i + 1 - n>> /\ i - n < m /\ i - n + 1 = i + 1 - n
          BY <1>6, <1>8, <4>3
        <5>2. QED
          BY <1>a, <5>1 DEF Following, s
      <4>4. QED
        BY <1>6, <4>1, <4>2, <4>3
    <3>2. QED
      BY <3>1
  <2>3. Len(Up(c)') = n + m
    BY <1>4, <1>a
  <2>4. QED
    <3>1. \A i \in 1..n + m : (Sent(c, v[i][1])[v[i][2]])' = Sent(c, v[i][1])[v[i][2]]
      BY <1>1, SameScript
    <3>2. \A i \in 1..n + m : Following(c, v[i])' = Following(c, v[i])
      BY <1>1, SameScript
    <3>3. 1..(n + m - 1) \subseteq 1..(n + m)
      BY <1>6
    <3>4. (v \in [1..Len(Up(c)) -> Places(c)])'
      BY <1>7, <1>8, <2>3
    <3>5. (\A i \in 1..Len(Up(c)) : Up(c)[i] = Sent(c, v[i][1])[v[i][2]])'
      BY <2>1, <2>3, <3>1
    <3>6. (\A i \in 1..(Len(Up(c)) - 1) : v[i + 1] = Following(c, v[i]))'
      <4>1. (1..(Len(Up(c)) - 1))' = 1..(n + m - 1)
        BY <1>6, <2>3
      <4>2. \A i \in 1..(n + m - 1) : v[i + 1] = Following(c, v[i])'
        BY <2>2, <3>2, <3>3
      <4>3. QED
        BY <4>1, <4>2
    <3>7. QED
      BY <3>4, <3>5, <3>6 DEF Along
<1>10. Ends(c, v[n + m])'
  <2>1. v[n + m] = <<k, m>>
    BY <1>6, <1>8
  <2>2. k = at'[c] /\ m = Len(Sent(c, k)') /\ cpc'[c] = "send"
    BY <1>0, <1>1, <1>a, SameScript DEF s
  <2>3. Ends(c, <<k, m>>)'
    BY <2>2 DEF Ends
  <2>4. QED
    BY <2>1, <2>3
<1>11. Starts(c, v[1])'
  <2>1. CASE n = 0
    <3>1. v[1] = <<k, 1>>
      BY <1>6, <1>8, <2>1
    <3>2. Up(c) = <<>>
      BY <1>3, <1>a, <2>1, EmptySeq DEF t
    <3>3. Unserved(c) => k = 1
      BY <1>0, <3>2 DEF ProtocolInv, Client, Drained
    <3>4. c \in serving => spc \notin {"payload", "chunk", "csvheader"}
      BY <3>2 DEF ProtocolInv, Client, Drained
    <3>5. Unserved(c)' => Unserved(c)
      BY <1>1 DEF Unserved
    <3>6. QED
      BY <1>1, <3>1, <3>3, <3>4, <3>5 DEF Starts
  <2>2. CASE n # 0
    <3>1. v[1] = w[1]
      BY <1>6, <1>8, <2>2
    <3>2. Starts(c, w[1])
      BY <1>3, <1>5, <1>a, <2>2 DEF Lies, t
    <3>3. Unserved(c)' => Unserved(c)
      BY <1>1 DEF Unserved
    <3>4. QED
      BY <1>1, <3>1, <3>2, <3>3, SameScript DEF Starts
  <2>3. QED
    BY <2>1, <2>2
<1>12. Up(c)' # <<>> /\ Len(Up(c)') = n + m
  <2>1. Len(Up(c)') = n + m
    BY <1>4, <1>a
  <2>2. QED
    BY <1>6, <2>1
<1>13. Lies(c, v)'
  BY <1>9, <1>10, <1>11, <1>12 DEF Lies
<1>14. QED
  BY <1>7, <1>8, <1>12, <1>13 DEF Stream

LEMMA ReadKeeps ==
  ASSUME ProtocolInv, NEW c \in Clients, ReadCommand(c)
  PROVE  ProtocolInv'
<1>1. /\ cpc[c] = "idle" /\ at[c] \in DOMAIN script[c] /\ script[c][at[c]].kind # "badload"
      /\ outbox' = [outbox EXCEPT ![c] = Sent(c, at[c])] /\ cpc' = [cpc EXCEPT ![c] = "send"]
      /\ UNCHANGED <<script, at, printed, reset, deaths, backlog, toServer, toClient, spc, serving, hdr, replies, stop>>
  <2>1. at[c] \in Nat \ {0} /\ at[c] <= Len(script[c]) /\ script[c] \in Seq(Commands)
    BY ScriptsTyped DEF ReadCommand, NoMore, ProtocolInv, Types
  <2>2. QED
    BY <2>1 DEF ReadCommand, Command, Sent, serverVars
<1>2. Sent(c, at[c]) \in Seq(SentUnits(c)) /\ Len(Sent(c, at[c])) \in Nat \ {0}
  BY <1>1, WholeMessage DEF ProtocolInv, Types
<1>3. Types'
  <2>1. \A d : SentUnits(d)' = SentUnits(d) /\ ReplyUnits(d)' = ReplyUnits(d)
    BY <1>1, SameScript
  <2>2. QED
    BY <1>1, <1>2, <2>1 DEF ProtocolInv, Types
<1>4. cpc'[c] = "send" /\ outbox'[c] = Sent(c, at[c])
  BY <1>1 DEF ProtocolInv, Types
<1>5. ByClient(c)
  BY <1>1 DEF ByClient, ProtocolInv, Types
<1>6. Client(c)'
  <2>1. Stream(c)' /\ Up(c)' # <<>>
    BY ReadStream
  <2>2. Drained(c)'
    BY <2>1 DEF Drained
  <2>3. Down(c)' = Down(c) /\ Down(c) = <<>> /\ Prints(c, at[c], 0) /\ Prints(c, at[c], 0)' = Prints(c, at[c], 0)
    BY <1>1, SamePrint DEF ProtocolInv, Client, Answering, Down
  <2>4. outbox'[c] # <<>> /\ at[c] <= Len(script[c])
    BY <1>1, <1>2, <1>4, ScriptTypes DEF ProtocolInv, Types
  <2>5. c \in reset' => c \in deaths' \/ ServerGone'
    BY <1>1 DEF ProtocolInv, Client, ClientFits, ServerGone
  <2>6. ClientFits(c)'
    BY <1>1, <1>4, <2>4, <2>5 DEF ClientFits
  <2>7. Answering(c)'
    BY <1>1, <1>4, <2>3 DEF Answering
  <2>8. QED
    BY <2>1, <2>2, <2>6, <2>7 DEF Client
<1>7. Server'
  BY <1>1, <1>4, <1>5, ClientServer
<1>8. QED
  BY <1>1, <1>3, <1>5, <1>6, <1>7, ClientAlone DEF ProtocolInv

LEMMA Passed ==
  ASSUME NEW S, NEW t \in Seq(S), NEW o \in Seq(S), o # <<>>
  PROVE  /\ Append(t, Head(o)) \o Tail(o) = t \o o
         /\ Append(t, Head(o)) \in Seq(S) /\ Tail(o) \in Seq(S) /\ t \o o # <<>>
<1>1. Head(o) \in S /\ Tail(o) \in Seq(S) /\ Len(o) \in Nat \ {0} /\ Len(Tail(o)) = Len(o) - 1
      /\ (\A i \in 1..Len(Tail(o)) : Tail(o)[i] = o[i + 1]) /\ Head(o) = o[1]
  BY HeadTailProperties, EmptySeq
<1>2. Append(t, Head(o)) \in Seq(S) /\ Len(Append(t, Head(o))) = Len(t) + 1 /\ Len(t) \in Nat
      /\ (\A i \in 1..Len(t) : Append(t, Head(o))[i] = t[i]) /\ Append(t, Head(o))[Len(t) + 1] = o[1]
  BY <1>1
<1> DEFINE a == Append(t, Head(o))
           b == Tail(o)
<1> HIDE DEF a, b
<1>3. /\ a \o b \in Seq(S) /\ Len(a \o b) = Len(a) + Len(b)
      /\ \A i \in 1..Len(a) + Len(b) : (a \o b)[i] = IF i <= Len(a) THEN a[i] ELSE b[i - Len(a)]
  BY <1>1, <1>2, ConcatProperties DEF a, b
<1>4. /\ t \o o \in Seq(S) /\ Len(t \o o) = Len(t) + Len(o)
      /\ \A i \in 1..Len(t) + Len(o) : (t \o o)[i] = IF i <= Len(t) THEN t[i] ELSE o[i - Len(t)]
  BY ConcatProperties
<1>5. Len(a) = Len(t) + 1 /\ Len(b) = Len(o) - 1 /\ Len(t) \in Nat /\ Len(o) \in Nat \ {0}
      /\ (\A i \in 1..Len(t) : a[i] = t[i]) /\ a[Len(t) + 1] = o[1] /\ (\A i \in 1..Len(b) : b[i] = o[i + 1])
  BY <1>1, <1>2 DEF a, b
<1>6. ASSUME NEW i \in 1..Len(t) + Len(o) PROVE (a \o b)[i] = (t \o o)[i]
  <2>1. CASE i <= Len(t)
    BY <1>3, <1>4, <1>5, <2>1
  <2>2. CASE i = Len(t) + 1
    BY <1>3, <1>4, <1>5, <2>2
  <2>3. CASE i > Len(t) + 1
    <3>1. i - Len(a) \in 1..Len(b) /\ (i - Len(a)) + 1 = i - Len(t)
      BY <1>5, <2>3
    <3>2. (a \o b)[i] = b[i - Len(a)] /\ (t \o o)[i] = o[i - Len(t)]
      BY <1>3, <1>4, <1>5, <2>3
    <3>3. QED
      BY <1>5, <3>1, <3>2
  <2>4. QED
    BY <1>5, <2>1, <2>2, <2>3
<1>7. a \o b = t \o o
  <2>1. Len(a \o b) = Len(t) + Len(o) /\ Len(t \o o) = Len(t) + Len(o)
    BY <1>3, <1>4, <1>5
  <2>2. \A i \in 1..Len(a \o b) : (a \o b)[i] = (t \o o)[i]
    BY <1>6, <2>1
  <2>3. QED
    BY <1>3, <1>4, <2>1, <2>2, SeqEqual
<1>8. t \o o # <<>>
  BY <1>4, <1>5
<1>9. QED
  BY <1>1, <1>2, <1>7, <1>8 DEF a, b

(* the places of a command that is not answered stay places when the client goes on *)
LEMMA LaterPlaces ==
  ASSUME Types, script' = script, NEW c \in Clients, at'[c] = at[c] + 1, ~Answered(c, at[c])
  PROVE  Places(c) \subseteq Places(c)'
<1>1. at[c] \in Nat
  BY DEF Types
<1>2. \A k : Answered(c, k)' = Answered(c, k) /\ Sent(c, k)' = Sent(c, k)
  BY SameScript
<1>3. ASSUME NEW p \in Places(c) PROVE p \in Places(c)'
  <2>1. p \in Nat \X Nat /\ p[1] \in DOMAIN script[c] /\ p[1] <= at[c] /\ script[c][p[1]].kind # "badload"
        /\ ~Answered(c, p[1]) /\ p[2] \in 1..Len(Sent(c, p[1]))
    BY DEF Places
  <2>2. p[1] <= at'[c]
    BY <1>1, <2>1
  <2>3. QED
    BY <1>2, <2>1, <2>2 DEF Places
<1>4. QED
  BY <1>3

LEMMA LaterPrint ==
  ASSUME Types, NEW c \in Clients, Prints(c, at[c], 0), ~Answered(c, at[c])
  PROVE  Prints(c, at[c] + 1, 0)
<1> DEFINE k == at[c]
<1>1. k \in Nat \ {0} /\ (k + 1) - 1 = k
  BY DEF Types
<1>2. \A i \in DOMAIN printed[c] : printed[c][i][1] \in Int /\ printed[c][i][2] \in Nat /\ printed[c][i][3] \in Nat
  <2>1. PICK S : S = Nat \X Nat \X Nat
    OBVIOUS
  <2>2. printed[c] \in Seq(S)
    BY <2>1 DEF Types
  <2>3. \A i \in DOMAIN printed[c] : printed[c][i] \in S
    BY <2>2
  <2>4. QED
    BY <2>1, <2>3
<1>3. \A i \in DOMAIN printed[c] : LET p == printed[c][i]
                                  IN p[3] > 0 /\ p[1] \in 1..(k - 1) /\ Answered(c, p[1]) /\ p[2] + p[3] <= script[c][p[1]].reply
  BY <1>2 DEF Prints
<1>4. 1..(k - 1) \subseteq 1..((k + 1) - 1)
  BY <1>1
<1>5. \A m \in 1..((k + 1) - 1) : Answered(c, m) => m \in 1..(k - 1)
  BY <1>1
<1>6. \A b \in 0..(0 - 1) : FALSE
  OBVIOUS
<1> HIDE DEF k
<1>7. Prints(c, k + 1, 0)
  <2>1. \A i, j \in DOMAIN printed[c] : i < j => Precedes(printed[c][i], printed[c][j])
    BY DEF Prints
  <2>2. \A m \in 1..(k - 1) : Answered(c, m) => \A b \in 0..(script[c][m].reply - 1) : Printed(c, m, b)
    BY DEF Prints, k
  <2>3. \A m \in 1..((k + 1) - 1) : Answered(c, m) => \A b \in 0..(script[c][m].reply - 1) : Printed(c, m, b)
    BY <1>5, <2>2
  <2>4. \A b \in 0..(0 - 1) : Printed(c, k + 1, b)
    BY <1>6
  <2>5. \A i \in DOMAIN printed[c] : LET p == printed[c][i]
                                    IN p[3] > 0 /\ p[1] \in 1..((k + 1) - 1) /\ Answered(c, p[1]) /\ p[2] + p[3] <= script[c][p[1]].reply
    BY <1>3, <1>4
  <2>6. QED
    BY <2>1, <2>3, <2>4, <2>5 DEF Prints
<1>8. QED
  BY <1>7 DEF k

LEMMA SendKeeps ==
  ASSUME ProtocolInv, NEW c \in Clients, Send(c)
  PROVE  ProtocolInv'
<1> DEFINE Over == Len(outbox[c]) = 1 /\ ~Answered(c, at[c])
<1>1. /\ cpc[c] = "send" /\ ~ServerGone
      /\ toServer' = [toServer EXCEPT ![c] = Append(@, Head(outbox[c]))]
      /\ outbox' = [outbox EXCEPT ![c] = Tail(@)]
      /\ UNCHANGED <<script, printed, reset, deaths, backlog, toClient, spc, serving, hdr, replies, stop>>
  BY DEF Send, serverVars
<1>2. Types /\ outbox[c] # <<>> /\ outbox[c] \in Seq(SentUnits(c)) /\ toServer[c] \in Seq(SentUnits(c))
      /\ Len(outbox[c]) \in Nat \ {0} /\ at[c] \in Nat \ {0} /\ at[c] <= Len(script[c])
  <2>1. outbox[c] # <<>> /\ outbox[c] \in Seq(SentUnits(c)) /\ toServer[c] \in Seq(SentUnits(c))
    BY <1>1 DEF ProtocolInv, Types, Client, ClientFits
  <2>2. QED
    BY <1>1, <2>1, EmptySeq DEF ProtocolInv, Types, Client, ClientFits
<1>3. /\ Tail(outbox[c]) \in Seq(SentUnits(c)) /\ (Tail(outbox[c]) = <<>> <=> Len(outbox[c]) = 1)
      /\ Append(toServer[c], Head(outbox[c])) \in Seq(SentUnits(c))
  <2>1. Tail(outbox[c]) \in Seq(SentUnits(c)) /\ Len(Tail(outbox[c])) = Len(outbox[c]) - 1
    BY <1>2, HeadTailProperties
  <2>2. Tail(outbox[c]) = <<>> <=> Len(outbox[c]) = 1
    <3>1. Tail(outbox[c]) = <<>> <=> Len(Tail(outbox[c])) = 0
      BY <2>1, EmptySeq
    <3>2. QED
      BY <1>2, <2>1, <3>1
  <2>3. QED
    BY <1>2, <2>1, <2>2, Passed
<1>4. /\ Len(outbox[c]) # 1 => cpc' = cpc /\ at' = at
      /\ Len(outbox[c]) = 1 /\ Answered(c, at[c]) => cpc' = [cpc EXCEPT ![c] = "wait"] /\ at' = at
      /\ Over => cpc' = [cpc EXCEPT ![c] = "idle"] /\ at' = [at EXCEPT ![c] = @ + 1]
  <2>1. Len(outbox[c]) # 1 <=> Len(outbox[c]) > 1
    <3>1. \A n \in Nat \ {0} : n # 1 <=> n > 1
      OBVIOUS
    <3>2. QED
      BY <1>2, <3>1, Zenon
  <2>2. CASE Len(outbox[c]) > 1
    BY <2>1, <2>2 DEF Send
  <2>3. CASE ~(Len(outbox[c]) > 1)
    BY <2>1, <2>3 DEF Send, NextCommand
  <2>4. QED
    BY <2>2, <2>3
<1>5. /\ toServer'[c] = Append(toServer[c], Head(outbox[c])) /\ outbox'[c] = Tail(outbox[c])
      /\ Len(outbox[c]) # 1 => cpc'[c] = "send" /\ at'[c] = at[c]
      /\ Len(outbox[c]) = 1 /\ Answered(c, at[c]) => cpc'[c] = "wait" /\ at'[c] = at[c]
      /\ Over => cpc'[c] = "idle" /\ at'[c] = at[c] + 1
  BY <1>1, <1>4 DEF ProtocolInv, Types
<1>6. Types'
  <2>1. \A d : SentUnits(d)' = SentUnits(d) /\ ReplyUnits(d)' = ReplyUnits(d)
    BY <1>1, SameScript
  <2>2. at' \in [Clients -> Nat \ {0}] /\ \A d \in Clients : at'[d] <= Len(script[d]) + 1
    <3>1. \A d \in Clients : Len(script[d]) \in Nat
      BY ScriptsTyped DEF ProtocolInv, Types
    <3>2. at \in [Clients -> Nat \ {0}] /\ \A d \in Clients : at[d] <= Len(script[d]) + 1
      BY <1>2 DEF Types
    <3>3. CASE at' = at
      BY <3>2, <3>3
    <3>4. CASE at' = [at EXCEPT ![c] = @ + 1]
      <4>1. at'[c] = at[c] + 1 /\ \A d \in Clients \ {c} : at'[d] = at[d]
        BY <3>2, <3>4
      <4>2. at' \in [Clients -> Nat \ {0}]
        BY <3>2, <3>4
      <4>3. at'[c] <= Len(script[c]) + 1
        BY <1>2, <3>1, <4>1
      <4>4. QED
        BY <3>2, <4>1, <4>2, <4>3
    <3>5. QED
      BY <1>4, <3>3, <3>4
  <2>3. cpc' \in [Clients -> {"start", "idle", "send", "wait", "closed"}]
    BY <1>4 DEF ProtocolInv, Types
  <2>4. QED
    BY <1>1, <1>3, <2>1, <2>2, <2>3 DEF ProtocolInv, Types
<1>7. ByClient(c)
  BY <1>1, <1>4, <1>5 DEF ByClient, ProtocolInv, Types
<1>8. Up(c)' = Up(c) /\ Up(c) # <<>>
  <2>1. /\ Append(toServer[c], Head(outbox[c])) \o Tail(outbox[c]) = toServer[c] \o outbox[c]
        /\ toServer[c] \o outbox[c] # <<>>
    BY <1>2, Passed
  <2>2. QED
    BY <1>5, <2>1 DEF Up
<1>9. Stream(c)'
  <2>1. PICK w \in [1..Len(Up(c)) -> Places(c)] : Lies(c, w)
    BY DEF ProtocolInv, Client, Stream
  <2>2. w \in [1..Len(Up(c)) -> Places(c)']
    <3>1. Places(c) \subseteq Places(c)'
      BY <1>1, <1>2, <1>5, SamePlaces, LaterPlaces
    <3>2. QED
      BY <2>1, <3>1
  <2>3. Starts(c, w[1]) /\ Ends(c, w[Len(Up(c))])
    BY <1>8, <2>1 DEF Lies
  <2>4. Starts(c, w[1])'
    <3>1. Unserved(c)' => Unserved(c)
      BY <1>1, <1>5 DEF Unserved
    <3>2. QED
      BY <1>1, <2>3, <3>1, SameScript DEF Starts
  <2>5. Ends(c, w[Len(Up(c))])'
    <3>1. PICK p : p = w[Len(Up(c))]
      OBVIOUS
    <3>2. p[2] = Len(Sent(c, p[1])') /\ p[1] = at[c]
      BY <1>1, <2>3, <3>1, SameScript DEF Ends
    <3>3. Ends(c, p)'
      BY <1>5, <3>2 DEF Ends
    <3>4. QED
      BY <1>8, <3>1, <3>3
  <2>6. Along(c, w)'
    <3>1. Along(c, w)
      BY <2>1 DEF Lies
    <3>2. \A k : Sent(c, k)' = Sent(c, k)
      BY <1>1, SameScript
    <3>3. \A p : Following(c, p)' = Following(c, p)
      BY <1>1, SameScript
    <3>4. QED
      BY <1>8, <2>2, <3>1, <3>2, <3>3 DEF Along
  <2>7. Lies(c, w)'
    BY <1>8, <2>4, <2>5, <2>6 DEF Lies
  <2>8. QED
    BY <1>8, <2>2, <2>7 DEF Stream
<1>10. Down(c)' = Down(c) /\ Down(c) = <<>> /\ Prints(c, at[c], 0)'
  <2>1. Down(c)' = Down(c) /\ Down(c) = <<>> /\ Prints(c, at[c], 0)
    BY <1>1 DEF ProtocolInv, Client, Answering, Down
  <2>2. Prints(c, at'[c], 0)
    BY <1>2, <1>5, <2>1, LaterPrint
  <2>3. PICK k : k = at'[c]
    OBVIOUS
  <2>4. Prints(c, k, 0)'
    BY <1>1, <2>2, <2>3, SamePrint
  <2>5. Prints(c, at[c], 0)'
    BY <2>3, <2>4 DEF Prints
  <2>6. QED
    BY <2>1, <2>5
<1>11. Client(c)'
  <2>1. Drained(c)'
    BY <1>8 DEF Drained
  <2>2. c \in reset' => c \in deaths' \/ ServerGone'
    BY <1>1 DEF ProtocolInv, Client, ClientFits, ServerGone
  <2>4. ClientFits(c)'
    BY <1>1, <1>2, <1>3, <1>5, <2>2 DEF ClientFits, Answered
  <2>5. Answering(c)'
    BY <1>1, <1>8, <1>10 DEF Answering, Cut, ServerGone
  <2>6. QED
    BY <1>9, <2>1, <2>4, <2>5 DEF Client
<1>12. Server'
  BY <1>1, <1>5, <1>7, ClientServer
<1>13. QED
  BY <1>1, <1>6, <1>7, <1>11, <1>12, ClientAlone DEF ProtocolInv, Cut, ServerGone

LEMMA PrintMore ==
  ASSUME Types, script' = script, NEW c \in Clients, NEW k \in Nat \ {0}, NEW f \in Nat, Prints(c, k, f),
         NEW q \in Nat \X Nat \X Nat, q[1] = k, q[2] = f, q[3] > 0, printed'[c] = Append(printed[c], q)
  PROVE  Prints(c, k, f + q[3])'
<1> DEFINE n == Len(printed[c])
<1>1. /\ n \in Nat /\ DOMAIN printed[c] = 1..n /\ DOMAIN printed'[c] = 1..(n + 1)
      /\ printed'[c][n + 1] = q
      /\ \A i \in 1..n : printed'[c][i] = printed[c][i] /\ printed[c][i] \in Nat \X Nat \X Nat
  <2>1. printed[c] \in Seq(Nat \X Nat \X Nat)
    BY DEF Types
  <2>2. PICK S : S = Nat \X Nat \X Nat
    OBVIOUS
  <2>3. printed[c] \in Seq(S) /\ q \in S
    BY <2>1, <2>2
  <2>4. /\ n \in Nat /\ DOMAIN printed[c] = 1..n /\ DOMAIN Append(printed[c], q) = 1..(n + 1)
        /\ Append(printed[c], q)[n + 1] = q
        /\ \A i \in 1..n : Append(printed[c], q)[i] = printed[c][i] /\ printed[c][i] \in S
    BY <2>3
  <2>5. QED
    BY <2>2, <2>4
<1>2. \A m : Answered(c, m)' = Answered(c, m)
  BY SameScript
<1>3. \A i \in 1..n : /\ printed[c][i][1] \in Nat /\ printed[c][i][2] \in Nat /\ printed[c][i][3] \in Nat
                      /\ printed[c][i][3] > 0
                      /\ \/ printed[c][i][1] \in 1..(k - 1) /\ Answered(c, printed[c][i][1])
                            /\ printed[c][i][2] + printed[c][i][3] <= script[c][printed[c][i][1]].reply
                         \/ printed[c][i][1] = k /\ printed[c][i][2] + printed[c][i][3] <= f
  BY <1>1 DEF Prints
<1>4. \A i, j \in 1..n : i < j => Precedes(printed[c][i], printed[c][j])
  BY <1>1 DEF Prints
<1>5. \A i \in 1..n : Precedes(printed[c][i], q)
  <2>1. ASSUME NEW i \in 1..n PROVE printed[c][i][1] < q[1] \/ (printed[c][i][1] = q[1] /\ printed[c][i][2] + printed[c][i][3] <= q[2])
    <3>1. PICK a, b, d : a = printed[c][i][1] /\ b = printed[c][i][2] /\ d = printed[c][i][3]
      OBVIOUS
    <3>2. a \in Nat /\ (a \in 1..(k - 1) \/ (a = k /\ b + d <= f))
      BY <1>3, <3>1
    <3>3. a < k \/ (a = k /\ b + d <= f)
      BY <3>2
    <3>4. QED
      BY <3>1, <3>3
  <2>2. QED
    BY <2>1 DEF Precedes
<1>6. q[1] \in Nat /\ q[2] \in Nat /\ q[3] \in Nat
  OBVIOUS
<1> HIDE DEF n
<1>7. PICK m : m = n + 1
  OBVIOUS
<1>8. \A i \in 1..m : i \in 1..n \/ i = m
  BY <1>1, <1>7
<1>9. ASSUME NEW i \in DOMAIN printed'[c], NEW j \in DOMAIN printed'[c], i < j
      PROVE  Precedes(printed'[c][i], printed'[c][j])
  <2>1. i \in 1..n
    BY <1>1, <1>7, <1>9
  <2>2. CASE j \in 1..n
    BY <1>1, <1>4, <1>9, <2>1, <2>2
  <2>3. CASE j = m
    BY <1>1, <1>5, <1>7, <2>1, <2>3
  <2>4. QED
    BY <1>1, <1>7, <1>8, <2>2, <2>3
<1>10. ASSUME NEW i \in DOMAIN printed'[c]
       PROVE  LET p == printed'[c][i]
              IN /\ p[3] > 0
                 /\ \/ p[1] \in 1..(k - 1) /\ Answered(c, p[1]) /\ p[2] + p[3] <= script[c][p[1]].reply
                    \/ p[1] = k /\ p[2] + p[3] <= f + q[3]
  <2>1. CASE i \in 1..n
    <3>1. printed'[c][i] = printed[c][i]
      BY <1>1, <2>1
    <3>2. \A x \in Nat, y \in Nat : x + y <= f => x + y <= f + q[3]
      BY <1>6
    <3>3. QED
      BY <1>3, <2>1, <3>1, <3>2
  <2>2. CASE i = m
    BY <1>1, <1>6, <1>7, <2>2
  <2>3. QED
    BY <1>1, <1>7, <1>8, <2>1, <2>2
<1>11. \A x, b : Printed(c, x, b) => Printed(c, x, b)'
  BY <1>1 DEF Printed
<1>12. ASSUME NEW b \in 0..((f + q[3]) - 1) PROVE Printed(c, k, b)'
  <2>1. CASE b < f
    <3>1. b \in 0..(f - 1)
      BY <1>6, <2>1
    <3>2. Printed(c, k, b)
      BY <3>1 DEF Prints
    <3>3. QED
      BY <1>11, <3>2
  <2>2. CASE ~(b < f)
    <3>1. n + 1 \in DOMAIN printed'[c]
      BY <1>1
    <3>2. q[2] <= b /\ b < q[2] + q[3]
      BY <1>6, <2>2
    <3>3. QED
      BY <1>1, <3>1, <3>2 DEF Printed
  <2>3. QED
    BY <2>1, <2>2
<1>13. \A x \in 1..(k - 1) : Answered(c, x) => \A b \in 0..(script[c][x].reply - 1) : Printed(c, x, b)'
  BY <1>11 DEF Prints
<1>14. QED
  BY <1>2, <1>9, <1>10, <1>12, <1>13 DEF Prints

LEMMA PrintWhole ==
  ASSUME script' = script, NEW c, NEW k \in Nat \ {0}, Answered(c, k),
         NEW r, r = script[c][k].reply, Prints(c, k, r)'
  PROVE  Prints(c, k + 1, 0)'
<1>1. (k + 1) - 1 = k
  OBVIOUS
<1>2. \A m : Answered(c, m)' = Answered(c, m)
  BY SameScript
<1>3. \A i, j \in DOMAIN printed'[c] : i < j => Precedes(printed'[c][i], printed'[c][j])
  BY DEF Prints
<1>4. \A i \in DOMAIN printed'[c] : LET p == printed'[c][i]
                                   IN p[3] > 0 /\ p[1] \in 1..k /\ Answered(c, p[1]) /\ p[2] + p[3] <= script[c][p[1]].reply
  <2>1. 1..(k - 1) \subseteq 1..k /\ k \in 1..k
    OBVIOUS
  <2>2. QED
    BY <1>2, <2>1 DEF Prints
<1>5. \A m \in 1..k : Answered(c, m) => \A b \in 0..(script[c][m].reply - 1) : Printed(c, m, b)'
  <2>1. \A m \in 1..k : m \in 1..(k - 1) \/ m = k
    OBVIOUS
  <2>2. QED
    BY <1>2, <2>1 DEF Prints
<1>6. \A b \in 0..(0 - 1) : Printed(c, k + 1, b)'
  OBVIOUS
<1>7. QED
  BY <1>1, <1>2, <1>3, <1>4, <1>5, <1>6 DEF Prints

LEMMA Shorter ==
  ASSUME NEW S, NEW t \in Seq(S), NEW x \in Seq(S), Len(t) >= 2
  PROVE  /\ SubSeq(t, 3, Len(t)) \in Seq(S)
         /\ SubSeq(t, 3, Len(t)) \o x \in Seq(S)
         /\ Len(SubSeq(t, 3, Len(t)) \o x) = Len(t \o x) - 2 /\ Len(t \o x) \in Nat /\ Len(t \o x) >= 2
         /\ \A i \in 1..(Len(t \o x) - 2) : (SubSeq(t, 3, Len(t)) \o x)[i] = (t \o x)[i + 2]
         /\ (t \o x)[1] = t[1] /\ (t \o x)[2] = t[2]
<1> DEFINE u == SubSeq(t, 3, Len(t))
<1>1. Len(t) \in Nat /\ Len(x) \in Nat
  OBVIOUS
<1>2. /\ u \in Seq(S) /\ Len(u) = Len(t) - 2
      /\ \A i \in 1..(Len(t) - 2) : u[i] = t[i + 2]
  <2>1. \A i \in 3..Len(t) : t[i] \in S
    OBVIOUS
  <2>2. /\ u \in Seq(S)
        /\ Len(u) = IF 3 <= Len(t) THEN Len(t) - 3 + 1 ELSE 0
        /\ \A i \in 1..(Len(t) - 3 + 1) : u[i] = t[3 + i - 1]
    BY <1>1, <2>1, SubSeqProperties
  <2>3. Len(u) = Len(t) - 2
    <3>1. \A l \in Nat : l >= 2 => (IF 3 <= l THEN l - 3 + 1 ELSE 0) = l - 2
      OBVIOUS
    <3> HIDE DEF u
    <3>2. QED
      BY <1>1, <2>2, <3>1
  <2>4. ASSUME NEW i \in 1..(Len(t) - 2) PROVE u[i] = t[i + 2]
    <3>1. i \in 1..(Len(t) - 3 + 1) /\ 3 + i - 1 = i + 2
      BY <1>1
    <3>2. QED
      BY <2>2, <3>1
  <2>5. QED
    BY <2>2, <2>3, <2>4
<1> HIDE DEF u
<1>3. /\ u \o x \in Seq(S) /\ Len(u \o x) = Len(u) + Len(x)
      /\ \A i \in 1..Len(u) + Len(x) : (u \o x)[i] = IF i <= Len(u) THEN u[i] ELSE x[i - Len(u)]
  BY <1>2, ConcatProperties
<1>4. /\ t \o x \in Seq(S) /\ Len(t \o x) = Len(t) + Len(x)
      /\ \A i \in 1..Len(t) + Len(x) : (t \o x)[i] = IF i <= Len(t) THEN t[i] ELSE x[i - Len(t)]
  BY ConcatProperties
<1>5. ASSUME NEW i \in 1..(Len(t \o x) - 2) PROVE (u \o x)[i] = (t \o x)[i + 2]
  <2>1. i \in 1..Len(u) + Len(x) /\ i + 2 \in 1..Len(t) + Len(x)
    BY <1>1, <1>2, <1>4
  <2>2. CASE i <= Len(u)
    <3>1. i \in 1..(Len(t) - 2) /\ i + 2 <= Len(t)
      BY <1>1, <1>2, <2>1, <2>2
    <3>2. QED
      BY <1>2, <1>3, <1>4, <2>1, <2>2, <3>1
  <2>3. CASE ~(i <= Len(u))
    <3>1. ~(i + 2 <= Len(t)) /\ i - Len(u) = (i + 2) - Len(t)
      BY <1>1, <1>2, <2>1, <2>3
    <3>2. QED
      BY <1>3, <1>4, <2>1, <2>3, <3>1
  <2>4. QED
    BY <2>2, <2>3
<1>6. (t \o x)[1] = t[1] /\ (t \o x)[2] = t[2]
  <2>1. 1 \in 1..Len(t) + Len(x) /\ 2 \in 1..Len(t) + Len(x) /\ 1 <= Len(t) /\ 2 <= Len(t)
    BY <1>1
  <2>2. QED
    BY <1>4, <2>1
<1>7. Len(u \o x) = Len(t \o x) - 2 /\ Len(t \o x) \in Nat /\ Len(t \o x) >= 2
  BY <1>1, <1>2, <1>3, <1>4
<1>8. QED
  BY <1>2, <1>3, <1>5, <1>6, <1>7 DEF u

LEMMA Downs ==
  ASSUME Types, Server, NEW c \in Clients
  PROVE  /\ toClient[c] \in Seq(ReplyUnits(c))
         /\ (IF c \in serving THEN replies ELSE <<>>) \in Seq(ReplyUnits(c))
         /\ Down(c) \in Seq(ReplyUnits(c))
         /\ Down(c) = <<>> <=> toClient[c] = <<>> /\ (c \in serving => replies = <<>>)
<1>1. toClient[c] \in Seq(ReplyUnits(c))
  BY DEF Types
<1>2. (IF c \in serving THEN replies ELSE <<>>) \in Seq(ReplyUnits(c))
  BY DEF Server
<1>3. QED
  BY <1>1, <1>2, ConcatProperties, ConcatEqualIffEmpty, ConcatEmptySeq DEF Down

LEMMA Rests ==
  ASSUME NEW S, NEW s \in Seq(S), NEW n \in Nat, Len(s) = 2 * n, NEW j \in 0..n
  PROVE  /\ Rest(s, j) \in Seq(S) /\ Len(Rest(s, j)) = 2 * (n - j)
         /\ \A u \in 1..2 * (n - j) : Rest(s, j)[u] = s[u + 2 * j]
<1>1. Len(s) - 2 * j = 2 * (n - j) /\ 2 * (n - j) \in Nat
  OBVIOUS
<1>2. \A u \in 1..2 * (n - j) : u + 2 * j \in 1..Len(s) /\ s[u + 2 * j] \in S
  OBVIOUS
<1>3. Rest(s, j) = [u \in 1..2 * (n - j) |-> s[u + 2 * j]]
  BY <1>1 DEF Rest
<1>4. Rest(s, j) \in [1..2 * (n - j) -> S]
  BY <1>2, <1>3
<1>5. QED
  BY <1>1, <1>3, <1>4

LEMMA ReceiveFacts ==
  ASSUME ProtocolInv, NEW c \in Clients, Receive(c)
  PROVE  /\ Up(c) = <<>> /\ at[c] \in DOMAIN script[c] /\ Answered(c, at[c]) /\ ~Cut(c)
         /\ printed'[c] \in Seq(Nat \X Nat \X Nat) /\ printed'[c] = Append(printed[c], toClient[c][2].note)
         /\ toClient'[c] \in Seq(ReplyUnits(c))
         /\ \E k, f, j \in Nat :
              /\ k = at[c] /\ Prints(c, k, f)'
              /\ j \in 0..(Len(Reply(c, k)) \div 2) /\ f = Upto(Reply(c, k), j) /\ Down(c)' = Rest(Reply(c, k), j)
              /\ toClient[c][1].last => f = script[c][k].reply /\ Down(c)' = <<>>
<1>1. /\ cpc[c] = "wait" /\ Len(toClient[c]) >= 2
      /\ printed' = [printed EXCEPT ![c] = Append(@, toClient[c][2].note)]
      /\ toClient' = [toClient EXCEPT ![c] = SubSeq(@, 3, Len(@))]
      /\ UNCHANGED <<script, serving, replies>>
  BY DEF Receive, serverVars
<1>2. PICK k : k = at[c]
  OBVIOUS
<1>3. PICK s, x, t : s = Reply(c, k) /\ x = (IF c \in serving THEN replies ELSE <<>>) /\ t = toClient[c]
  OBVIOUS
<1>4. Types /\ Server /\ script \in Scripts /\ k \in Nat \ {0} /\ k \in DOMAIN script[c] /\ Answered(c, k)
  <2>1. k \in Nat \ {0} /\ k <= Len(script[c]) /\ Answered(c, k)
    BY <1>1, <1>2 DEF ProtocolInv, Types, Client, ClientFits
  <2>2. script[c] \in Seq(Commands)
    BY ScriptsTyped DEF ProtocolInv, Types
  <2>3. QED
    BY <2>1, <2>2 DEF ProtocolInv, Types
<1>5. PICK n \in Nat : /\ s \in Seq(ReplyUnits(c)) /\ Len(s) = 2 * n
                       /\ \A j \in 1..n : ChunkOf(s, j, k, script[c][k].reply)
  BY <1>3, <1>4, ReplySplit
<1>6. t \in Seq(ReplyUnits(c)) /\ x \in Seq(ReplyUnits(c)) /\ Down(c) = t \o x /\ Len(t) >= 2
  BY <1>1, <1>3, <1>4, Downs DEF Down
<1>7. Up(c) = <<>> /\ ~Cut(c) /\ \E j \in 0..(Len(s) \div 2) : HalfWay(c, j)
  <2>1. Down(c) # <<>>
    BY <1>6, Shorter, EmptySeq
  <2>2. QED
    BY <1>1, <1>2, <1>3, <2>1 DEF ProtocolInv, Client, Answering
<1>8. Len(s) \div 2 = n
  BY <1>5
<1>9. PICK j \in 0..n : Prints(c, k, Upto(s, j)) /\ t \o x = Rest(s, j)
  BY <1>2, <1>3, <1>6, <1>7, <1>8 DEF HalfWay
<1>10. /\ Rest(s, j) \in Seq(ReplyUnits(c)) /\ Len(Rest(s, j)) = 2 * (n - j)
       /\ \A u \in 1..2 * (n - j) : Rest(s, j)[u] = s[u + 2 * j]
  BY <1>5, Rests
<1> DEFINE i == j + 1
           y == SubSeq(t, 3, Len(t)) \o x
<1>11. /\ y \in Seq(ReplyUnits(c)) /\ SubSeq(t, 3, Len(t)) \in Seq(ReplyUnits(c))
       /\ Len(y) = Len(t \o x) - 2 /\ Len(t \o x) >= 2
       /\ \A u \in 1..(Len(t \o x) - 2) : y[u] = (t \o x)[u + 2]
       /\ (t \o x)[1] = t[1] /\ (t \o x)[2] = t[2]
  <2>1. PICK S : S = ReplyUnits(c)
    OBVIOUS
  <2>2. t \in Seq(S) /\ x \in Seq(S) /\ Len(t) >= 2
    BY <1>6, <2>1
  <2>3. /\ SubSeq(t, 3, Len(t)) \in Seq(S)
        /\ SubSeq(t, 3, Len(t)) \o x \in Seq(S)
        /\ Len(SubSeq(t, 3, Len(t)) \o x) = Len(t \o x) - 2 /\ Len(t \o x) \in Nat /\ Len(t \o x) >= 2
        /\ \A u \in 1..(Len(t \o x) - 2) : (SubSeq(t, 3, Len(t)) \o x)[u] = (t \o x)[u + 2]
        /\ (t \o x)[1] = t[1] /\ (t \o x)[2] = t[2]
    BY <2>2, Shorter, SMTT(30)
  <2>4. QED
    BY <2>1, <2>3
<1> HIDE DEF y
<1>12. j < n /\ i \in 1..n /\ i \in 0..n /\ 1 \in 1..2 * (n - j) /\ 2 \in 1..2 * (n - j) /\ 1 + 2 * j = 2 * i - 1 /\ 2 + 2 * j = 2 * i
       /\ 2 * (n - j) - 2 = 2 * (n - i) /\ i - 1 = j /\ j # i
  BY <1>9, <1>10, <1>11
<1>13. t[1] = s[2 * i - 1] /\ t[2] = s[2 * i]
  BY <1>9, <1>10, <1>11, <1>12
<1>14. /\ t[2].note \in Nat \X Nat \X Nat /\ t[2].note[1] = k /\ t[2].note[2] = Upto(s, j) /\ t[2].note[3] > 0
       /\ t[2].note[2] + t[2].note[3] = Upto(s, i)
       /\ t[1].last => i = n /\ Upto(s, i) = script[c][k].reply
  <2>1. ChunkOf(s, i, k, script[c][k].reply)
    BY <1>5, <1>12
  <2>2. Upto(s, i) = s[2 * i].note[2] + s[2 * i].note[3]
    BY <1>12 DEF Upto
  <2>3. 2 * i = Len(s) => i = n
    BY <1>5, <1>12
  <2>4. QED
    BY <1>12, <1>13, <2>1, <2>2, <2>3 DEF ChunkOf
<1>15. y = Rest(s, i)
  <2>1. /\ Rest(s, i) \in Seq(ReplyUnits(c)) /\ Len(Rest(s, i)) = 2 * (n - i)
        /\ \A u \in 1..2 * (n - i) : Rest(s, i)[u] = s[u + 2 * i]
    BY <1>5, <1>12, Rests
  <2>2. Len(y) = 2 * (n - i)
    BY <1>9, <1>10, <1>11, <1>12
  <2>3. ASSUME NEW u \in 1..2 * (n - i) PROVE y[u] = Rest(s, i)[u]
    <3>1. u \in 1..(Len(t \o x) - 2) /\ u + 2 \in 1..2 * (n - j) /\ (u + 2) + 2 * j = u + 2 * i
      BY <1>9, <1>10, <1>12
    <3>2. y[u] = s[(u + 2) + 2 * j]
      BY <1>9, <1>10, <1>11, <3>1
    <3>3. QED
      BY <2>1, <3>1, <3>2
  <2>4. QED
    BY <1>11, <2>1, <2>2, <2>3, SeqEqual
<1> HIDE DEF i
<1>16. toClient'[c] = SubSeq(t, 3, Len(t)) /\ Down(c)' = y /\ printed'[c] = Append(printed[c], t[2].note)
  <2>1. toClient'[c] = SubSeq(t, 3, Len(t)) /\ printed'[c] = Append(printed[c], t[2].note)
    BY <1>1, <1>3 DEF ProtocolInv, Types
  <2>2. QED
    BY <1>1, <1>3, <2>1 DEF Down, y
<1>17. Prints(c, k, Upto(s, i))'
  <2>1. Upto(s, j) \in Nat
    BY <1>14
  <2>2. PICK f, q : f = Upto(s, j) /\ q = t[2].note
    OBVIOUS
  <2>3. Prints(c, k, f + q[3])'
    BY <1>1, <1>4, <1>9, <1>14, <1>16, <2>1, <2>2, PrintMore
  <2>4. f + q[3] = Upto(s, i)
    BY <1>14, <2>2
  <2>5. QED
    BY <2>3, <2>4
<1>18. Upto(s, i) \in Nat
  BY <1>14
<1>19. t[1].last => y = <<>>
  <2>1. SUFFICES ASSUME i = n PROVE y = <<>>
    BY <1>14
  <2>2. Len(y) = 0
    <3>1. Len(y) = 2 * (n - i)
      BY <1>9, <1>10, <1>11, <1>12
    <3>2. n - i = 0
      BY <1>12, <2>1
    <3>3. QED
      BY <3>1, <3>2
  <2>3. QED
    BY <1>11, <2>2, EmptySeq
<1>20. printed'[c] \in Seq(Nat \X Nat \X Nat)
  BY <1>4, <1>14, <1>16 DEF Types
<1>21. \E h, f, l \in Nat :
         /\ h = at[c] /\ Prints(c, h, f)'
         /\ l \in 0..(Len(Reply(c, h)) \div 2) /\ f = Upto(Reply(c, h), l) /\ Down(c)' = Rest(Reply(c, h), l)
         /\ toClient[c][1].last => f = script[c][h].reply /\ Down(c)' = <<>>
  <2>1. PICK f : f = Upto(s, i)
    OBVIOUS
  <2>2. k \in Nat /\ f \in Nat /\ i \in Nat /\ i \in 0..(Len(s) \div 2)
    BY <1>4, <1>8, <1>12, <1>18, <2>1
  <2>3. Prints(c, k, f)' /\ Down(c)' = Rest(s, i)
    BY <1>15, <1>16, <1>17, <2>1
  <2>4. t[1].last => f = script[c][k].reply /\ Down(c)' = <<>>
    BY <1>14, <1>16, <1>19, <2>1
  <2>5. QED
    BY <1>2, <1>3, <2>1, <2>2, <2>3, <2>4
<1>22. QED
  BY <1>2, <1>3, <1>4, <1>7, <1>11, <1>16, <1>20, <1>21

LEMMA EmptyStream ==
  ASSUME NEW c, Up(c)' = <<>>
  PROVE  Stream(c)'
<1>1. PICK w : w = [i \in 1..0 |-> <<1, 1>>]
  OBVIOUS
<1>2. Len(Up(c)') = 0
  BY EmptySeq
<1>3. (w \in [1..Len(Up(c)) -> Places(c)])'
  BY <1>1, <1>2
<1>4. Along(c, w)'
  BY <1>2, <1>3 DEF Along
<1>5. QED
  BY <1>3, <1>4 DEF Stream, Lies

LEMMA ReceiveKeeps ==
  ASSUME ProtocolInv, NEW c \in Clients, Receive(c)
  PROVE  ProtocolInv'
<1> DEFINE Over == toClient[c][1].last
<1>1. /\ cpc[c] = "wait"
      /\ printed' = [printed EXCEPT ![c] = Append(@, toClient[c][2].note)]
      /\ toClient' = [toClient EXCEPT ![c] = SubSeq(@, 3, Len(@))]
      /\ UNCHANGED <<script, outbox, reset, deaths, backlog, toServer, spc, serving, hdr, replies, stop>>
      /\ Over => cpc' = [cpc EXCEPT ![c] = "idle"] /\ at' = [at EXCEPT ![c] = @ + 1]
      /\ ~Over => cpc' = cpc /\ at' = at
  BY DEF Receive, NextCommand, serverVars
<1>2. /\ Up(c) = <<>> /\ at[c] \in DOMAIN script[c] /\ Answered(c, at[c]) /\ ~Cut(c) /\ ~Cut(c)'
      /\ printed'[c] \in Seq(Nat \X Nat \X Nat) /\ toClient'[c] \in Seq(ReplyUnits(c))
  BY <1>1, ReceiveFacts DEF Cut
<1>3. PICK k, f, j \in Nat :
              /\ k = at[c] /\ Prints(c, k, f)'
              /\ j \in 0..(Len(Reply(c, k)) \div 2) /\ f = Upto(Reply(c, k), j) /\ Down(c)' = Rest(Reply(c, k), j)
              /\ Over => f = script[c][k].reply /\ Down(c)' = <<>>
  BY ReceiveFacts
<1>4. Types /\ at[c] \in Nat \ {0} /\ at[c] <= Len(script[c]) /\ outbox[c] = <<>>
  BY <1>1 DEF ProtocolInv, Types, Client, ClientFits
<1>5. /\ Over => cpc'[c] = "idle" /\ at'[c] = at[c] + 1
      /\ ~Over => cpc'[c] = "wait" /\ at'[c] = at[c]
  BY <1>1 DEF ProtocolInv, Types
<1>6. Types'
  <2>1. \A d : SentUnits(d)' = SentUnits(d) /\ ReplyUnits(d)' = ReplyUnits(d)
    BY <1>1, SameScript
  <2>2. at' \in [Clients -> Nat \ {0}] /\ \A d \in Clients : at'[d] <= Len(script[d]) + 1
    <3>1. \A d \in Clients : Len(script[d]) \in Nat
      BY ScriptsTyped DEF ProtocolInv, Types
    <3>2. at \in [Clients -> Nat \ {0}] /\ \A d \in Clients : at[d] <= Len(script[d]) + 1
      BY <1>4 DEF Types
    <3>3. CASE ~Over
      BY <1>1, <3>2, <3>3
    <3>4. CASE Over
      <4>1. at'[c] = at[c] + 1 /\ \A d \in Clients \ {c} : at'[d] = at[d]
        BY <1>1, <3>2, <3>4
      <4>2. at' \in [Clients -> Nat \ {0}]
        BY <1>1, <3>2, <3>4
      <4>3. at'[c] <= Len(script[c]) + 1
        BY <1>4, <3>1, <4>1
      <4>4. QED
        BY <3>2, <4>1, <4>2, <4>3
    <3>5. QED
      BY <3>3, <3>4
  <2>3. cpc' \in [Clients -> {"start", "idle", "send", "wait", "closed"}]
    BY <1>1 DEF ProtocolInv, Types
  <2>4. printed' \in [Clients -> Seq(Nat \X Nat \X Nat)]
    BY <1>1, <1>2 DEF ProtocolInv, Types
  <2>5. DOMAIN toClient' = Clients /\ \A d \in Clients : toClient'[d] \in Seq(ReplyUnits(d))
    BY <1>1, <1>2 DEF ProtocolInv, Types
  <2>6. QED
    BY <1>1, <2>1, <2>2, <2>3, <2>4, <2>5 DEF ProtocolInv, Types
<1>7. ByClient(c)
  BY <1>1, <1>5 DEF ByClient, ProtocolInv, Types
<1>8. Up(c)' = <<>>
  BY <1>1, <1>2 DEF Up
<1>9. Drained(c)'
  <2>1. ~Unserved(c)
    BY <1>1, <1>2 DEF ProtocolInv, Client, Drained
  <2>2. ~Unserved(c)'
    BY <1>1, <1>5, <2>1 DEF Unserved
  <2>3. c \in serving => /\ spc \notin {"payload", "chunk", "csvheader"}
                         /\ spc \in {"header", "reply"} /\ c \notin deaths => hdr.status = "OK"
    BY <1>1, <1>2 DEF ProtocolInv, Client, Drained, Quiet
  <2>4. QED
    BY <1>1, <2>2, <2>3 DEF Drained, Quiet
<1>10. ClientFits(c)'
  <2>1. c \in reset' => c \in deaths' \/ ServerGone'
    BY <1>1 DEF ProtocolInv, Client, ClientFits, ServerGone
  <2>2. QED
    BY <1>1, <1>2, <1>4, <1>5, <2>1, SameScript DEF ClientFits
<1>11. Answering(c)'
  <2>1. CASE Over
    <3>1. Prints(c, k + 1, 0)'
      BY <1>1, <1>2, <1>3, <1>4, <2>1, PrintWhole
    <3>2. k + 1 = at'[c] /\ Down(c)' = <<>> /\ cpc'[c] = "idle"
      BY <1>3, <1>5, <2>1
    <3>3. Prints(c, at[c], 0)'
      BY <3>1, <3>2 DEF Prints
    <3>4. QED
      BY <3>2, <3>3 DEF Answering
  <2>2. CASE ~Over
    <3>1. cpc'[c] = "wait" /\ k = at'[c] /\ Reply(c, k)' = Reply(c, k)
      BY <1>1, <1>3, <1>5, <2>2, SameScript
    <3>2. PICK s : s = Reply(c, k)
      OBVIOUS
    <3>3. Reply(c, at[c])' = s
      BY <1>1, <3>1, <3>2 DEF Reply
    <3>4. Prints(c, at[c], Upto(s, j))'
      BY <1>3, <3>1, <3>2 DEF Prints
    <3>5. HalfWay(c, j)'
      BY <1>3, <3>2, <3>3, <3>4 DEF HalfWay
    <3>6. (\E l \in 0..(Len(Reply(c, at[c])) \div 2) : HalfWay(c, l))'
      BY <1>3, <3>2, <3>3, <3>5
    <3>7. QED
      BY <1>2, <1>8, <3>1, <3>6 DEF Answering
  <2>3. QED
    BY <2>1, <2>2
<1>12. Client(c)'
  BY <1>8, <1>9, <1>10, <1>11, EmptyStream DEF Client
<1>13. Server'
  BY <1>1, <1>5, <1>7, ClientServer
<1>14. QED
  BY <1>2, <1>6, <1>7, <1>12, <1>13, ClientAlone DEF ProtocolInv

LEMMA ShutKeeps ==
  ASSUME ProtocolInv, NEW c \in Clients, Shut(c), cpc[c] \in {"idle", "send", "wait"},
         UNCHANGED <<script, at, outbox, printed, backlog, toServer, toClient, serverVars>>,
         deaths' = deaths \/ deaths' = deaths \cup {c},
         cpc[c] = "idle" \/ ServerGone \/ c \in deaths'
  PROVE  ProtocolInv'
<1>1. UNCHANGED <<spc, serving, hdr, replies, stop>> /\ ServerGone' = ServerGone
  BY DEF serverVars, ServerGone
<1>2. cpc'[c] = "closed" /\ cpc' = [cpc EXCEPT ![c] = "closed"] /\ deaths \subseteq deaths' /\ deaths' \subseteq Clients
      /\ reset' = (IF toClient[c] = <<>> THEN reset ELSE reset \cup {c})
  BY DEF Shut, ProtocolInv, Types
<1>3. Types /\ Types'
  <2>1. \A d : SentUnits(d)' = SentUnits(d) /\ ReplyUnits(d)' = ReplyUnits(d)
    BY SameScript
  <2>2. reset' \subseteq Clients
    BY <1>2 DEF ProtocolInv, Types
  <2>3. QED
    BY <1>1, <1>2, <2>1, <2>2 DEF ProtocolInv, Types
<1>4. ByClient(c)
  BY <1>1, <1>2 DEF ByClient, ProtocolInv, Types
<1>5. Up(c)' = Up(c) /\ Down(c)' = Down(c) /\ (Unserved(c)' => Unserved(c))
  BY <1>1, <1>2 DEF Up, Down, Unserved
<1>6. ClientFits(c) /\ (cpc[c] = "idle" => Down(c) = <<>> /\ toClient[c] = <<>>)
  BY Downs DEF ProtocolInv, Client, Answering
<1>7. Stream(c)'
  <2>1. ASSUME NEW p \in Places(c), Starts(c, p) PROVE Starts(c, p)'
    BY <1>1, <1>5, <2>1, SameScript DEF Starts
  <2>2. ASSUME NEW p \in Places(c), Ends(c, p) PROVE Ends(c, p)'
    <3>1. Sent(c, p[1])' = Sent(c, p[1]) /\ Answered(c, at[c])' = Answered(c, at[c])
      BY DEF Sent, Answered
    <3>2. \/ p[1] = at[c] /\ (outbox[c] # <<>> \/ Answered(c, at[c]))
          \/ p[1] + 1 = at[c] /\ outbox[c] = <<>>
      BY <1>6, <2>2 DEF Ends, ClientFits
    <3>3. ~ServerGone /\ c \notin deaths' => p[1] + 1 = at[c]
      BY <2>2 DEF Ends
    <3>4. QED
      BY <1>1, <1>2, <2>2, <3>1, <3>2, <3>3 DEF Ends
  <2>3. QED
    BY <1>3, <1>5, <2>1, <2>2, SameStream DEF ProtocolInv, Client
<1>8. Drained(c)'
  BY <1>1, <1>2, <1>5 DEF ProtocolInv, Client, Drained, Quiet
<1>9. ClientFits(c)'
  <2>1. ~ServerGone /\ c \notin deaths' => outbox[c] = <<>> /\ Down(c) = <<>>
    BY <1>6 DEF ClientFits
  <2>2. c \in reset' => c \in deaths' \/ ServerGone
    BY <1>2, <1>6 DEF ClientFits
  <2>3. QED
    BY <1>1, <1>2, <1>5, <2>1, <2>2 DEF ClientFits
<1>10. Answering(c)'
  BY <1>2 DEF Answering
<1>11. Client(c)'
  BY <1>7, <1>8, <1>9, <1>10 DEF Client
<1>12. Server'
  BY <1>2, <1>4, ClientServer
<1>13. QED
  BY <1>3, <1>4, <1>11, <1>12, ClientAlone DEF ProtocolInv

LEMMA CloseKeeps ==
  ASSUME ProtocolInv, NEW c \in Clients, Close(c)
  PROVE  ProtocolInv'
BY ShutKeeps DEF Close

LEMMA DieKeeps ==
  ASSUME ProtocolInv, NEW c \in Clients, Die(c)
  PROVE  ProtocolInv'
BY ShutKeeps DEF Die

-----------------------------------------------------------------------------
(* What the server takes from a stream. *)

LEMMA Dropped ==
  ASSUME NEW S, NEW t \in Seq(S), NEW o \in Seq(S), t # <<>>
  PROVE  /\ Tail(t) \in Seq(S) /\ Tail(t) \o o \in Seq(S)
         /\ Len(t \o o) \in Nat \ {0} /\ Len(Tail(t) \o o) = Len(t \o o) - 1
         /\ \A i \in 1..(Len(t \o o) - 1) : (Tail(t) \o o)[i] = (t \o o)[i + 1]
<1>1. PICK a : a = Tail(t)
  OBVIOUS
<1>2. a \in Seq(S) /\ Len(t) \in Nat \ {0} /\ Len(o) \in Nat /\ Len(a) = Len(t) - 1 /\ \A i \in 1..Len(a) : a[i] = t[i + 1]
  BY <1>1, HeadTailProperties, EmptySeq
<1>3. /\ a \o o \in Seq(S) /\ Len(a \o o) = Len(a) + Len(o)
      /\ \A i \in 1..Len(a) + Len(o) : (a \o o)[i] = IF i <= Len(a) THEN a[i] ELSE o[i - Len(a)]
  BY <1>2, ConcatProperties
<1>4. /\ t \o o \in Seq(S) /\ Len(t \o o) = Len(t) + Len(o)
      /\ \A i \in 1..Len(t) + Len(o) : (t \o o)[i] = IF i <= Len(t) THEN t[i] ELSE o[i - Len(t)]
  BY ConcatProperties
<1>5. PICK m, n \in Nat : m = Len(a) /\ n = Len(o) /\ Len(t) = m + 1
  BY <1>2
<1>6. ASSUME NEW i \in 1..m + n PROVE (a \o o)[i] = (t \o o)[i + 1]
  <2>1. i + 1 \in 1..(m + 1) + n /\ i \in Nat
    OBVIOUS
  <2>2. CASE i <= m
    <3>1. i \in 1..m /\ i + 1 <= m + 1
      BY <2>2
    <3>2. QED
      BY <1>2, <1>3, <1>4, <1>5, <2>1, <2>2, <3>1
  <2>3. CASE ~(i <= m)
    <3>1. ~(i + 1 <= m + 1) /\ (i + 1) - (m + 1) = i - m
      BY <2>3
    <3>2. QED
      BY <1>3, <1>4, <1>5, <2>1, <2>3, <3>1
  <2>4. QED
    BY <2>2, <2>3
<1>7. Len(t \o o) = (m + n) + 1 /\ Len(a \o o) = m + n /\ Len(t \o o) - 1 = m + n
  BY <1>3, <1>4, <1>5
<1>8. QED
  BY <1>1, <1>2, <1>3, <1>6, <1>7

LEMMA Consumed ==
  ASSUME ProtocolInv, NEW c \in Clients, toServer[c] # <<>>, toServer' = [toServer EXCEPT ![c] = Tail(@)],
         UNCHANGED <<clientVars, deaths>>, ServerGone => ServerGone'
  PROVE  /\ toServer'[c] \in Seq(SentUnits(c)) /\ Up(c) # <<>>
         /\ \E p \in Places(c) :
              /\ Starts(c, p) /\ Head(toServer[c]) = Sent(c, p[1])[p[2]]
              /\ Up(c)' = <<>> => Ends(c, p)
              /\ Up(c)' # <<>> => Following(c, p) \in Places(c)
              /\ Up(c)' = <<>> \/ Starts(c, Following(c, p))' => Stream(c)'
<1>1. UNCHANGED <<script, at, cpc, outbox>>
  BY DEF clientVars
<1>2. PICK t, o, n : t = toServer[c] /\ o = outbox[c] /\ n = Len(t \o o)
  OBVIOUS
<1>3. PICK S : S = SentUnits(c)
  OBVIOUS
<1>4. Types /\ t \in Seq(S) /\ o \in Seq(S) /\ t # <<>> /\ Up(c) = t \o o /\ toServer'[c] = Tail(t) /\ Up(c)' = Tail(t) \o o
  BY <1>1, <1>2, <1>3, Streams DEF ProtocolInv, Types, Up
<1>5. /\ Tail(t) \in Seq(S) /\ Tail(t) \o o \in Seq(S) /\ n \in Nat \ {0} /\ Len(Tail(t) \o o) = n - 1
      /\ \A i \in 1..(n - 1) : (Tail(t) \o o)[i] = (t \o o)[i + 1]
  <2>1. /\ Tail(t) \in Seq(S) /\ Tail(t) \o o \in Seq(S)
        /\ Len(t \o o) \in Nat \ {0} /\ Len(Tail(t) \o o) = Len(t \o o) - 1
        /\ \A i \in 1..(Len(t \o o) - 1) : (Tail(t) \o o)[i] = (t \o o)[i + 1]
    <3>1. t \in Seq(S) /\ o \in Seq(S) /\ t # <<>>
      BY <1>4
    <3>2. QED
      BY <3>1, Dropped
  <2>2. QED
    BY <1>2, <2>1
<1>6. Up(c) # <<>> /\ Up(c)[1] = Head(t)
  BY <1>2, <1>4, Streams
<1>7. PICK w \in [1..n -> Places(c)] : Lies(c, w)
  BY <1>2, <1>4 DEF ProtocolInv, Client, Stream
<1>8. /\ \A i \in 1..n : Up(c)[i] = Sent(c, w[i][1])[w[i][2]]
      /\ \A i \in 1..(n - 1) : w[i + 1] = Following(c, w[i])
      /\ Starts(c, w[1]) /\ Ends(c, w[n])
  BY <1>2, <1>4, <1>6, <1>7 DEF Lies, Along
<1>9. PICK p : p = w[1]
  OBVIOUS
<1>10. 1 \in 1..n /\ p \in Places(c) /\ Head(t) = Sent(c, p[1])[p[2]] /\ Starts(c, p)
  BY <1>5, <1>6, <1>7, <1>8, <1>9
<1>11. Up(c)' = <<>> <=> n = 1
  <2>1. PICK u : u = Tail(t) \o o
    OBVIOUS
  <2>2. u \in Seq(S) /\ Len(u) = n - 1
    BY <1>5, <2>1
  <2>3. u = <<>> <=> n - 1 = 0
    BY <2>2, EmptySeq
  <2>4. \A m \in Nat \ {0} : m - 1 = 0 <=> m = 1
    OBVIOUS
  <2>5. u = <<>> <=> n = 1
    BY <1>5, <2>3, <2>4, Zenon
  <2>6. QED
    BY <1>4, <2>1, <2>5
<1>12. Up(c)' = <<>> => Ends(c, p)
  BY <1>8, <1>9, <1>11
<1>13. Up(c)' # <<>> => 1 \in 1..(n - 1) /\ w[2] = Following(c, p) /\ w[2] \in Places(c)
  <2>1. \A m \in Nat \ {0} : m # 1 => 1 \in 1..(m - 1) /\ 2 \in 1..m
    OBVIOUS
  <2>2. 1 + 1 = 2
    OBVIOUS
  <2>3. Up(c)' # <<>> => 1 \in 1..(n - 1) /\ 2 \in 1..n
    BY <1>5, <1>11, <2>1, Zenon
  <2>4. Up(c)' # <<>> => w[2] = Following(c, w[1])
    BY <1>8, <2>2, <2>3
  <2>5. QED
    BY <1>7, <1>9, <2>3, <2>4
<1>14. ASSUME Up(c)' = <<>> \/ Starts(c, Following(c, p))' PROVE Stream(c)'
  <2>1. CASE Up(c)' = <<>>
    BY <2>1, EmptyStream
  <2>2. CASE Up(c)' # <<>>
    <3> DEFINE v == [i \in 1..(n - 1) |-> w[i + 1]]
    <3>1. \A i \in 1..(n - 1) : i + 1 \in 1..n
      BY <1>5
    <3>2. v \in [1..(n - 1) -> Places(c)] /\ \A i \in 1..(n - 1) : v[i] = w[i + 1]
      BY <1>7, <3>1
    <3> HIDE DEF v
    <3>3. Places(c)' = Places(c) /\ Len(Up(c)') = n - 1 /\ (n - 1) + 1 = n /\ n - 1 \in 1..(n - 1)
      <4>1. Places(c)' = Places(c)
        BY <1>1, SamePlaces
      <4>2. Len(Up(c)') = n - 1
        BY <1>4, <1>5
      <4>3. n # 1
        BY <1>11, <2>2
      <4>4. \A m \in Nat \ {0} : m # 1 => (m - 1) + 1 = m /\ m - 1 \in 1..(m - 1)
        OBVIOUS
      <4>5. QED
        BY <1>5, <4>1, <4>2, <4>3, <4>4, Zenon
    <3>4. \A i \in 1..(n - 1) : Up(c)'[i] = Sent(c, v[i][1])'[v[i][2]]
      <4>1. SUFFICES ASSUME NEW i \in 1..(n - 1) PROVE Up(c)'[i] = Sent(c, v[i][1])'[v[i][2]]
        OBVIOUS
      <4>2. Up(c)'[i] = Up(c)[i + 1]
        BY <1>4, <1>5
      <4>3. Up(c)[i + 1] = Sent(c, w[i + 1][1])[w[i + 1][2]]
        BY <1>8, <3>1
      <4>4. v[i] = w[i + 1]
        BY <3>2
      <4>5. PICK q : q = v[i]
        OBVIOUS
      <4>6. Sent(c, q[1])' = Sent(c, q[1])
        BY <1>1, SameScript
      <4>7. QED
        BY <4>2, <4>3, <4>4, <4>5, <4>6
    <3>5. \A i \in 1..((n - 1) - 1) : v[i + 1] = Following(c, v[i])'
      <4>1. SUFFICES ASSUME NEW i \in 1..((n - 1) - 1) PROVE v[i + 1] = Following(c, v[i])'
        OBVIOUS
      <4>2. i \in 1..(n - 1) /\ i + 1 \in 1..(n - 1)
        BY <1>5
      <4>3. v[i + 1] = w[(i + 1) + 1] /\ v[i] = w[i + 1]
        BY <3>2, <4>2
      <4>4. PICK q : q = v[i]
        OBVIOUS
      <4>5. Following(c, q)' = Following(c, q)
        BY <1>1, SameScript
      <4>6. v[i + 1] = Following(c, q)
        BY <1>8, <4>2, <4>3, <4>4
      <4>7. QED
        BY <4>4, <4>5, <4>6
    <3>6. Along(c, v)'
      BY <3>2, <3>3, <3>4, <3>5 DEF Along
    <3>7. v[1] = Following(c, p) /\ v[n - 1] = w[n]
      BY <1>13, <2>2, <3>2, <3>3
    <3>8. Ends(c, v[n - 1])'
      <4>1. PICK q : q = w[n]
        OBVIOUS
      <4>2. Ends(c, q)'
        BY <1>1, <1>8, <4>1, SameScript DEF Ends
      <4>3. QED
        BY <3>7, <4>1, <4>2 DEF Ends
    <3>9. (Up(c) # <<>> => Starts(c, v[1]) /\ Ends(c, v[Len(Up(c))]))'
      <4>1. PICK a, b : a = v[1] /\ b = v[n - 1]
        OBVIOUS
      <4>2. Starts(c, a)' /\ Ends(c, b)'
        BY <1>1, <1>14, <2>2, <3>7, <3>8, <4>1, SameScript DEF Starts, Ends
      <4>3. a = v[1] /\ b = v[Len(Up(c)')]
        BY <3>3, <4>1
      <4>4. QED
        BY <4>2, <4>3
    <3>10. Lies(c, v)'
      BY <3>6, <3>9 DEF Lies
    <3>11. (v \in [1..Len(Up(c)) -> Places(c)])'
      BY <3>2, <3>3
    <3>12. QED
      BY <3>10, <3>11 DEF Stream
  <2>3. QED
    BY <2>1, <2>2
<1>15. QED
  BY <1>2, <1>3, <1>4, <1>5, <1>6, <1>10, <1>12, <1>13, <1>14

-----------------------------------------------------------------------------
(* The steps of the server. *)

LEMMA Serves ==
  ASSUME ProtocolInv, NEW c \in serving
  PROVE  /\ Types /\ Server /\ Client(c) /\ c \in Clients /\ serving = {c} /\ replies \in Seq(ReplyUnits(c))
         /\ cpc[c] # "start" /\ ~Unserved(c) /\ spc \notin {"accept", "exited"}
<1>1. Types /\ Server /\ c \in Clients /\ serving = {c} /\ cpc[c] # "start" /\ replies \in Seq(ReplyUnits(c))
  BY DEF ProtocolInv, Server
<1>2. \A i \in DOMAIN backlog : backlog[i] # c
  BY <1>1 DEF Server
<1>3. QED
  BY <1>1, <1>2 DEF ProtocolInv, Server, Unserved

LEMMA Quits ==
  ASSUME ProtocolInv, NEW c \in serving, ~ServerGone, Crash, UNCHANGED <<clientVars, backlog, toServer, toClient>>,
         cpc[c] = "closed", c \in deaths \/ at[c] = 1 \/ script[c][at[c] - 1].kind = "load"
  PROVE  ProtocolInv'
<1>1. spc' = "crashed" /\ UNCHANGED <<serving, hdr, replies, stop>>
  BY DEF Crash
<1>2. UNCHANGED <<script, at, cpc, outbox, printed, reset, deaths>>
  BY DEF clientVars
<1>3. Types'
  <2>1. \A d : SentUnits(d)' = SentUnits(d) /\ ReplyUnits(d)' = ReplyUnits(d)
    BY <1>2, SameScript
  <2>2. QED
    BY <1>1, <1>2, <2>1 DEF ProtocolInv, Types
<1>4. Server'
  <2>1. \A d : ReplyUnits(d)' = ReplyUnits(d)
    BY <1>2, SameScript
  <2>2. QED
    BY <1>1, <1>2, <2>1 DEF ProtocolInv, Server
<1>5. ASSUME NEW d \in Clients PROVE Client(d)'
  <2>1. Down(d)' = Down(d) /\ (Unserved(d)' => Unserved(d)) /\ (ServerGone => ServerGone')
    BY <1>1, <1>2 DEF Down, Unserved, ServerGone
  <2>2. ~Cut(d) /\ (Cut(d)' => cpc[d] = "closed")
    BY <1>1, <1>2 DEF Cut, ServerGone, ProtocolInv, Server
  <2>3. QED
    BY <1>1, <1>2, <2>1, <2>2, Untouched DEF ProtocolInv
<1>6. EndsAsKnown'
  BY <1>1, <1>2 DEF EndsAsKnown, Blamed
<1>7. QED
  BY <1>3, <1>4, <1>5, <1>6 DEF ProtocolInv

LEMMA ClientGoneKeeps ==
  ASSUME ProtocolInv, NEW c \in serving, ClientGone(c)
  PROVE  ProtocolInv'
<1>1. /\ spc = "header" /\ toServer[c] = <<>> /\ cpc[c] = "closed" /\ UNCHANGED toServer
      /\ UNCHANGED <<clientVars, backlog, toClient>>
  BY DEF ClientGone, AtEnd, Others
<1>2. Types /\ Server /\ Client(c) /\ c \in Clients /\ serving = {c} /\ ~ServerGone
  BY <1>1, Serves DEF ServerGone
<1>3. CASE c \in reset \/ hdr.status # "OK"
  <2>1. Crash
    BY <1>3 DEF ClientGone
  <2>2. \/ c \in deaths
        \/ at[c] = 1 \/ script[c][at[c] - 1].kind = "load"
    <3>1. CASE c \in reset
      BY <1>2, <3>1 DEF Client, ClientFits
    <3>2. CASE outbox[c] # <<>>
      BY <1>1, <1>2, <3>2 DEF Client, ClientFits
    <3>3. CASE hdr.status # "OK" /\ outbox[c] = <<>>
      <4>1. Up(c) = <<>>
        BY <1>1, <1>2, <3>3, Streams
      <4>2. QED
        BY <1>1, <1>2, <3>3, <4>1 DEF Client, Drained, Quiet
    <3>4. QED
      BY <1>3, <3>1, <3>2, <3>3
  <2>3. QED
    BY <1>1, <1>2, <2>1, <2>2, Quits DEF ServerGone
<1>4. CASE ~(c \in reset \/ hdr.status # "OK")
  <2>1. /\ spc' = (IF stop THEN "exited" ELSE "accept") /\ serving' = {} /\ UNCHANGED <<hdr, replies, stop>>
    BY <1>4 DEF ClientGone
  <2>2. UNCHANGED <<script, at, cpc, outbox, printed, reset, deaths, backlog, toServer, toClient>>
    BY <1>1 DEF clientVars
  <2>3. replies = <<>>
    BY <1>1, <1>2 DEF Server
  <2>4. Types'
    <3>1. \A d : SentUnits(d)' = SentUnits(d) /\ ReplyUnits(d)' = ReplyUnits(d)
      BY <2>2, SameScript
    <3>2. spc' \in {"accept", "exited"}
      BY <2>1
    <3>3. QED
      BY <1>2, <2>1, <2>2, <3>1, <3>2 DEF Types
  <2>5. Server'
    BY <1>2, <2>1, <2>2, <2>3 DEF Server
  <2>6. ASSUME NEW d \in Clients PROVE Client(d)'
    <3>1. Down(d)' = Down(d) /\ (Unserved(d)' => Unserved(d)) /\ (ServerGone => ServerGone') /\ d \notin serving'
      BY <1>2, <2>1, <2>2, <2>3 DEF Down, Unserved
    <3>2. QED
      BY <1>1, <1>2, <2>1, <2>2, <3>1, Untouched DEF ProtocolInv, Cut
  <2>7. EndsAsKnown'
    BY <1>2, <2>1, <2>2 DEF EndsAsKnown, Server
  <2>8. QED
    BY <2>4, <2>5, <2>6, <2>7 DEF ProtocolInv
<1>5. QED
  BY <1>3, <1>4

LEMMA CutOffKeeps ==
  ASSUME ProtocolInv, NEW c \in serving, CutOff(c)
  PROVE  ProtocolInv'
<1>1. /\ spc \in {"payload", "chunk", "csvheader"} /\ toServer[c] = <<>> /\ cpc[c] = "closed"
      /\ Crash /\ UNCHANGED <<clientVars, backlog, toServer, toClient>>
  BY DEF CutOff, AtEnd, Others
<1>2. Types /\ Client(c) /\ c \in Clients /\ ~ServerGone
  BY <1>1, Serves DEF ServerGone
<1>3. Up(c) # <<>>
  BY <1>1, <1>2 DEF Client, Drained
<1>4. outbox[c] # <<>>
  BY <1>1, <1>2, <1>3, Streams
<1>5. c \in deaths
  BY <1>1, <1>2, <1>4 DEF Client, ClientFits
<1>6. QED
  BY <1>1, <1>2, <1>5, Quits

LEMMA SendReplyKeeps ==
  ASSUME ProtocolInv, NEW c \in serving, SendReply(c)
  PROVE  ProtocolInv'
<1>1. spc = "reply" /\ UNCHANGED <<clientVars, backlog, toServer>>
  BY DEF SendReply
<1>2. Types /\ Server /\ Client(c) /\ c \in Clients /\ serving = {c} /\ replies \in Seq(ReplyUnits(c)) /\ ~ServerGone
  BY <1>1, Serves DEF ServerGone
<1>3. UNCHANGED <<script, at, cpc, outbox, printed, reset, deaths>>
  BY <1>1 DEF clientVars
<1>4. CASE replies # <<>> /\ cpc[c] = "closed"
  <2>1. Crash /\ UNCHANGED toClient
    BY <1>4 DEF SendReply
  <2>2. Down(c) # <<>>
    BY <1>2, <1>4, Downs
  <2>3. c \in deaths
    BY <1>2, <1>4, <2>2 DEF Client, ClientFits
  <2>4. QED
    BY <1>1, <1>2, <1>4, <2>1, <2>3, Quits DEF ServerGone
<1>5. CASE ~(replies # <<>> /\ cpc[c] = "closed")
  <2>1. /\ UNCHANGED <<serving, hdr, stop>>
        /\ \/ /\ replies # <<>> /\ toClient' = [toClient EXCEPT ![c] = Append(@, Head(replies))]
              /\ replies' = Tail(replies) /\ spc' = spc
           \/ replies' = replies /\ toClient' = toClient /\ spc' = "header"
    BY <1>5 DEF SendReply
  <2>2. /\ Down(c)' = Down(c) /\ replies' \in Seq(ReplyUnits(c)) /\ toClient'[c] \in Seq(ReplyUnits(c))
        /\ DOMAIN toClient' = Clients /\ \A d \in Clients \ {c} : toClient'[d] = toClient[d]
    <3>1. toClient[c] \in Seq(ReplyUnits(c)) /\ DOMAIN toClient = Clients
      BY <1>2 DEF Types
    <3>2. CASE replies # <<>> /\ toClient' = [toClient EXCEPT ![c] = Append(@, Head(replies))] /\ replies' = Tail(replies)
      <4>1. /\ Append(toClient[c], Head(replies)) \o Tail(replies) = toClient[c] \o replies
            /\ Append(toClient[c], Head(replies)) \in Seq(ReplyUnits(c)) /\ Tail(replies) \in Seq(ReplyUnits(c))
        BY <1>2, <3>1, <3>2, Passed
      <4>2. toClient'[c] = Append(toClient[c], Head(replies))
        BY <1>2, <3>1, <3>2
      <4>3. Down(c) = toClient[c] \o replies /\ Down(c)' = toClient'[c] \o replies'
        BY <1>2, <2>1 DEF Down
      <4>4. QED
        BY <3>1, <3>2, <4>1, <4>2, <4>3
    <3>3. CASE replies' = replies /\ toClient' = toClient
      BY <1>2, <2>1, <3>1, <3>3 DEF Down
    <3>4. QED
      BY <2>1, <3>2, <3>3
  <2>3. \A d : SentUnits(d)' = SentUnits(d) /\ ReplyUnits(d)' = ReplyUnits(d)
    BY <1>3, SameScript
  <2>4. Types'
    <3>1. \A d \in Clients : toClient'[d] \in Seq(ReplyUnits(d))
      BY <1>2, <2>2 DEF Types
    <3>2. QED
      BY <1>1, <1>2, <1>3, <2>1, <2>2, <2>3, <3>1 DEF Types
  <2>5. Server'
    <3>1. spc' \in {"reply", "header"} /\ (replies' # <<>> => spc' = "reply")
      <4>1. CASE spc' = spc
        BY <1>1, <4>1
      <4>2. CASE replies' = replies /\ toClient' = toClient /\ spc' = "header"
        <5>1. replies = <<>>
          BY <1>1, <1>5, <2>1, <4>2 DEF SendReply
        <5>2. QED
          BY <4>2, <5>1
      <4>3. QED
        BY <2>1, <4>1, <4>2
    <3>2. QED
      BY <1>1, <1>2, <1>3, <2>1, <2>2, <2>3, <3>1 DEF Server
  <2>6. ASSUME NEW d \in Clients PROVE Client(d)'
    <3>1. Down(d)' = Down(d)
      BY <1>2, <2>1, <2>2 DEF Down
    <3>2. (Unserved(d)' => Unserved(d)) /\ (ServerGone => ServerGone')
      BY <1>1, <1>2, <1>3 DEF Unserved
    <3>3. toServer' = toServer /\ spc = "reply" /\ hdr' = hdr /\ serving' = serving /\ spc' \in {"reply", "header"}
      BY <1>1, <2>1
    <3>4. QED
      BY <1>3, <3>1, <3>2, <3>3, Untouched DEF ProtocolInv, Cut
  <2>7. EndsAsKnown'
    BY <1>1, <2>1 DEF EndsAsKnown
  <2>8. QED
    BY <2>4, <2>5, <2>6, <2>7 DEF ProtocolInv
<1>6. QED
  BY <1>4, <1>5

(* A unit of a transfer or of a request that is not answered at once. *)
LEMMA Fetched ==
  ASSUME ProtocolInv, NEW c \in serving, ~ServerGone, toServer[c] # <<>>,
         toServer' = [toServer EXCEPT ![c] = Tail(@)],
         UNCHANGED <<clientVars, backlog, toClient, serving, replies, stop>>, replies = <<>>,
         spc' \in {"header", "payload", "chunk", "csvheader", "crashed"},
         spc' = "payload" => hdr'.status = "OK",
         Stream(c)', Up(c)' = <<>> => cpc[c] # "wait" \/ spc' = "crashed",
         Up(c)' = <<>> => spc' \in {"header", "crashed"} /\ (spc' = "header" => Quiet(c)'),
         spc' = "crashed" => \/ ~NoMore(c) /\ Answered(c, at[c]) /\ Command(c).fatal
                             \/ \E k \in 1..at[c] : k <= Len(script[c]) /\ Unloadable(script[c][k])
  PROVE  ProtocolInv'
<1>1. UNCHANGED <<script, at, cpc, outbox, printed, reset, deaths>>
  BY DEF clientVars
<1>2. /\ Types /\ Server /\ Client(c) /\ c \in Clients /\ serving = {c} /\ ~Unserved(c) /\ ~Unserved(c)'
      /\ cpc[c] # "start" /\ replies \in Seq(ReplyUnits(c))
  BY <1>1, Serves DEF Unserved
<1>3. /\ toServer'[c] \in Seq(SentUnits(c)) /\ Up(c) # <<>>
      /\ DOMAIN toServer' = Clients /\ \A d \in Clients \ {c} : toServer'[d] = toServer[d]
  <2>1. toServer'[c] \in Seq(SentUnits(c)) /\ Up(c) # <<>>
    BY <1>1, <1>2, Consumed
  <2>2. QED
    BY <1>2, <2>1 DEF Types
<1>4. \A d : SentUnits(d)' = SentUnits(d) /\ ReplyUnits(d)' = ReplyUnits(d)
  BY <1>1, SameScript
<1>5. Types'
  <2>1. \A d \in Clients : toServer'[d] \in Seq(SentUnits(d))
    BY <1>2, <1>3 DEF Types
  <2>2. QED
    BY <1>1, <1>2, <1>3, <1>4, <2>1 DEF Types
<1>6. Server'
  BY <1>1, <1>2, <1>4 DEF Server
<1>7. ASSUME NEW d \in Clients \ {c} PROVE Client(d)'
  <2>1. Down(d)' = Down(d) /\ d \notin serving'
    BY <1>2 DEF Down
  <2>2. Unserved(d)' => Unserved(d)
    BY <1>1 DEF Unserved
  <2>3. QED
    BY <1>1, <1>2, <1>3, <2>1, <2>2, Untouched DEF ProtocolInv, Cut
<1>8. Client(c)'
  <2>1. Drained(c)'
    BY <1>2 DEF Drained
  <2>2. Down(c)' = Down(c)
    BY <1>2 DEF Down
  <2>3. ClientFits(c)'
    BY <1>1, <1>2, <2>2, SameScript DEF Client, ClientFits
  <2>4. Answering(c)'
    <3>1. Prints(c, at[c], 0)' = Prints(c, at[c], 0)
      BY <1>1, SamePrint
    <3>2. QED
      BY <1>1, <1>2, <1>3, <2>2, <3>1 DEF Client, Answering, Cut
  <2>5. QED
    BY <2>1, <2>3, <2>4 DEF Client
<1>9. EndsAsKnown'
  <2>1. ASSUME spc' = "crashed" PROVE Blamed(c)'
    BY <1>1, <2>1 DEF Blamed, NoMore, Command, Answered
  <2>2. QED
    BY <1>2, <2>1 DEF EndsAsKnown
<1>10. QED
  BY <1>5, <1>6, <1>7, <1>8, <1>9 DEF ProtocolInv

(* What the unit that is taken is, by the place of the server's loop. *)
LEMMA PlaceTypes ==
  ASSUME Types, NEW c \in Clients, NEW p \in Places(c)
  PROVE  /\ p \in Nat \X Nat /\ p[1] \in Nat /\ p[2] \in Nat /\ p = <<p[1], p[2]>>
         /\ p[1] \in DOMAIN script[c] /\ p[1] \in 1..at[c] /\ p[1] <= Len(script[c])
         /\ p[2] >= 1 /\ Len(Sent(c, p[1])) \in Nat /\ p[2] <= Len(Sent(c, p[1]))
         /\ p[1] = at[c] \/ ~Answered(c, p[1])
         /\ Answered(c, p[1]) \/ script[c][p[1]].kind = "emptyload" \/ script[c][p[1]].kind = "load"
<1>1. /\ p \in Nat \X Nat /\ p[1] \in DOMAIN script[c] /\ p[1] <= at[c] /\ script[c][p[1]].kind # "badload"
      /\ p[1] = at[c] \/ ~Answered(c, p[1])
      /\ p[2] \in 1..Len(Sent(c, p[1]))
  BY DEF Places
<1>2. p[1] \in 1..Len(script[c]) /\ script \in Scripts /\ at[c] \in Nat /\ Len(script[c]) \in Nat
  <2>1. script \in Scripts
    BY DEF Types
  <2>2. p[1] \in 1..Len(script[c]) /\ script[c] \in Seq(Commands)
    BY <1>1, <2>1, ScriptTypes
  <2>3. QED
    BY <2>1, <2>2 DEF Types
<1>3. /\ Len(Sent(c, p[1])) \in Nat
      /\ Answered(c, p[1]) \/ script[c][p[1]].kind = "emptyload" \/ script[c][p[1]].kind = "load"
  BY <1>1, <1>2, WholeMessage
<1>4. QED
  BY <1>1, <1>2, <1>3

LEMMA RecvHeaderKeeps ==
  ASSUME ProtocolInv, NEW c \in serving, RecvHeader(c)
  PROVE  ProtocolInv'
<1>1. /\ spc = "header" /\ toServer[c] # <<>> /\ toServer' = [toServer EXCEPT ![c] = Tail(@)]
      /\ UNCHANGED <<clientVars, backlog, toClient, serving, replies, stop>>
  BY DEF RecvHeader, Input, Take, Others, Crash
<1>2. /\ Types /\ Server /\ Client(c) /\ c \in Clients /\ serving = {c} /\ ~ServerGone /\ replies = <<>>
      /\ ~Unserved(c) /\ UNCHANGED <<script, at, cpc, outbox, deaths>>
  BY <1>1, Serves DEF ServerGone, Server, clientVars
<1>3. PICK p \in Places(c) :
              /\ Starts(c, p) /\ Head(toServer[c]) = Sent(c, p[1])[p[2]]
              /\ Up(c)' = <<>> => Ends(c, p)
              /\ Up(c)' # <<>> => Following(c, p) \in Places(c)
              /\ Up(c)' = <<>> \/ Starts(c, Following(c, p))' => Stream(c)'
  BY <1>1, <1>2, Consumed
<1>4. PICK k : k = p[1]
  OBVIOUS
<1>5. p[2] = 1 /\ Head(toServer[c]) = Sent(c, k)[1]
  BY <1>1, <1>3, <1>4 DEF Starts
<1>6. /\ k \in DOMAIN script[c] /\ k \in 1..at[c] /\ k <= Len(script[c]) /\ Len(Sent(c, k)) \in Nat
      /\ Answered(c, k) \/ script[c][k].kind = "emptyload" \/ script[c][k].kind = "load"
  BY <1>2, <1>4, PlaceTypes
<1>7. PICK unit : unit = Head(toServer[c])
  OBVIOUS
<1>8. IF unit.status = "CSV" /\ unit.last THEN spc' = "crashed"
      ELSE hdr' = unit /\ spc' = (IF unit.status = "CSV" THEN "chunk" ELSE "payload")
  BY <1>7 DEF RecvHeader, Crash
<1>9. ~Unserved(c)'
  BY <1>1, <1>2 DEF Unserved
<1>10. CASE Answered(c, k)
  <2>1. unit.status = "OK" /\ Len(Sent(c, k)) = 2
    BY <1>5, <1>7, <1>10, QuerySent, Zenon
  <2>2. spc' = "payload" /\ hdr'.status = "OK"
    BY <1>8, <2>1
  <2>3. Up(c)' # <<>>
    BY <1>3, <1>4, <1>5, <2>1 DEF Ends
  <2>4. PICK q : q = <<k, 2>>
    OBVIOUS
  <2>5. Following(c, p) = q /\ q[2] = 2 /\ q[1] = k
    BY <1>4, <1>5, <2>1, <2>4 DEF Following
  <2>6. Starts(c, q)'
    BY <1>2, <1>9, <1>10, <2>2, <2>5, SameScript DEF Starts
  <2>7. Starts(c, Following(c, p))'
    <3>1. Following(c, p)' = q
      BY <1>2, <2>5, SameScript
    <3>2. QED
      BY <2>6, <3>1
  <2>8. Stream(c)'
    BY <1>3, <2>7
  <2>9. QED
    BY <1>1, <1>2, <2>2, <2>3, <2>8, Fetched
<1>11. CASE script[c][k].kind = "load"
  <2>1. PICK n \in Nat \ {0} :
           /\ Len(Sent(c, k)) = 2 * n + 1
           /\ \A u \in 1..(2 * n) : u % 2 = 1 => Sent(c, k)[u].status = "CSV" /\ Sent(c, k)[u].last = FALSE
    <3>1. script \in Scripts
      BY <1>2 DEF Types
    <3>2. QED
      BY <1>2, <1>6, <1>11, <3>1, LoadSent
  <2>2. unit.status = "CSV" /\ unit.last = FALSE
    BY <1>5, <1>7, <2>1
  <2>3. spc' = "chunk"
    BY <1>8, <2>2
  <2>4. Up(c)' # <<>>
    BY <1>3, <1>4, <1>5, <2>1 DEF Ends
  <2>5. PICK q : q = <<k, 2>>
    OBVIOUS
  <2>6. Following(c, p) = q /\ q[2] = 2 /\ q[1] = k
    BY <1>4, <1>5, <2>1, <2>5 DEF Following
  <2>7. Starts(c, q)'
    BY <1>2, <1>9, <1>11, <2>3, <2>6 DEF Starts
  <2>8. Starts(c, Following(c, p))'
    <3>1. Following(c, p)' = q
      BY <1>2, <2>6, SameScript
    <3>2. QED
      BY <2>7, <3>1
  <2>9. Stream(c)'
    BY <1>3, <2>8
  <2>10. QED
    BY <1>1, <1>2, <2>3, <2>4, <2>9, Fetched
<1>12. CASE script[c][k].kind = "emptyload"
  <2>1. Len(Sent(c, k)) = 1 /\ Sent(c, k) = <<Header("CSV", TRUE, 0, <<>>)>>
    BY <1>12, EmptySent, Zenon
  <2>2. unit.status = "CSV" /\ unit.last = TRUE
    BY <1>5, <1>7, <2>1 DEF Header
  <2>3. spc' = "crashed"
    BY <1>8, <2>2
  <2>4. Up(c)' = <<>> => cpc[c] # "wait"
    <3>1. SUFFICES ASSUME Up(c)' = <<>>, cpc[c] = "wait" PROVE FALSE
      OBVIOUS
    <3>2. k = at[c] /\ Answered(c, at[c])
      BY <1>2, <1>3, <1>4, <3>1 DEF Ends, Client, ClientFits
    <3>3. QED
      BY <1>12, <3>2 DEF Answered
  <2>5. Stream(c)'
    <3>1. \A q : Starts(c, q)'
      BY <1>9, <2>3 DEF Starts
    <3>2. PICK q : q = Following(c, p)
      OBVIOUS
    <3>3. Following(c, p)' = q
      BY <1>2, <3>2, SameScript
    <3>4. QED
      BY <1>3, <3>1, <3>3
  <2>6. \E l \in 1..at[c] : l <= Len(script[c]) /\ Unloadable(script[c][l])
    BY <1>6, <1>12 DEF Unloadable
  <2>7. QED
    BY <1>1, <1>2, <2>3, <2>4, <2>5, <2>6, Fetched
<1>13. QED
  BY <1>6, <1>10, <1>11, <1>12

LEMMA RecvPayloadKeeps ==
  ASSUME ProtocolInv, NEW c \in serving, RecvPayload(c)
  PROVE  ProtocolInv'
<1> DEFINE Answers == /\ spc' = "reply" /\ replies' = Split(Head(toServer[c]).note)
                      /\ stop' = (stop \/ Head(toServer[c]).note.kind = "shutdown")
           Fails == Head(toServer[c]).note.fatal /\ spc' = "crashed" /\ UNCHANGED <<replies, stop>>
<1>1. /\ spc = "payload" /\ toServer[c] # <<>> /\ toServer' = [toServer EXCEPT ![c] = Tail(@)]
      /\ UNCHANGED <<clientVars, backlog, toClient, serving, hdr>>
      /\ Answers \/ Fails
  BY DEF RecvPayload, Input, Take, Others, Crash
<1>2. UNCHANGED <<script, at, cpc, outbox, printed, reset, deaths>>
  BY <1>1 DEF clientVars
<1>3. /\ Types /\ Server /\ Client(c) /\ c \in Clients /\ serving = {c} /\ ~ServerGone /\ replies = <<>>
      /\ ~Unserved(c) /\ hdr.status = "OK" /\ cpc[c] # "start"
  BY <1>1, Serves DEF ServerGone, Server
<1>4. PICK p \in Places(c) :
              /\ Starts(c, p) /\ Head(toServer[c]) = Sent(c, p[1])[p[2]]
              /\ Up(c)' = <<>> => Ends(c, p)
              /\ Up(c)' # <<>> => Following(c, p) \in Places(c)
              /\ Up(c)' = <<>> \/ Starts(c, Following(c, p))' => Stream(c)'
  BY <1>1, <1>2, <1>3, Consumed
<1>5. toServer'[c] \in Seq(SentUnits(c)) /\ Up(c) # <<>>
  BY <1>1, <1>2, <1>3, Consumed
<1>6. PICK k : k = p[1]
  OBVIOUS
<1>7. p[2] = 2 /\ Head(toServer[c]) = Sent(c, k)[2] /\ Answered(c, k)
  BY <1>1, <1>4, <1>6 DEF Starts
<1>8. k \in DOMAIN script[c] /\ k \in 1..at[c] /\ k <= Len(script[c]) /\ k = at[c] /\ k \in Nat
  BY <1>3, <1>6, <1>7, PlaceTypes
<1>9. Len(Sent(c, k)) = 2 /\ Sent(c, k)[2].note = Request(script[c][k], k)
  BY <1>7, QuerySent, Zenon
<1>10. Up(c)' = <<>>
  <2>1. Following(c, p) = <<k + 1, 1>>
    BY <1>6, <1>7, <1>9 DEF Following
  <2>2. PICK q : q = <<k + 1, 1>>
    OBVIOUS
  <2>3. q[1] = k + 1
    BY <2>2
  <2>4. ASSUME q \in Places(c) PROVE FALSE
    <3>1. q[1] \in 1..at[c]
      BY <1>3, <2>4, PlaceTypes
    <3>2. QED
      BY <1>8, <2>3, <3>1
  <2>5. QED
    BY <1>4, <2>1, <2>2, <2>4
<1>11. toServer'[c] = <<>> /\ outbox[c] = <<>>
  <2>1. outbox[c] \in Seq(SentUnits(c)) /\ Up(c)' = toServer'[c] \o outbox[c]
    BY <1>2, <1>3 DEF Types, Up
  <2>2. PICK t, o : t = toServer'[c] /\ o = outbox[c]
    OBVIOUS
  <2>3. t \in Seq(SentUnits(c)) /\ o \in Seq(SentUnits(c)) /\ t \o o = <<>>
    BY <1>5, <1>10, <2>1, <2>2
  <2>4. QED
    BY <2>2, <2>3, ConcatEqualIffEmpty
<1>12. cpc[c] = "wait" \/ (cpc[c] = "closed" /\ c \in deaths)
  <2>1. Ends(c, p) /\ k \in Nat
    BY <1>4, <1>8, <1>10
  <2>2. cpc[c] # "idle"
    BY <1>6, <1>8, <2>1 DEF Ends
  <2>3. cpc[c] # "send"
    BY <1>3, <1>11 DEF Client, ClientFits
  <2>4. cpc[c] = "closed" => c \in deaths
    BY <1>3, <1>6, <1>8, <2>1 DEF Ends
  <2>5. QED
    BY <1>3, <2>2, <2>3, <2>4 DEF Types
<1>13. CASE Fails
  <2>1. script[c][k].fatal
    BY <1>7, <1>9, <1>13 DEF Request
  <2>2. Stream(c)'
    BY <1>10, EmptyStream
  <2>3. ~NoMore(c) /\ Answered(c, at[c]) /\ Command(c).fatal
    <3>1. script[c] \in Seq(Commands)
      BY <1>3, <1>8, ScriptTypes DEF Types
    <3>2. QED
      BY <1>7, <1>8, <2>1, <3>1 DEF NoMore, Command
  <2>4. QED
    BY <1>1, <1>3, <1>10, <1>13, <2>2, <2>3, Fetched
<1>14. SUFFICES ASSUME Answers PROVE ProtocolInv'
  BY <1>1, <1>13
<1>15. replies' = Reply(c, k) /\ stop' = (stop \/ script[c][k].kind = "shutdown")
  BY <1>7, <1>9, <1>14 DEF Reply, Request
<1>16. Reply(c, k) \in Seq(ReplyUnits(c)) /\ \E n \in Nat : Len(Reply(c, k)) = 2 * n
  BY <1>3, <1>7, <1>8, ReplySplit DEF Types
<1>17. /\ DOMAIN toServer' = Clients /\ \A d \in Clients \ {c} : toServer'[d] = toServer[d]
       /\ \A d : SentUnits(d)' = SentUnits(d) /\ ReplyUnits(d)' = ReplyUnits(d)
  BY <1>1, <1>14, <1>2, <1>3, SameScript DEF Types
<1>18. Types'
  <2>1. \A d \in Clients : toServer'[d] \in Seq(SentUnits(d))
    BY <1>3, <1>5, <1>17 DEF Types
  <2>2. stop' \in BOOLEAN
    BY <1>1, <1>14, <1>3 DEF Types
  <2>3. QED
    BY <1>1, <1>14, <1>2, <1>3, <1>17, <2>1, <2>2 DEF Types
<1>19. Server'
  <2>1. stop' => \E d \in Clients : \E l \in 1..at[d] : l <= Len(script[d]) /\ script[d][l].kind = "shutdown"
    <3>1. CASE stop
      BY <1>3, <3>1 DEF Server
    <3>2. CASE script[c][k].kind = "shutdown"
      BY <1>3, <1>8, <3>2
    <3>3. QED
      BY <1>15, <3>1, <3>2
  <2>2. replies' \in Seq(ReplyUnits(c))
    BY <1>15, <1>16
  <2>3. QED
    BY <1>1, <1>14, <1>2, <1>3, <1>17, <2>1, <2>2 DEF Server
<1>20. ASSUME NEW d \in Clients \ {c} PROVE Client(d)'
  <2>1. Down(d)' = Down(d) /\ d \notin serving'
    BY <1>1, <1>14, <1>3 DEF Down
  <2>2. Unserved(d)' => Unserved(d)
    BY <1>1, <1>14, <1>2 DEF Unserved
  <2>3. QED
    BY <1>1, <1>14, <1>2, <1>3, <1>17, <2>1, <2>2, Untouched DEF ProtocolInv, Cut
<1>21. Client(c)'
  <2>1. Stream(c)'
    BY <1>10, EmptyStream
  <2>2. Drained(c)'
    BY <1>1, <1>14, <1>2, <1>3 DEF Drained, Quiet, Unserved
  <2>3. ClientFits(c)'
    BY <1>1, <1>14, <1>2, <1>3, <1>12, SameScript DEF Client, ClientFits
  <2>4. Answering(c)'
    <3>1. CASE cpc[c] = "wait"
      <4>1. Prints(c, at[c], 0) /\ Down(c) = <<>>
        BY <1>3, <1>5, <3>1 DEF Client, Answering
      <4>2. toClient[c] = <<>>
        BY <1>3, <4>1, Downs
      <4>3. PICK s : s = Reply(c, k)
        OBVIOUS
      <4>4. s \in Seq(ReplyUnits(c)) /\ Len(s) \div 2 \in Nat
        <5>1. PICK n \in Nat : Len(s) = 2 * n
          BY <1>16, <4>3
        <5>2. Len(s) \div 2 = n
          BY <5>1
        <5>3. QED
          BY <1>16, <4>3, <5>2
      <4>5. Down(c)' = s
        BY <1>1, <1>14, <1>3, <1>15, <4>2, <4>3, <4>4, ConcatEmptySeq DEF Down
      <4>6. Rest(s, 0) = s
        <5>1. Len(s) - 2 * 0 = Len(s) /\ (\A u \in 1..Len(s) : u + 2 * 0 = u) /\ s = [u \in 1..Len(s) |-> s[u]]
          BY <4>4
        <5>2. QED
          BY <5>1 DEF Rest
      <4>7. Reply(c, at[c])' = s /\ at'[c] = k
        <5>1. at'[c] = k /\ Reply(c, k)' = Reply(c, k)
          BY <1>2, <1>8, SameScript
        <5>2. QED
          BY <4>3, <5>1 DEF Reply
      <4>8. Prints(c, at[c], 0)'
        <5>1. Prints(c, k, 0)' = Prints(c, k, 0)
          BY <1>2, SamePrint
        <5>2. Prints(c, k, 0)'
          BY <1>8, <4>1, <5>1
        <5>3. QED
          BY <4>7, <5>2 DEF Prints
      <4>9. HalfWay(c, 0)'
        <5>1. Upto(s, 0) = 0
          BY DEF Upto
        <5>2. QED
          BY <4>5, <4>6, <4>7, <4>8, <5>1 DEF HalfWay
      <4>10. (0 \in 0..(Len(Reply(c, at[c])) \div 2))'
        BY <4>4, <4>7
      <4>11. QED
        BY <1>2, <1>10, <3>1, <4>9, <4>10, <1>14 DEF Answering, Cut
    <3>2. CASE cpc[c] = "closed"
      BY <1>2, <3>2 DEF Answering
    <3>3. QED
      BY <1>12, <3>1, <3>2
  <2>5. QED
    BY <2>1, <2>2, <2>3, <2>4 DEF Client
<1>22. EndsAsKnown'
  BY <1>1, <1>14 DEF EndsAsKnown
<1>23. QED
  BY <1>18, <1>19, <1>20, <1>21, <1>22 DEF ProtocolInv

-----------------------------------------------------------------------------
(* The pieces of a file end where the next begins; the last ends with it. *)
Till(file, j) == Min({j * BufSize, Len(file)})

LEMMA TillIs ==
  ASSUME NEW file, Len(file) \in Nat, Len(file) >= 2, NEW j \in Nat
  PROVE  /\ Till(file, j) \in Nat /\ Till(file, j) <= Len(file)
         /\ j # 0 => Till(file, j) >= 2
         /\ j * BufSize <= Len(file) => Till(file, j) = j * BufSize
         /\ j * BufSize >= Len(file) => Till(file, j) = Len(file)
<1>1. BufSize \in Nat /\ BufSize >= 2
  BY HeaderFits
<1>2. PICK a, b : a = j * BufSize /\ b = Len(file)
  OBVIOUS
<1>3. a \in Nat /\ (j # 0 => a >= 2)
  <2>1. a \in Nat
    BY <1>1, <1>2, Z3
  <2>2. j # 0 => 1 * BufSize <= j * BufSize
    <3>1. SUFFICES ASSUME j # 0 PROVE 1 * BufSize <= j * BufSize
      OBVIOUS
    <3>2. 1 \in Nat /\ 1 <= j
      BY <3>1
    <3>3. QED
      BY <1>1, <3>2, Products
  <2>3. 1 * BufSize = BufSize
    BY <1>1
  <2>4. QED
    BY <1>1, <1>2, <2>1, <2>2, <2>3
<1>4. PICK m : m = Min({a, b})
  OBVIOUS
<1>5. m \in {a, b} /\ \A y \in {a, b} : m <= y
  <2>1. \E x \in {a, b} : \A y \in {a, b} : x <= y
    <3>1. a <= b \/ b <= a
      BY <1>2, <1>3
    <3>2. a <= a /\ b <= b
      BY <1>2, <1>3
    <3>3. QED
      BY <3>1, <3>2
  <2>2. m = CHOOSE x \in {a, b} : \A y \in {a, b} : x <= y
    BY <1>4 DEF Min
  <2>3. QED
    BY <2>1, <2>2, Zenon
<1>6. Till(file, j) = m
  BY <1>2, <1>4 DEF Till
<1>7. (m = a \/ m = b) /\ m <= a /\ m <= b
  BY <1>5
<1>8. b \in Nat /\ b >= 2
  BY <1>2
<1>9. QED
  BY <1>2, <1>3, <1>6, <1>7, <1>8

Pieces(file) == (Len(file) + BufSize - 1) \div BufSize
(* The pieces of a file: all but the last are full. *)
LEMMA PiecesAre ==
  ASSUME NEW file, Len(file) \in Nat, Len(file) >= 2, NEW n, n = Pieces(file)
  PROVE  /\ n \in Nat \ {0}
         /\ \A j \in Nat : j < n => j * BufSize < Len(file) /\ Till(file, j) = j * BufSize
         /\ Till(file, n) = Len(file)
         /\ \A j \in 1 .. n : 2 <= Till(file, j) /\ Till(file, j) <= Len(file) /\ Till(file, j) \in Nat
<1>1. BufSize \in Nat \ {0} /\ BufSize >= 2
  BY HeaderFits
<1>2. PICK a : a = Len(file) + BufSize - 1
  OBVIOUS
<1>3. a \in Nat /\ a >= BufSize /\ n = a \div BufSize
  BY <1>1, <1>2 DEF Pieces
<1>4. n \in Nat /\ n * BufSize <= a
  BY <1>1, <1>3, Quotients
<1>5. n * BufSize >= Len(file) /\ n # 0
  <2>1. a = n * BufSize + (a % BufSize) /\ a % BufSize \in 0 .. (BufSize - 1)
    BY <1>1, <1>3, Z3
  <2>2. n * BufSize \in Nat
    BY <1>1, <1>4, Z3
  <2>3. n * BufSize >= Len(file)
    BY <1>1, <1>2, <2>1, <2>2
  <2>4. n = 0 => n * BufSize = 0
    BY <1>1
  <2>5. QED
    BY <2>3, <2>4
<1>6. ASSUME NEW j \in Nat, j < n PROVE j * BufSize < Len(file)
  <2>1. j + 1 \in Nat /\ j + 1 <= n
    BY <1>4, <1>6
  <2>2. (j + 1) * BufSize <= n * BufSize
    BY <1>1, <1>4, <2>1, Products
  <2>3. (j + 1) * BufSize = j * BufSize + BufSize /\ j * BufSize \in Nat /\ n * BufSize \in Nat
    BY <1>1, <1>4, Z3
  <2>4. j * BufSize + BufSize <= Len(file) + BufSize - 1
    BY <1>1, <1>2, <1>4, <2>2, <2>3
  <2>5. QED
    BY <1>1, <2>3, <2>4
<1>7. ASSUME NEW j \in Nat, j < n PROVE Till(file, j) = j * BufSize
  <2>1. j * BufSize <= Len(file)
    <3>1. j * BufSize \in Nat
      BY <1>1, Z3
    <3>2. QED
      BY <1>6, <1>7, <3>1
  <2>2. QED
    BY <2>1, TillIs
<1>8. Till(file, n) = Len(file)
  BY <1>4, <1>5, TillIs
<1>9. ASSUME NEW j \in 1 .. n PROVE 2 <= Till(file, j) /\ Till(file, j) <= Len(file) /\ Till(file, j) \in Nat
  <2>1. j \in Nat /\ j # 0
    BY <1>4
  <2>2. QED
    BY <2>1, TillIs
<1>10. QED
  BY <1>4, <1>5, <1>6, <1>7, <1>8, <1>9

(* A load, and the message it is sent as. *)

LoadAt(c, k) == k \in DOMAIN script[c] /\ script[c][k].kind = "load"
LEMMA LoadLong ==
  ASSUME Types, NEW c \in Clients, NEW k, LoadAt(c, k), NEW file, file = script[c][k].file
  PROVE  file \in Seq(STRING) /\ Len(file) \in Nat /\ Len(file) >= 2
BY Kinds DEF Types, LoadAt

Sends(c, k, n) ==
  /\ n \in Nat \ {0} /\ Len(Sent(c, k)) = 2 * n + 1
  /\ \A i \in 1 .. n : Sent(c, k)[2 * i].note = Piece(script[c][k].file, i)
  /\ \A i \in 1 .. n : Sent(c, k)[2 * i - 1].status = "CSV" /\ Sent(c, k)[2 * i - 1].last = FALSE
  /\ Sent(c, k)[2 * n + 1].last = TRUE /\ Sent(c, k)[2 * n + 1].status = "CSV"
  /\ Sent(c, k)[2 * n + 1].note = script[c][k].rows
LEMMA TransferIs ==
  ASSUME Types, NEW c \in Clients, NEW k, LoadAt(c, k), NEW n, n = Pieces(script[c][k].file)
  PROVE  Sends(c, k, n)
<1> DEFINE cmd == script[c][k]
           file == cmd.file
           unit(u) == IF u % 2 = 1 THEN Header("CSV", FALSE, Len(Piece(file, (u + 1) \div 2)) + 1, <<>>)
                      ELSE Payload(Piece(file, u \div 2))
           some == [u \in 1..2 * n |-> unit(u)]
           end == <<Header("CSV", TRUE, 0, cmd.rows)>>
<1>1. Sent(c, k) = some \o end
  BY DEF LoadAt, Sent, Units, Transfer, Pieces
<1>2. n \in Nat \ {0}
  <2>1. Len(file) \in Nat /\ Len(file) >= 2
    BY LoadLong
  <2>2. QED
    BY <2>1, PiecesAre
<1>3. ASSUME NEW i \in 1 .. n
      PROVE  /\ 2 * i \in 1 .. 2 * n /\ 2 * i - 1 \in 1 .. 2 * n
             /\ unit(2 * i).note = Piece(file, i)
             /\ unit(2 * i - 1).status = "CSV" /\ unit(2 * i - 1).last = FALSE
  <2>1. 2 * i \in 1 .. 2 * n /\ 2 * i - 1 \in 1 .. 2 * n
    BY <1>2
  <2>2. (2 * i) % 2 = 0 /\ (2 * i - 1) % 2 = 1 /\ (2 * i) \div 2 = i
    BY <1>2
  <2>3. QED
    BY <2>1, <2>2 DEF Header, Payload
<1>4. end[1].status = "CSV" /\ end[1].last = TRUE /\ end[1].note = cmd.rows
  BY DEF Header
<1> HIDE DEF unit
<1> DEFINE all == {unit(u) : u \in 1..2 * n} \cup {end[1]}
<1>5. some \in Seq(all) /\ Len(some) = 2 * n /\ \A u \in 1..2 * n : some[u] = unit(u)
  <2>1. some \in [1..2 * n -> all]
    OBVIOUS
  <2>2. 2 * n \in Nat
    BY <1>2
  <2> HIDE DEF all
  <2>3. some \in Seq(all) /\ Len(some) = 2 * n
    BY <2>1, <2>2
  <2>4. QED
    BY <2>3
<1>6. end \in Seq(all) /\ Len(end) = 1
  OBVIOUS
<1> HIDE DEF all, some
<1> HIDE DEF end
<1>7. /\ Len(some \o end) = 2 * n + 1
      /\ \A u \in 1..2 * n : (some \o end)[u] = unit(u)
      /\ (some \o end)[2 * n + 1] = end[1]
  <2>1. /\ some \o end \in Seq(all) /\ Len(some \o end) = Len(some) + Len(end)
        /\ \A u \in 1..Len(some) + Len(end) : (some \o end)[u] = IF u <= Len(some) THEN some[u] ELSE end[u - Len(some)]
    BY <1>5, <1>6, ConcatProperties
  <2>2. 2 * n \in Nat
    BY <1>2
  <2>3. QED
    BY <1>5, <1>6, <2>1, <2>2
<1>8. QED
  BY <1>1, <1>2, <1>3, <1>4, <1>7 DEF Sends

(* A piece begins with a character of the file, the first with its first. *)
LEMMA PieceBegins ==
  ASSUME NEW file \in Seq(STRING), Len(file) >= 2, NEW i \in 1 .. Pieces(file)
  PROVE  \E b \in 1 .. Len(file) : Piece(file, i)[1] = file[b] /\ (i = 1 => b = 1)
<1>1. Len(file) \in Nat
  BY LenProperties
<1>2. PICK n : n = Pieces(file)
  OBVIOUS
<1>3. /\ n \in Nat \ {0}
      /\ \A j \in Nat : j < n => j * BufSize < Len(file) /\ Till(file, j) = j * BufSize
      /\ \A j \in 1 .. n : 2 <= Till(file, j) /\ Till(file, j) <= Len(file) /\ Till(file, j) \in Nat
  BY <1>1, <1>2, PiecesAre
<1>4. PICK a, q : a = (i - 1) * BufSize /\ q = Till(file, i)
  OBVIOUS
<1>5. i - 1 \in Nat /\ i - 1 < n /\ i \in 1 .. n
  BY <1>2, <1>3
<1>6. a \in Nat /\ a < Len(file) /\ (i = 1 => a = 0)
  <2>1. BufSize \in Nat
    BY HeaderFits
  <2>2. (i - 1) * BufSize \in Nat
    BY <1>5, <2>1, Z3
  <2>3. i = 1 => (i - 1) * BufSize = 0
    BY <2>1
  <2>4. QED
    BY <1>3, <1>4, <1>5, <2>2, <2>3
<1>7. q \in Nat /\ a + 1 <= q /\ q <= Len(file)
  <2>1. q = i * BufSize \/ q = Len(file)
    <3>1. i * BufSize <= Len(file) => q = i * BufSize
      BY <1>1, <1>4, <1>5, TillIs
    <3>2. i * BufSize >= Len(file) => q = Len(file)
      BY <1>1, <1>4, <1>5, TillIs
    <3>3. i * BufSize \in Nat
      BY HeaderFits, Z3
    <3>4. QED
      BY <1>1, <3>1, <3>2, <3>3
  <2>2. i * BufSize >= a + 1
    <3>1. i * BufSize = (i - 1) * BufSize + BufSize /\ BufSize \in Nat /\ BufSize >= 2
      BY HeaderFits, Z3
    <3>2. PICK b : b = i * BufSize
      OBVIOUS
    <3>3. b = a + BufSize
      BY <1>4, <3>1, <3>2
    <3>4. QED
      BY <1>6, <3>1, <3>2, <3>3
  <2>3. q \in Nat /\ q <= Len(file)
    BY <1>3, <1>4, <1>5
  <2>4. QED
    BY <1>1, <1>6, <2>1, <2>2, <2>3
<1>8. PICK s : s = SubSeq(file, a + 1, q)
  OBVIOUS
<1>9. Piece(file, i) = s
  BY <1>4, <1>8 DEF Piece, Till
<1>10. s[1] = file[a + 1]
  <2>1. \A m \in a + 1 .. q : m \in 1 .. Len(file)
    BY <1>1, <1>6, <1>7
  <2>2. \A m \in a + 1 .. q : file[m] \in STRING
    BY <2>1, ElementOfSeq
  <2>3. a + 1 \in Int /\ q \in Int /\ 1 \in 1 .. q - (a + 1) + 1 /\ (a + 1) + 1 - 1 = a + 1
    BY <1>6, <1>7
  <2>4. \A m \in 1 .. q - (a + 1) + 1 : s[m] = file[(a + 1) + m - 1]
    BY <1>8, <2>2, <2>3, SubSeqProperties
  <2>5. QED
    BY <2>3, <2>4
<1>11. a + 1 \in 1 .. Len(file) /\ (i = 1 => a + 1 = 1)
  BY <1>1, <1>6
<1>12. QED
  BY <1>9, <1>10, <1>11

LEMMA RecvChunkKeeps ==
  ASSUME ProtocolInv, NEW c \in serving, RecvChunk(c)
  PROVE  ProtocolInv'
<1>1. /\ spc = "chunk" /\ toServer[c] # <<>> /\ toServer' = [toServer EXCEPT ![c] = Tail(@)]
      /\ UNCHANGED <<clientVars, backlog, toClient, serving, replies, stop>>
      /\ spc' = "csvheader" \/ (spc' = "crashed" /\ ~load.begun /\ ~Named(Head(toServer[c]).note))
  BY DEF RecvChunk, Input, Take, Others, Crash
<1>2. /\ Types /\ c \in Clients /\ serving = {c} /\ ~ServerGone /\ replies = <<>>
      /\ ~Unserved(c) /\ UNCHANGED <<script, at, cpc, outbox, deaths>>
  BY <1>1, Serves DEF ServerGone, Server, clientVars
<1>3. PICK p \in Places(c) :
              /\ Starts(c, p) /\ Head(toServer[c]) = Sent(c, p[1])[p[2]]
              /\ Up(c)' = <<>> => Ends(c, p)
              /\ Up(c)' # <<>> => Following(c, p) \in Places(c)
              /\ Up(c)' = <<>> \/ Starts(c, Following(c, p))' => Stream(c)'
  BY <1>1, <1>2, Consumed
<1>4. PICK k, u : k = p[1] /\ u = p[2]
  OBVIOUS
<1>5. u % 2 = 0 /\ script[c][k].kind = "load"
  BY <1>1, <1>3, <1>4 DEF Starts
<1>6. k \in DOMAIN script[c] /\ u \in Nat /\ u >= 1 /\ u <= Len(Sent(c, k))
  BY <1>2, <1>4, PlaceTypes
<1>7. PICK n \in Nat \ {0} : Len(Sent(c, k)) = 2 * n + 1
  BY <1>2, <1>5, <1>6, LoadSent DEF Types
<1>8. u < Len(Sent(c, k)) /\ (u + 1) % 2 = 1 /\ u + 1 > 1
  BY <1>5, <1>6, <1>7
<1>9. Up(c)' # <<>>
  BY <1>3, <1>4, <1>8 DEF Ends
<1>10. PICK q : q = <<k, u + 1>>
  OBVIOUS
<1>11. Following(c, p) = q /\ q[2] = u + 1 /\ q[1] = k
  BY <1>4, <1>8, <1>10 DEF Following
<1>12. Starts(c, q)'
  <2>1. ~Unserved(c)'
    BY <1>1, <1>2 DEF Unserved
  <2>2. QED
    BY <1>1, <1>2, <1>5, <1>8, <1>11, <2>1 DEF Starts
<1>13. Stream(c)'
  <2>1. Following(c, p)' = q
    BY <1>2, <1>11, SameScript
  <2>2. QED
    BY <1>3, <1>12, <2>1
<1>14. ASSUME spc' = "crashed" PROVE \E l \in 1..at[c] : l <= Len(script[c]) /\ Unloadable(script[c][l])
  <2>1. PICK file : file = script[c][k].file
    OBVIOUS
  <2>2. LoadAt(c, k) /\ file \in Seq(STRING) /\ Len(file) >= 2 /\ Len(file) \in Nat
    BY <1>2, <1>5, <1>6, <2>1, LoadLong DEF LoadAt
  <2>3. Head(toServer[c]) = Sent(c, k)[u] /\ Head(toServer[c]).note[1] = "alien"
    BY <1>1, <1>3, <1>4, <1>14 DEF Named
  <2>4. Sends(c, k, Pieces(file))
    BY <1>2, <2>1, <2>2, TransferIs
  <2>5. PICK m : m = Pieces(file)
    OBVIOUS
  <2>6. PICK i \in 1 .. m : u = 2 * i
    <3>1. m \in Nat /\ u <= 2 * m + 1
      BY <1>6, <2>4, <2>5 DEF Sends
    <3>2. u \div 2 \in 1 .. m /\ u = 2 * (u \div 2)
      BY <1>5, <1>6, <3>1
    <3>3. QED
      BY <3>2
  <2>7. Sent(c, k)[u].note = Piece(file, i)
    BY <2>1, <2>4, <2>5, <2>6 DEF Sends
  <2>8. PICK b \in 1 .. Len(file) : Piece(file, i)[1] = file[b]
    BY <2>2, <2>5, PieceBegins
  <2>9. file[b] = "alien"
    BY <2>3, <2>7, <2>8
  <2>10. \A d \in 2 .. Len(file) : file[d] # "alien"
    BY <1>2, <1>5, <1>6, <2>1, ScriptsTyped DEF Types
  <2>11. ~Named(file)
    BY <2>2, <2>8, <2>9, <2>10 DEF Named
  <2>12. k \in 1..at[c] /\ k <= Len(script[c])
    BY <1>2, <1>4, PlaceTypes
  <2>13. QED
    BY <1>5, <2>1, <2>11, <2>12 DEF Unloadable
<1>15. QED
  BY <1>1, <1>2, <1>9, <1>13, <1>14, Fetched

LEMMA RecvCsvHeaderKeeps ==
  ASSUME ProtocolInv, NEW c \in serving, RecvCsvHeader(c)
  PROVE  ProtocolInv'
<1>1. /\ spc = "csvheader" /\ toServer[c] # <<>> /\ toServer' = [toServer EXCEPT ![c] = Tail(@)]
      /\ UNCHANGED <<clientVars, backlog, toClient, serving, replies, stop>>
  BY DEF RecvCsvHeader, Input, Take, Others, Crash
<1>2. /\ Types /\ Client(c) /\ c \in Clients /\ serving = {c} /\ ~ServerGone /\ replies = <<>>
      /\ ~Unserved(c) /\ UNCHANGED <<script, at, cpc, outbox, deaths>> /\ cpc[c] # "start"
  BY <1>1, Serves DEF ServerGone, Server, clientVars
<1>3. PICK p \in Places(c) :
              /\ Starts(c, p) /\ Head(toServer[c]) = Sent(c, p[1])[p[2]]
              /\ Up(c)' = <<>> => Ends(c, p)
              /\ Up(c)' # <<>> => Following(c, p) \in Places(c)
              /\ Up(c)' = <<>> \/ Starts(c, Following(c, p))' => Stream(c)'
  BY <1>1, <1>2, Consumed
<1>4. PICK k, u, unit : k = p[1] /\ u = p[2] /\ unit = Head(toServer[c])
  OBVIOUS
<1>5. u % 2 = 1 /\ u > 1 /\ script[c][k].kind = "load"
  BY <1>1, <1>3, <1>4 DEF Starts
<1>6. /\ k \in DOMAIN script[c] /\ u \in Nat /\ u >= 1 /\ u <= Len(Sent(c, k))
      /\ k \in Nat /\ k \in 1..at[c]
  BY <1>2, <1>4, PlaceTypes
<1>7. PICK n \in Nat \ {0} :
           /\ Len(Sent(c, k)) = 2 * n + 1
           /\ \A i \in 1..(2 * n) : i % 2 = 1 => Sent(c, k)[i].status = "CSV" /\ Sent(c, k)[i].last = FALSE
           /\ Sent(c, k)[2 * n + 1].status = "CSV" /\ Sent(c, k)[2 * n + 1].last = TRUE
  BY <1>2, <1>5, <1>6, LoadSent DEF Types
<1>8. unit = Sent(c, k)[u] /\ ~Answered(c, k)
  BY <1>3, <1>4, <1>5 DEF Answered
<1>9. unit.status = "CSV" => hdr' = unit /\ spc' = (IF unit.last THEN "header" ELSE "chunk")
  BY <1>4 DEF RecvCsvHeader
<1>10. ~Unserved(c)'
  BY <1>1, <1>2 DEF Unserved
<1>11. CASE u = 2 * n + 1
  <2>1. spc' = "header"
    BY <1>7, <1>8, <1>9, <1>11
  <2>2. PICK q : q = <<k + 1, 1>>
    OBVIOUS
  <2>3. Following(c, p) = q /\ q[2] = 1
    <3>1. ~(u < Len(Sent(c, k)))
      BY <1>7, <1>11
    <3>2. QED
      BY <1>4, <2>2, <3>1 DEF Following
  <2>4. Starts(c, q)'
    BY <1>10, <2>1, <2>3 DEF Starts
  <2>5. Stream(c)'
    <3>1. Following(c, p)' = q
      BY <1>2, <2>3, SameScript
    <3>2. QED
      BY <1>3, <2>4, <3>1
  <2>6. ASSUME Up(c)' = <<>>
        PROVE  cpc[c] # "wait" /\ Quiet(c)'
    <3>1. Ends(c, p)
      BY <1>3, <2>6
    <3>2. outbox[c] = <<>>
      <4>1. PICK t, o : t = toServer'[c] /\ o = outbox[c]
        OBVIOUS
      <4>2. t \in Seq(SentUnits(c)) /\ o \in Seq(SentUnits(c))
        <5>1. toServer'[c] \in Seq(SentUnits(c))
          BY <1>1, <1>2, Consumed
        <5>2. QED
          BY <1>2, <4>1, <5>1, Streams
      <4>3. t \o o = <<>>
        BY <1>2, <2>6, <4>1 DEF Up
      <4>4. QED
        BY <4>1, <4>2, <4>3, ConcatEqualIffEmpty
    <3>3. cpc[c] # "send"
      BY <1>2, <3>2 DEF Client, ClientFits
    <3>4. cpc[c] # "wait"
      <4>1. cpc[c] = "wait" => k = at[c] /\ Answered(c, at[c])
        BY <1>2, <1>4, <3>1 DEF Ends, Client, ClientFits
      <4>2. QED
        BY <1>8, <4>1
    <3>5. cpc[c] \in {"idle", "closed"}
      BY <1>2, <3>3, <3>4 DEF Types
    <3>6. k + 1 = at[c]
      <4>1. ~(k = at[c] /\ (outbox[c] # <<>> \/ Answered(c, at[c])))
        BY <1>8, <3>2
      <4>2. QED
        BY <1>4, <3>1, <3>5, <4>1 DEF Ends
    <3>7. script[c][at[c] - 1].kind = "load"
      <4>1. at[c] - 1 = k
        BY <1>6, <3>6
      <4>2. QED
        BY <1>5, <4>1
    <3>8. QED
      BY <1>2, <3>4, <3>5, <3>7 DEF Quiet
  <2>7. QED
    BY <1>1, <1>2, <2>1, <2>5, <2>6, Fetched
<1>12. CASE u # 2 * n + 1
  <2>1. u \in 1..(2 * n) /\ u < Len(Sent(c, k)) /\ (u + 1) % 2 = 0
    <3>1. u <= 2 * n
      BY <1>6, <1>7, <1>12
    <3>2. u \in 1..(2 * n) /\ u < Len(Sent(c, k))
      BY <1>6, <1>7, <3>1
    <3>3. (u + 1) % 2 = 0
      BY <1>5, <1>6
    <3>4. QED
      BY <3>2, <3>3
  <2>2. spc' = "chunk"
    BY <1>5, <1>7, <1>8, <1>9, <2>1
  <2>3. Up(c)' # <<>>
    BY <1>3, <1>4, <2>1 DEF Ends
  <2>4. PICK q : q = <<k, u + 1>>
    OBVIOUS
  <2>5. Following(c, p) = q /\ q[2] = u + 1 /\ q[1] = k
    BY <1>4, <2>1, <2>4 DEF Following
  <2>6. Starts(c, q)'
    BY <1>2, <1>5, <1>10, <2>1, <2>2, <2>5 DEF Starts
  <2>7. Stream(c)'
    <3>1. Following(c, p)' = q
      BY <1>2, <2>5, SameScript
    <3>2. QED
      BY <1>3, <2>6, <3>1
  <2>8. QED
    BY <1>1, <1>2, <2>2, <2>3, <2>7, Fetched
<1>13. QED
  BY <1>11, <1>12

LEMMA AcceptKeeps ==
  ASSUME ProtocolInv, Accept
  PROVE  ProtocolInv'
<1>1. /\ spc = "accept" /\ backlog # <<>> /\ spc' = "header" /\ serving' = {Head(backlog)} /\ backlog' = Tail(backlog)
      /\ UNCHANGED <<replies, stop, clientVars, toServer, toClient>>
  BY DEF Accept
<1>2. PICK b : b = backlog
  OBVIOUS
<1>3. PICK c : c = Head(b)
  OBVIOUS
<1>4. UNCHANGED <<script, at, cpc, outbox, printed, reset, deaths>>
  BY <1>1 DEF clientVars
<1>5. Types /\ Server /\ serving = {} /\ replies = <<>> /\ b \in Seq(Clients) /\ b # <<>>
  BY <1>1, <1>2 DEF ProtocolInv, Types, Server
<1>6. /\ c = b[1] /\ 1 \in DOMAIN b /\ c \in Clients /\ Tail(b) \in Seq(Clients)
      /\ \A i \in DOMAIN Tail(b) : i \in Nat /\ i >= 1 /\ i + 1 \in DOMAIN b /\ Tail(b)[i] = b[i + 1] /\ b[i + 1] \in Clients
  <2>1. Len(b) \in Nat \ {0} /\ Tail(b) \in Seq(Clients) /\ Len(Tail(b)) = Len(b) - 1
        /\ (\A i \in 1..Len(Tail(b)) : Tail(b)[i] = b[i + 1]) /\ Head(b) = b[1]
    BY <1>5, HeadTailProperties, EmptySeq
  <2>2. DOMAIN b = 1..Len(b) /\ DOMAIN Tail(b) = 1..Len(Tail(b))
    BY <1>5, <2>1
  <2>3. QED
    BY <1>3, <1>5, <2>1, <2>2
<1>7. backlog' = Tail(b) /\ serving' = {c}
  BY <1>1, <1>2, <1>3
<1>8. /\ \A i \in DOMAIN b : cpc[b[i]] # "start"
      /\ \A i, j \in DOMAIN b : b[i] = b[j] => i = j
  BY <1>2, <1>5 DEF Server
<1>9. \A i \in DOMAIN backlog' : backlog'[i] # c /\ \E j \in DOMAIN b : b[j] = backlog'[i]
  <2>1. SUFFICES ASSUME NEW i \in DOMAIN Tail(b) PROVE Tail(b)[i] # c /\ \E j \in DOMAIN b : b[j] = Tail(b)[i]
    BY <1>7
  <2>2. i + 1 # 1 /\ i + 1 \in DOMAIN b
    BY <1>6
  <2>3. QED
    BY <1>6, <1>8, <2>2
<1>10. \A d : SentUnits(d)' = SentUnits(d) /\ ReplyUnits(d)' = ReplyUnits(d)
  BY <1>4, SameScript
<1>11. Types'
  <2>1. backlog' \in Seq(Clients)
    BY <1>6, <1>7
  <2>2. QED
    BY <1>1, <1>4, <1>5, <1>10, <2>1 DEF Types
<1>12. Server'
  <2>1. cpc[c] # "start"
    BY <1>6, <1>8
  <2>2. \A i \in DOMAIN backlog' : cpc'[backlog'[i]] # "start" /\ backlog'[i] \notin serving'
    BY <1>4, <1>7, <1>8, <1>9
  <2>3. \A i, j \in DOMAIN backlog' : backlog'[i] = backlog'[j] => i = j
    <3>1. SUFFICES ASSUME NEW i \in DOMAIN Tail(b), NEW j \in DOMAIN Tail(b), Tail(b)[i] = Tail(b)[j] PROVE i = j
      BY <1>7
    <3>2. i + 1 = j + 1 /\ i \in Nat /\ j \in Nat
      BY <1>6, <1>8, <3>1
    <3>3. QED
      BY <3>2
  <2>4. replies' \in Seq(ReplyUnits(c))'
    BY <1>1, <1>5
  <2>5. serving' = {c} /\ cpc'[c] # "start" /\ spc' = "header" /\ replies' = <<>> /\ UNCHANGED <<script, at, stop>>
    BY <1>1, <1>4, <1>5, <1>7, <2>1
  <2>6. QED
    BY <1>5, <1>6, <2>2, <2>3, <2>4, <2>5 DEF Server
<1>13. ASSUME NEW d \in Clients \ {c} PROVE Client(d)'
  <2>1. Down(d)' = Down(d) /\ d \notin serving'
    BY <1>1, <1>5, <1>7 DEF Down
  <2>2. Unserved(d)' => Unserved(d)
    BY <1>2, <1>4, <1>9 DEF Unserved
  <2>3. ServerGone => ServerGone'
    BY <1>1 DEF ServerGone
  <2>4. QED
    BY <1>1, <1>4, <2>1, <2>2, <2>3, Untouched DEF ProtocolInv, Cut
<1>14. Client(c)'
  <2>1. Unserved(c) /\ ~Unserved(c)' /\ cpc[c] # "start"
    BY <1>2, <1>4, <1>6, <1>8, <1>9 DEF Unserved
  <2>2. Client(c) /\ Up(c)' = Up(c) /\ Down(c)' = Down(c) /\ ~ServerGone /\ ~ServerGone'
    BY <1>1, <1>4, <1>5, <1>6, <1>7 DEF ProtocolInv, Up, Down, ServerGone
  <2>3. Stream(c)'
    <3>1. ASSUME NEW p \in Places(c), Starts(c, p) PROVE Starts(c, p)'
      <4>1. p = <<1, 1>>
        BY <2>1, <3>1 DEF Starts
      <4>2. QED
        BY <1>1, <2>1, <4>1 DEF Starts
    <3>2. ASSUME NEW p \in Places(c), Ends(c, p) PROVE Ends(c, p)'
      BY <1>4, <2>2, <3>2, SameScript DEF Ends
    <3>3. QED
      BY <1>4, <1>5, <1>6, <2>2, <3>1, <3>2, SameStream DEF Client
  <2>4. Drained(c)'
    <3>1. SUFFICES ASSUME Up(c) = <<>> PROVE Quiet(c)'
      BY <1>1, <2>1, <2>2 DEF Drained
    <3>2. at[c] = 1 /\ cpc[c] # "wait"
      BY <2>1, <2>2, <3>1 DEF Client, Drained
    <3>3. outbox[c] = <<>>
      BY <1>5, <1>6, <3>1, Streams
    <3>4. cpc[c] \in {"idle", "closed"}
      BY <1>5, <1>6, <2>1, <2>2, <3>2, <3>3 DEF Types, Client, ClientFits
    <3>5. QED
      BY <1>4, <3>2, <3>4 DEF Quiet
  <2>5. ClientFits(c)'
    BY <1>1, <1>4, <2>2, SameScript DEF Client, ClientFits
  <2>6. Answering(c)'
    <3>1. /\ \A k : Reply(c, k)' = Reply(c, k)
          /\ \A k, f : Prints(c, k, f)' = Prints(c, k, f)
      BY <1>4, SameScript, SamePrint
    <3>2. \A j : HalfWay(c, j)' = HalfWay(c, j)
      BY <1>4, <2>2, <3>1 DEF HalfWay
    <3>3. QED
      BY <1>1, <1>4, <2>2, <3>1, <3>2 DEF Client, Answering, Cut
  <2>7. QED
    BY <2>3, <2>4, <2>5, <2>6 DEF Client
<1>15. EndsAsKnown'
  BY <1>1 DEF EndsAsKnown
<1>16. QED
  BY <1>11, <1>12, <1>13, <1>14, <1>15 DEF ProtocolInv

-----------------------------------------------------------------------------
(* The theorems. *)

LEMMA NoStream ==
  ASSUME NEW c, Up(c) = <<>>
  PROVE  Stream(c)
<1>1. PICK w : w = [i \in 1..0 |-> <<1, 1>>]
  OBVIOUS
<1>2. Len(Up(c)) = 0
  BY EmptySeq
<1>3. w \in [1..Len(Up(c)) -> Places(c)]
  BY <1>1, <1>2
<1>4. Along(c, w)
  BY <1>2, <1>3 DEF Along
<1>5. QED
  BY <1>3, <1>4 DEF Stream, Lies

LEMMA InvAtStart ==
  ASSUME Init
  PROVE  ProtocolInv
<1>1. /\ script \in Scripts /\ at = [c \in Clients |-> 1] /\ cpc = [c \in Clients |-> "start"]
      /\ outbox = [c \in Clients |-> <<>>] /\ printed = [c \in Clients |-> <<>>] /\ reset = {} /\ deaths = {}
      /\ backlog = <<>> /\ toServer = [c \in Clients |-> <<>>] /\ toClient = [c \in Clients |-> <<>>]
      /\ spc = "accept" /\ serving = {} /\ replies = <<>> /\ stop = FALSE
  BY DEF Init
<1>2. Types
  <2>1. \A c \in Clients : script[c] \in Seq(Commands)
    BY <1>1, ScriptsTyped
  <2>2. \A c \in Clients : at[c] <= Len(script[c]) + 1
    <3>1. \A c \in Clients : Len(script[c]) \in Nat
      BY <2>1
    <3>2. QED
      BY <1>1, <3>1
  <2>3. printed \in [Clients -> Seq(Nat \X Nat \X Nat)]
    <3>1. PICK S : S = Nat \X Nat \X Nat
      OBVIOUS
    <3>2. printed \in [Clients -> Seq(S)]
      BY <1>1
    <3>3. QED
      BY <3>1, <3>2
  <2>4. /\ \A c \in Clients : at[c] \in Nat \ {0} /\ outbox[c] = <<>> /\ toServer[c] = <<>> /\ toClient[c] = <<>>
        /\ at \in [Clients -> Nat \ {0}] /\ cpc \in [Clients -> {"start", "idle", "send", "wait", "closed"}]
        /\ DOMAIN outbox = Clients /\ DOMAIN toServer = Clients /\ DOMAIN toClient = Clients
    BY <1>1
  <2>5. \A c \in Clients : /\ outbox[c] \in Seq(SentUnits(c)) /\ toServer[c] \in Seq(SentUnits(c))
                           /\ toClient[c] \in Seq(ReplyUnits(c))
    BY <2>4, EmptySeq
  <2>6. backlog \in Seq(Clients) /\ reset \subseteq Clients /\ deaths \subseteq Clients /\ stop \in BOOLEAN
    BY <1>1, EmptySeq
  <2>7. QED
    BY <1>1, <2>2, <2>3, <2>4, <2>5, <2>6 DEF Types
<1>3. Server
  BY <1>1 DEF Server
<1>4. ASSUME NEW c \in Clients PROVE Client(c)
  <2>1. Up(c) = <<>> /\ Down(c) = <<>>
    BY <1>1 DEF Up, Down
  <2>2. Stream(c)
    BY <2>1, NoStream
  <2>3. Drained(c)
    BY <1>1 DEF Drained
  <2>4. ClientFits(c)
    BY <1>1 DEF ClientFits
  <2>5. Prints(c, at[c], 0)
    <3>1. at[c] = 1 /\ printed[c] = <<>> /\ DOMAIN printed[c] = {}
      BY <1>1
    <3>2. 1..(1 - 1) = {} /\ 0..(0 - 1) = {}
      OBVIOUS
    <3>3. QED
      BY <3>1, <3>2 DEF Prints
  <2>6. Answering(c)
    BY <1>1, <2>1, <2>5 DEF Answering
  <2>7. QED
    BY <2>2, <2>3, <2>4, <2>6 DEF Client
<1>5. EndsAsKnown
  BY <1>1 DEF EndsAsKnown
<1>6. QED
  BY <1>2, <1>3, <1>4, <1>5 DEF ProtocolInv

LEMMA StutterKeeps ==
  ASSUME ProtocolInv, UNCHANGED vars
  PROVE  ProtocolInv'
<1>1. UNCHANGED <<script, at, cpc, outbox, printed, reset, deaths, backlog, toServer, toClient,
                  spc, serving, hdr, replies, stop>>
  BY DEF vars, clientVars, serverVars
<1>2. \A d : SentUnits(d)' = SentUnits(d) /\ ReplyUnits(d)' = ReplyUnits(d)
  BY <1>1, SameScript
<1>3. Types' /\ Server'
  BY <1>1, <1>2 DEF ProtocolInv, Types, Server
<1>4. ASSUME NEW d \in Clients PROVE Client(d)'
  <2>1. Down(d)' = Down(d) /\ (Unserved(d)' => Unserved(d)) /\ (ServerGone => ServerGone')
    BY <1>1 DEF Down, Unserved, ServerGone
  <2>2. QED
    BY <1>1, <2>1, Untouched DEF ProtocolInv, Cut
<1>5. EndsAsKnown'
  BY <1>1 DEF ProtocolInv, EndsAsKnown, Blamed, NoMore, Command, Answered
<1>6. QED
  BY <1>3, <1>4, <1>5 DEF ProtocolInv

LEMMA InvKept ==
  ASSUME ProtocolInv, [Next]_vars
  PROVE  ProtocolInv'
<1>1. ASSUME NEW c \in Clients, ClientStep(c) PROVE ProtocolInv'
  <2>1. CASE Connect(c)
    BY <2>1, ConnectKeeps
  <2>2. CASE ReadCommand(c)
    BY <2>2, ReadKeeps
  <2>3. CASE Send(c)
    BY <2>3, SendKeeps
  <2>4. CASE Receive(c)
    BY <2>4, ReceiveKeeps
  <2>5. CASE Close(c)
    BY <2>5, CloseKeeps
  <2>6. QED
    BY <1>1, <2>1, <2>2, <2>3, <2>4, <2>5 DEF ClientStep
<1>2. ASSUME NEW c \in Clients, Die(c) PROVE ProtocolInv'
  BY <1>2, DieKeeps
<1>3. CASE Accept
  BY <1>3, AcceptKeeps
<1>4. ASSUME NEW c \in serving,
             \/ RecvHeader(c) \/ ClientGone(c) \/ RecvPayload(c) \/ SendReply(c)
             \/ RecvChunk(c) \/ RecvCsvHeader(c) \/ CutOff(c)
      PROVE  ProtocolInv'
  <2>1. CASE RecvHeader(c)
    BY <2>1, RecvHeaderKeeps
  <2>2. CASE ClientGone(c)
    BY <2>2, ClientGoneKeeps
  <2>3. CASE RecvPayload(c)
    BY <2>3, RecvPayloadKeeps
  <2>4. CASE SendReply(c)
    BY <2>4, SendReplyKeeps
  <2>5. CASE RecvChunk(c)
    BY <2>5, RecvChunkKeeps
  <2>6. CASE RecvCsvHeader(c)
    BY <2>6, RecvCsvHeaderKeeps
  <2>7. CASE CutOff(c)
    BY <2>7, CutOffKeeps
  <2>8. QED
    BY <1>4, <2>1, <2>2, <2>3, <2>4, <2>5, <2>6, <2>7
<1>5. CASE UNCHANGED vars
  BY <1>5, StutterKeeps
<1>6. QED
  BY <1>1, <1>2, <1>3, <1>4, <1>5 DEF Next, ServerStep

(* What is under way between every client and the server is what it should *)
(* be, in every state: the invariant of client.c, server.c and message.c.  *)
THEOREM StreamsInStep == Spec => []ProtocolInv
<1>1. Init => ProtocolInv
  BY InvAtStart
<1>2. ProtocolInv /\ [Next]_vars => ProtocolInv'
  BY InvKept
<1>3. QED
  BY <1>1, <1>2, PTL DEF Spec

(* Replies arrive whole: before its next command a client has printed every *)
(* byte of every reply once, in order, and nothing else, however            *)
(* split_message cut the text and whoever died before or meanwhile.         *)
THEOREM RepliesArriveWhole == Spec => []RepliesWhole
<1>1. ProtocolInv => RepliesWhole
  <2>1. SUFFICES ASSUME ProtocolInv PROVE RepliesWhole
    OBVIOUS
  <2>2. Types /\ Server
    BY <2>1 DEF ProtocolInv
  <2>3. Cardinality(serving) <= 1
    <3>1. CASE serving = {}
      BY <3>1, FS_EmptySet
    <3>2. CASE \E c \in Clients : serving = {c}
      <4>1. PICK c : serving = {c}
        BY <3>2
      <4>2. Cardinality(serving) = 1
        BY <4>1, FS_Singleton
      <4>3. QED
        BY <4>2
    <3>3. QED
      BY <2>2, <3>1, <3>2 DEF Server
  <2>4. ASSUME NEW c \in Clients
        PROVE  at[c] \in 1..(Len(script[c]) + 1) /\ cpc[c] \in {"start", "idle", "send", "wait", "closed"}
    <3>1. script[c] \in Seq(Commands)
      BY <2>2, ScriptsTyped DEF Types
    <3>2. QED
      BY <2>2, <3>1 DEF Types
  <2>5. TypeOK
    BY <2>2, <2>3, <2>4 DEF TypeOK, Types
  <2>6. ASSUME NEW c \in Clients, cpc[c] \in {"idle", "send"} PROVE Prints(c, at[c], 0)
    BY <2>1, <2>6 DEF ProtocolInv, Client, Answering
  <2>7. QED
    BY <2>5, <2>6 DEF RepliesWhole
<1>2. QED
  BY <1>1, StreamsInStep, PTL

(* The server ends only as it is known to: it fails only over the client it *)
(* serves, which died, waits for a statement that Session lets abort, sent  *)
(* a file that is empty or names an unknown column, or closed with a        *)
(* transfer, or nothing, as the last thing it sent; and it exits only when  *)
(* asked to (handle_client, partial_load).                                  *)
THEOREM ServerEndsAsKnown == Spec => []EndsAsKnown
<1>1. ProtocolInv => EndsAsKnown
  BY DEF ProtocolInv
<1>2. QED
  BY <1>1, StreamsInStep, PTL

-----------------------------------------------------------------------------
(***************************************************************************)
(* Reading a text.  A fold is a recursive function over the sets of places *)
(* of the sequence; that there is one, and only one, is shown for a least  *)
(* set without.                                                            *)
(***************************************************************************)
\* the provers do not know that a string is in STRING
Chars == STRING \cup {"header", "nl", ","}
Reads(l, s, S, g) == g = [t \in SUBSET S |-> IF t = {} THEN l ELSE CharStep(g[t \ {Max(t)}], s[Max(t)])]

\* A set of finite sets has one of which no proper subset is in it.
LEMMA Smallest ==
  ASSUME NEW A, A # {}, \A s \in A : IsFiniteSet(s)
  PROVE  \E s \in A : \A t \in A : t \subseteq s => t = s
<1>1. PICK R : R = OpToRel(<, Nat)
  OBVIOUS
<1>2. IsWellFoundedOn(R, Nat)
  BY <1>1, NatLessThanWellFounded
<1>3. PICK N : N = {Cardinality(s) : s \in A}
  OBVIOUS
<1>4. N \subseteq Nat /\ N # {}
  BY <1>3, FS_CardinalityType
<1>5. PICK n \in N : \A k \in N : ~ (<<k, n>> \in R)
  BY <1>2, <1>4, WFMin
<1>6. PICK s \in A : n = Cardinality(s)
  BY <1>3
<1>7. ASSUME NEW t \in A, t \subseteq s, t # s PROVE FALSE
  <2>1. Cardinality(t) < Cardinality(s)
    <3>1. IsFiniteSet(s) /\ IsFiniteSet(t)
      OBVIOUS
    <3>2. Cardinality(t) <= Cardinality(s) /\ Cardinality(t) # Cardinality(s)
      BY <1>7, <3>1, FS_Subset
    <3>3. QED
      BY <3>1, <3>2, FS_CardinalityType
  <2>2. Cardinality(t) \in N /\ Cardinality(t) \in Nat /\ n \in Nat
    BY <1>3, <1>4
  <2>3. <<Cardinality(t), n>> \in R
    BY <1>1, <1>6, <2>1, <2>2 DEF OpToRel
  <2>4. QED
    BY <1>5, <2>2, <2>3
<1>8. QED
  BY <1>6, <1>7

\* A nonempty set of places has a last one.
LEMMA LastPlace ==
  ASSUME NEW n \in Nat, NEW t \in SUBSET (1 .. n), t # {}
  PROVE  Max(t) \in t /\ \A y \in t : y <= Max(t)
<1>1. PICK R : R = OpToRel(<, Nat)
  OBVIOUS
<1>2. IsWellFoundedOn(R, Nat)
  BY <1>1, NatLessThanWellFounded
<1>3. PICK N : N = {n - y : y \in t}
  OBVIOUS
<1>4. N \subseteq Nat /\ N # {}
  <2>1. \A y \in t : n - y \in Nat
    OBVIOUS
  <2>2. N \subseteq Nat
    BY <1>3, <2>1, Zenon
  <2>3. N # {}
    BY <1>3, Zenon
  <2>4. QED
    BY <2>2, <2>3
<1>5. PICK m \in N : \A k \in N : ~ (<<k, m>> \in R)
  BY <1>2, <1>4, WFMin
<1>6. PICK x \in t : m = n - x
  BY <1>3
<1>7. ASSUME NEW y \in t PROVE x >= y
  <2>1. n - y \in N /\ n - y \in Nat /\ m \in Nat
    BY <1>3, <1>4
  <2>2. ~ (n - y < m)
    BY <1>1, <1>5, <2>1 DEF OpToRel
  <2>3. x \in Int /\ y \in Int
    OBVIOUS
  <2>4. QED
    BY <1>6, <2>2, <2>3
<1>8. PICK z : z = Max(t)
  OBVIOUS
<1>9. z \in t /\ \A y \in t : z >= y
  <2>1. \E q \in t : \A y \in t : q >= y
    BY <1>7
  <2>2. z = CHOOSE q \in t : \A y \in t : q >= y
    BY <1>8 DEF Max
  <2>3. QED
    BY <2>1, <2>2, Zenon
<1>10. QED
  BY <1>8, <1>9

\* What is read of some places is read of their subsets.
LEMMA ReadsBelow ==
  ASSUME NEW l, NEW s, NEW S, NEW g, Reads(l, s, S, g), NEW T, T \subseteq S
  PROVE  Reads(l, s, T, [t \in SUBSET T |-> g[t]])
<1>1. PICK h : h = [t \in SUBSET T |-> g[t]]
  OBVIOUS
<1>2. ASSUME NEW t \in SUBSET T
      PROVE  h[t] = IF t = {} THEN l ELSE CharStep(h[t \ {Max(t)}], s[Max(t)])
  <2>1. h[t] = g[t] /\ h[t \ {Max(t)}] = g[t \ {Max(t)}]
    BY <1>1
  <2>2. t \in SUBSET S
    OBVIOUS
  <2>3. g[t] = IF t = {} THEN l ELSE CharStep(g[t \ {Max(t)}], s[Max(t)])
    BY <2>2 DEF Reads
  <2>4. QED
    BY <2>1, <2>3
<1>3. h = [t \in SUBSET T |-> IF t = {} THEN l ELSE CharStep(h[t \ {Max(t)}], s[Max(t)])]
  BY <1>1, <1>2
<1>4. QED
  BY <1>1, <1>3 DEF Reads

LEMMA ReadsOnce ==
  ASSUME NEW l, NEW s, NEW n \in Nat, NEW S \in SUBSET (1 .. n), NEW g, NEW h, Reads(l, s, S, g), Reads(l, s, S, h)
  PROVE  g = h
<1>1. PICK A : A = {t \in SUBSET S : g[t] # h[t]}
  OBVIOUS
<1>2. CASE A = {}
  <2>1. \A t \in SUBSET S : g[t] = h[t]
    BY <1>1, <1>2
  <2>2. DOMAIN g = SUBSET S /\ DOMAIN h = SUBSET S /\ g = [t \in DOMAIN g |-> g[t]] /\ h = [t \in DOMAIN h |-> h[t]]
    BY DEF Reads
  <2>3. QED
    BY <2>1, <2>2
<1>3. CASE A # {}
  <2>1. \A t \in A : IsFiniteSet(t)
    <3>1. IsFiniteSet(1 .. n)
      BY FS_Interval
    <3>2. \A t \in A : t \subseteq 1 .. n
      BY <1>1
    <3>3. QED
      BY <3>1, <3>2, FS_Subset, Zenon
  <2>2. PICK t \in A : \A u \in A : u \subseteq t => u = t
    BY <1>3, <2>1, Smallest
  <2>3. t \in SUBSET S /\ g[t] # h[t]
    BY <1>1
  <2>4. /\ g[t] = IF t = {} THEN l ELSE CharStep(g[t \ {Max(t)}], s[Max(t)])
        /\ h[t] = IF t = {} THEN l ELSE CharStep(h[t \ {Max(t)}], s[Max(t)])
    BY <2>3 DEF Reads
  <2>5. t # {} /\ t \ {Max(t)} \subseteq t /\ t \ {Max(t)} # t
    BY <2>3, <2>4, LastPlace
  <2>6. t \ {Max(t)} \in SUBSET S /\ t \ {Max(t)} \notin A
    BY <2>2, <2>3, <2>5
  <2>7. QED
    BY <1>1, <2>3, <2>4, <2>6
<1>4. QED
  BY <1>2, <1>3

\* What is read of a sequence up to its k-th place is a value at 1 .. k.
LEMMA ReadIs ==
  ASSUME NEW l, NEW s, NEW n \in Nat, DOMAIN s = 1 .. n, NEW g, Reads(l, s, 1 .. n, g)
  PROVE  Read(l, s) = g[1 .. n]
<1>1. PICK k : k = (CHOOSE q : Reads(l, s, DOMAIN s, q))
  OBVIOUS
<1>2. Reads(l, s, 1 .. n, k)
  BY <1>1
<1>3. k = g
  BY <1>2, ReadsOnce
<1>4. Read(l, s) = (CHOOSE q : Reads(l, s, DOMAIN s, q))[DOMAIN s]
  BY Zenon DEF Read, FoldLeft, MapThenFoldSet, Reads
<1>5. QED
  BY <1>1, <1>3, <1>4

\* There is something to read of every sequence.
LEMMA ReadsExist ==
  ASSUME NEW l, NEW s, NEW n \in Nat
  PROVE  \E g : Reads(l, s, 1 .. n, g)
<1>1. PICK A : A = {S \in SUBSET (1 .. n) : ~ \E g : Reads(l, s, S, g)}
  OBVIOUS
<1>2. CASE A = {}
  BY <1>1, <1>2
<1>3. CASE A # {}
  <2>1. \A S \in A : IsFiniteSet(S)
    <3>1. IsFiniteSet(1 .. n)
      BY FS_Interval
    <3>2. \A t \in A : t \subseteq 1 .. n
      BY <1>1
    <3>3. QED
      BY <3>1, <3>2, FS_Subset, Zenon
  <2>2. PICK S \in A : \A u \in A : u \subseteq S => u = S
    BY <1>3, <2>1, Smallest
  <2>3. S \in SUBSET (1 .. n) /\ ~ \E g : Reads(l, s, S, g)
    BY <1>1
  <2>4. PICK own : own = [t \in SUBSET (1 .. n) |-> CHOOSE g : Reads(l, s, t, g)]
    OBVIOUS
  <2>5. ASSUME NEW t \in SUBSET S, t # S PROVE Reads(l, s, t, own[t])
    <3>1. t \in SUBSET (1 .. n) /\ t \notin A
      BY <2>2, <2>3, <2>5
    <3>2. \E g : Reads(l, s, t, g)
      BY <1>1, <3>1
    <3>3. own[t] = CHOOSE g : Reads(l, s, t, g)
      BY <2>4, <3>1
    <3>4. QED
      BY <3>2, <3>3, Zenon
  <2>6. ASSUME NEW t \in SUBSET S, t # S, t # {}
        PROVE  own[t][t] = CharStep(own[t \ {Max(t)}][t \ {Max(t)}], s[Max(t)])
    <3>1. PICK u : u = t \ {Max(t)}
      OBVIOUS
    <3>2. u \in SUBSET S /\ u # S /\ u \subseteq t
      BY <2>6, <3>1
    <3>3. Reads(l, s, t, own[t]) /\ Reads(l, s, u, own[u])
      BY <2>5, <2>6, <3>2
    <3>4. PICK h : h = [v \in SUBSET u |-> own[t][v]]
      OBVIOUS
    <3>5. Reads(l, s, u, h)
      BY <3>2, <3>3, <3>4, ReadsBelow
    <3>6. h = own[u]
      <4>1. u \in SUBSET (1 .. n)
        BY <2>3, <3>2
      <4>2. QED
        BY <3>3, <3>5, <4>1, ReadsOnce
    <3>7. own[t][u] = own[u][u]
      BY <3>4, <3>6
    <3>8. own[t][t] = CharStep(own[t][u], s[Max(t)])
      BY <2>6, <3>1, <3>3 DEF Reads
    <3>9. QED
      BY <3>1, <3>7, <3>8
  <2>7. PICK h : h = [t \in SUBSET S |-> IF t = {} THEN l
                        ELSE CharStep(own[t \ {Max(t)}][t \ {Max(t)}], s[Max(t)])]
    OBVIOUS
  <2>8. ASSUME NEW t \in SUBSET S, t # {} PROVE h[t \ {Max(t)}] = own[t \ {Max(t)}][t \ {Max(t)}]
    <3>1. PICK u : u = t \ {Max(t)}
      OBVIOUS
    <3>2. u \in SUBSET S /\ u # S
      BY <2>3, <2>8, <3>1, LastPlace
    <3>3. CASE u = {}
      <4>1. h[u] = l
        BY <2>7, <3>2, <3>3
      <4>2. own[u][u] = l
        BY <2>5, <3>2, <3>3 DEF Reads
      <4>3. QED
        BY <3>1, <4>1, <4>2
    <3>4. CASE u # {}
      <4>1. h[u] = CharStep(own[u \ {Max(u)}][u \ {Max(u)}], s[Max(u)])
        BY <2>7, <3>2, <3>4
      <4>2. QED
        BY <2>6, <3>1, <3>2, <3>4, <4>1
    <3>5. QED
      BY <3>3, <3>4
  <2>9. h = [t \in SUBSET S |-> IF t = {} THEN l ELSE CharStep(h[t \ {Max(t)}], s[Max(t)])]
    BY <2>7, <2>8
  <2>10. QED
    BY <2>3, <2>9 DEF Reads
<1>4. QED
  BY <1>2, <1>3

LEMMA ReadNothing ==
  ASSUME NEW l
  PROVE  Read(l, <<>>) = l
<1>1. PICK g : Reads(l, <<>>, 1 .. 0, g)
  BY ReadsExist
<1>2. Read(l, <<>>) = g[1 .. 0]
  BY <1>1, ReadIs
<1>3. 1 .. 0 = {} /\ {} \in SUBSET (1 .. 0)
  OBVIOUS
<1>4. g[{}] = l
  BY <1>1, <1>3 DEF Reads
<1>5. QED
  BY <1>2, <1>3, <1>4

LEMMA Longer ==
  ASSUME NEW S, NEW s \in Seq(S), NEW x \in S
  PROVE  /\ Append(s, x) \in Seq(S)
         /\ Len(Append(s, x)) = Len(s) + 1
         /\ \A i \in 1 .. Len(s) : Append(s, x)[i] = s[i]
         /\ Append(s, x)[Len(s) + 1] = x
OBVIOUS

LEMMA ReadOne ==
  ASSUME NEW l, NEW s \in Seq(Chars), NEW x \in Chars
  PROVE  Read(l, Append(s, x)) = CharStep(Read(l, s), x)
<1>1. PICK n, a : n = Len(s) /\ a = Append(s, x)
  OBVIOUS
<1>2. n \in Nat /\ DOMAIN s = 1 .. n
  BY <1>1, LenProperties
<1>3. a \in Seq(Chars) /\ Len(a) = n + 1 /\ (\A i \in 1 .. n : a[i] = s[i]) /\ a[n + 1] = x
  <2>1. /\ Append(s, x) \in Seq(Chars)
        /\ Len(Append(s, x)) = Len(s) + 1
        /\ \A i \in 1 .. Len(s) : Append(s, x)[i] = s[i]
        /\ Append(s, x)[Len(s) + 1] = x
    BY Longer, Zenon
  <2>2. QED
    BY <1>1, <2>1, Zenon
<1>4. DOMAIN a = 1 .. n + 1
  BY <1>3, LenProperties
<1>5. PICK g : Reads(l, a, 1 .. n + 1, g)
  <2>1. n + 1 \in Nat
    BY <1>2
  <2>2. QED
    BY <2>1, ReadsExist
<1>6. Read(l, a) = g[1 .. n + 1]
  <2>1. n + 1 \in Nat
    BY <1>2
  <2>2. QED
    BY <1>4, <1>5, <2>1, ReadIs
<1>7. 1 .. n \subseteq 1 .. n + 1 /\ n + 1 \in 1 .. n + 1 /\ 1 .. n + 1 # {}
  <2>1. 1 .. n \subseteq 1 .. n + 1 /\ n + 1 \in 1 .. n + 1
    BY <1>2
  <2>2. QED
    BY <2>1, Zenon
<1>8. Max(1 .. n + 1) = n + 1
  <2>1. PICK m : m = Max(1 .. n + 1)
    OBVIOUS
  <2>2. n + 1 \in Nat
    BY <1>2
  <2>3. m \in 1 .. n + 1 /\ \A y \in 1 .. n + 1 : y <= m
    BY <1>7, <2>1, <2>2, LastPlace
  <2>4. QED
    BY <1>2, <2>1, <2>3
<1>9. 1 .. n + 1 \ {n + 1} = 1 .. n
  BY <1>2
<1>10. g[1 .. n + 1] = CharStep(g[1 .. n], x)
  <2>1. PICK t : t = 1 .. n + 1
    OBVIOUS
  <2>2. t \in SUBSET (1 .. n + 1) /\ t # {}
    BY <1>7, <2>1
  <2>3. g[t] = CharStep(g[t \ {Max(t)}], a[Max(t)])
    BY <1>5, <2>2 DEF Reads
  <2>4. QED
    BY <1>3, <1>8, <1>9, <2>1, <2>3
<1>11. PICK h : h = [t \in SUBSET (1 .. n) |-> g[t]]
  OBVIOUS
<1>12. Reads(l, a, 1 .. n, h)
  BY <1>5, <1>7, <1>11, ReadsBelow
<1>13. Reads(l, s, 1 .. n, h)
  <2>1. \A t \in SUBSET (1 .. n) : t # {} => Max(t) \in 1 .. n
    BY <1>2, LastPlace
  <2>2. \A t \in SUBSET (1 .. n) : t # {} => a[Max(t)] = s[Max(t)]
    BY <1>3, <2>1
  <2>3. h = [t \in SUBSET (1 .. n) |-> IF t = {} THEN l ELSE CharStep(h[t \ {Max(t)}], a[Max(t)])]
    BY <1>12 DEF Reads
  <2>4. h = [t \in SUBSET (1 .. n) |-> IF t = {} THEN l ELSE CharStep(h[t \ {Max(t)}], s[Max(t)])]
    BY <2>2, <2>3
  <2>5. QED
    BY <2>4 DEF Reads
<1>14. Read(l, s) = h[1 .. n]
  BY <1>2, <1>13, ReadIs
<1>15. QED
  BY <1>1, <1>6, <1>10, <1>11, <1>14

LEMMA LeastOne ==
  ASSUME NEW A, A \subseteq Nat, A # {}
  PROVE  \E n \in A : \A k \in A : n <= k
<1>1. PICK R : R = OpToRel(<, Nat)
  OBVIOUS
<1>2. IsWellFoundedOn(R, Nat)
  BY <1>1, NatLessThanWellFounded
<1>3. PICK n \in A : \A k \in A : ~ (<<k, n>> \in R)
  BY <1>2, WFMin
<1>4. ASSUME NEW k \in A PROVE n <= k
  <2>1. k \in Nat /\ n \in Nat
    OBVIOUS
  <2>2. ~ (k < n)
    BY <1>1, <1>3, <2>1 DEF OpToRel
  <2>3. QED
    BY <2>1, <2>2
<1>5. QED
  BY <1>4

\* A shortest text of some is empty, or one longer than a text that is none of them.
LEMMA ShortestText ==
  ASSUME NEW S, NEW A, A \subseteq Seq(S), A # {}
  PROVE  \/ <<>> \in A
         \/ \E v \in Seq(S), x \in S : v \notin A /\ Append(v, x) \in A
<1>1. PICK N : N = {Len(u) : u \in A}
  OBVIOUS
<1>2. N \subseteq Nat /\ N # {}
  <2>1. \A u \in A : Len(u) \in Nat
    BY LenProperties
  <2>2. QED
    BY <1>1, <2>1
<1>3. PICK m \in N : \A k \in N : m <= k
  BY <1>2, LeastOne
<1>4. PICK u \in A : m = Len(u)
  BY <1>1
<1>5. CASE u # <<>>
  <2>1. u \in Seq(S)
    OBVIOUS
  <2>2. PICK v \in Seq(S), x \in S : u = Append(v, x)
    BY <1>5, <2>1, SequenceEmptyOrAppend
  <2>3. Len(v) \in Nat /\ m = Len(v) + 1
    BY <1>4, <2>2
  <2>4. v \notin A
    BY <1>1, <1>3, <2>3
  <2>5. QED
    BY <2>2, <2>4
<1>6. QED
  BY <1>5

\* Of two texts, the second is read from where the first was left.
LEMMA ReadOn ==
  ASSUME NEW l, NEW s \in Seq(Chars), NEW t \in Seq(Chars)
  PROVE  Read(l, s \o t) = Read(Read(l, s), t)
<1>1. PICK A : A = {u \in Seq(Chars) : Read(l, s \o u) # Read(Read(l, s), u)}
  OBVIOUS
<1>2. <<>> \notin A
  <2>1. s \o <<>> = s
    BY ConcatEmptySeq
  <2>2. QED
    BY <1>1, <2>1, ReadNothing
<1>3. ASSUME NEW v \in Seq(Chars), NEW x \in Chars, v \notin A PROVE Append(v, x) \notin A
  <2>1. Read(l, s \o v) = Read(Read(l, s), v)
    BY <1>1, <1>3
  <2>2. s \o Append(v, x) = Append(s \o v, x) /\ s \o v \in Seq(Chars)
    <3>1. s \o v \in Seq(Chars)
      BY ConcatProperties
    <3>2. <<x>> \in Seq(Chars)
      <4>1. \A S : \A y \in S : <<y>> \in Seq(S)
        OBVIOUS
      <4>2. QED
        BY <4>1
    <3>3. Append(v, x) = v \o <<x>> /\ Append(s \o v, x) = (s \o v) \o <<x>>
      BY <3>1, AppendIsConcat
    <3>4. (s \o v) \o <<x>> = s \o (v \o <<x>>)
      BY <3>2, ConcatAssociative
    <3>5. QED
      BY <3>1, <3>3, <3>4
  <2>3. Read(l, s \o Append(v, x)) = CharStep(Read(l, s \o v), x)
    <3>1. PICK y : y = s \o v
      OBVIOUS
    <3>2. y \in Seq(Chars) /\ s \o Append(v, x) = Append(y, x)
      BY <2>2, <3>1
    <3>3. Read(l, Append(y, x)) = CharStep(Read(l, y), x)
      BY <3>2, ReadOne
    <3>4. QED
      BY <3>1, <3>2, <3>3
  <2>4. Read(Read(l, s), Append(v, x)) = CharStep(Read(Read(l, s), v), x)
    BY ReadOne
  <2>5. QED
    BY <1>1, <2>1, <2>3, <2>4
<1>4. A = {}
  <2>1. A \subseteq Seq(Chars)
    BY <1>1
  <2>2. QED
    BY <1>2, <1>3, <2>1, ShortestText
<1>5. QED
  BY <1>1, <1>4

-----------------------------------------------------------------------------
(* What partial_load makes of a row, and of the prefixes of a file. *)

Loading(l) == l = [begun |-> l.begun, columns |-> l.columns, col |-> l.col, result |-> l.result, negative |-> l.negative]
(* l, with the number m is reading *)
With(l, m) == [begun |-> l.begun, columns |-> l.columns, col |-> l.col, result |-> m.result, negative |-> m.negative]
Inner(c) == c \notin {",", "nl"}
Plain(s) == \A i \in DOMAIN s : Inner(s[i])

LEMMA StepLoading ==
  ASSUME NEW l, Loading(l), NEW c
  PROVE  Loading(CharStep(l, c)) /\ CharStep(l, c).begun = l.begun
<1>1. PICK b, cs, k, r, n : l = [begun |-> b, columns |-> cs, col |-> k, result |-> r, negative |-> n]
  BY DEF Loading
<1>2. CASE c = "-"
  <2>1. CharStep(l, c) = [begun |-> b, columns |-> cs, col |-> k, result |-> r, negative |-> TRUE]
    BY <1>1, <1>2 DEF CharStep
  <2>2. QED
    BY <1>1, <2>1 DEF Loading
<1>3. ASSUME NEW next PROVE Loading(Pushed(l, next)) /\ Pushed(l, next).begun = l.begun
  <2>1. PICK ds : ds = [cs EXCEPT ![k] = Append(@, Value(l))]
    OBVIOUS
  <2>2. l.columns = cs /\ l.col = k
    BY <1>1
  <2>3. Pushed(l, next) = [l EXCEPT !.columns = ds, !.col = next, !.result = 0, !.negative = FALSE]
    BY <1>1, <2>1, <2>2 DEF Pushed
  <2>4. Pushed(l, next) = [begun |-> b, columns |-> ds, col |-> next, result |-> 0, negative |-> FALSE]
    BY <1>1, <2>3
  <2>5. QED
    BY <1>1, <2>4 DEF Loading
<1>4. CASE c = "," \/ c = "nl"
  BY <1>3, <1>4 DEF CharStep
<1>5. CASE c = " "
  BY <1>5 DEF CharStep
<1>6. CASE c \notin {"-", ",", "nl", " "}
  <2>1. PICK x : CharStep(l, c) = [begun |-> b, columns |-> cs, col |-> k, result |-> x, negative |-> n]
    BY <1>1, <1>6 DEF CharStep
  <2>2. QED
    BY <1>1, <2>1 DEF Loading
<1>7. QED
  BY <1>2, <1>4, <1>5, <1>6

LEMMA StepWith ==
  ASSUME NEW l, NEW m, Loading(m), NEW c, Inner(c)
  PROVE  CharStep(With(l, m), c) = With(l, CharStep(m, c))
<1>1. PICK b, cs, k, r, n : m = [begun |-> b, columns |-> cs, col |-> k, result |-> r, negative |-> n]
  BY DEF Loading
<1> DEFINE p == [begun |-> l.begun, columns |-> l.columns, col |-> l.col, result |-> r, negative |-> n]
<1>0. With(l, m) = p
  BY <1>1 DEF With
<1>2. CASE c = "-"
  <2>1. CharStep(m, c) = [begun |-> b, columns |-> cs, col |-> k, result |-> r, negative |-> TRUE]
    BY <1>1, <1>2 DEF CharStep
  <2>2. CharStep(p, c) = [begun |-> l.begun, columns |-> l.columns, col |-> l.col, result |-> r, negative |-> TRUE]
    BY <1>2 DEF CharStep
  <2>3. PICK z : z = CharStep(m, c)
    OBVIOUS
  <2>4. With(l, z) = CharStep(p, c)
    BY <2>1, <2>2, <2>3 DEF With
  <2>5. QED
    BY <1>0, <2>3, <2>4
<1>3. CASE c = " "
  BY <1>3 DEF CharStep
<1>4. CASE c \notin {"-", " "}
  <2>1. CharStep(m, c) = [begun |-> b, columns |-> cs, col |-> k, result |-> 10 * r + Digit[c], negative |-> n]
    BY <1>1, <1>4 DEF CharStep, Inner
  <2>2. CharStep(p, c) = [begun |-> l.begun, columns |-> l.columns, col |-> l.col,
                          result |-> 10 * r + Digit[c], negative |-> n]
    BY <1>4 DEF CharStep, Inner
  <2>3. PICK z : z = CharStep(m, c)
    OBVIOUS
  <2>4. With(l, z) = CharStep(p, c)
    BY <2>1, <2>2, <2>3 DEF With
  <2>5. QED
    BY <1>0, <2>3, <2>4
<1>5. QED
  BY <1>2, <1>3, <1>4

LEMMA ReadLoading ==
  ASSUME NEW l, Loading(l), NEW s \in Seq(Chars)
  PROVE  Loading(Read(l, s)) /\ Read(l, s).begun = l.begun
<1>1. PICK A : A = {u \in Seq(Chars) : ~ (Loading(Read(l, u)) /\ Read(l, u).begun = l.begun)}
  OBVIOUS
<1>2. <<>> \notin A
  BY <1>1, ReadNothing
<1>3. ASSUME NEW v \in Seq(Chars), NEW x \in Chars, v \notin A PROVE Append(v, x) \notin A
  <2>1. PICK r : r = Read(l, v)
    OBVIOUS
  <2>2. Loading(r) /\ r.begun = l.begun
    BY <1>1, <1>3, <2>1
  <2>3. Loading(CharStep(r, x)) /\ CharStep(r, x).begun = r.begun
    BY <2>2, StepLoading, Zenon
  <2>4. Read(l, Append(v, x)) = CharStep(r, x)
    BY <2>1, ReadOne
  <2>5. QED
    BY <1>1, <2>2, <2>3, <2>4
<1>4. A = {}
  <2>1. A \subseteq Seq(Chars)
    BY <1>1
  <2>2. QED
    BY <1>2, <1>3, <2>1, ShortestText
<1>5. QED
  BY <1>1, <1>4

LEMMA PlainBefore ==
  ASSUME NEW S, NEW v \in Seq(S), NEW x \in S, Plain(Append(v, x))
  PROVE  Plain(v) /\ Inner(x)
<1>1. DOMAIN v = 1 .. Len(v) /\ DOMAIN Append(v, x) = 1 .. Len(v) + 1 /\ Len(v) \in Nat
  OBVIOUS
<1>2. (\A i \in 1 .. Len(v) : Append(v, x)[i] = v[i]) /\ Append(v, x)[Len(v) + 1] = x
  OBVIOUS
<1>3. (\A i \in 1 .. Len(v) : i \in 1 .. Len(v) + 1) /\ Len(v) + 1 \in 1 .. Len(v) + 1
  BY <1>1
<1>4. QED
  BY <1>1, <1>2, <1>3 DEF Plain

\* A number is read the same, whatever was read before it.
LEMMA ReadWith ==
  ASSUME NEW l, NEW m, Loading(m), NEW s \in Seq(Chars), Plain(s)
  PROVE  Read(With(l, m), s) = With(l, Read(m, s))
<1>1. PICK A : A = {u \in Seq(Chars) : Plain(u) /\ Read(With(l, m), u) # With(l, Read(m, u))}
  OBVIOUS
<1>2. <<>> \notin A
  <2>1. Read(m, <<>>) = m /\ Read(With(l, m), <<>>) = With(l, m)
    BY ReadNothing
  <2>2. QED
    BY <1>1, <2>1
<1>3. ASSUME NEW v \in Seq(Chars), NEW x \in Chars, v \notin A PROVE Append(v, x) \notin A
  <2>1. SUFFICES ASSUME Plain(Append(v, x))
                 PROVE  Read(With(l, m), Append(v, x)) = With(l, Read(m, Append(v, x)))
    BY <1>1
  <2>2. Plain(v) /\ Inner(x)
    BY <2>1, PlainBefore, Zenon
  <2>3. Read(With(l, m), v) = With(l, Read(m, v))
    BY <1>1, <1>3, <2>2
  <2>4. Read(m, Append(v, x)) = CharStep(Read(m, v), x) /\ Read(With(l, m), Append(v, x)) = CharStep(Read(With(l, m), v), x)
    BY ReadOne
  <2>5. Loading(Read(m, v))
    BY ReadLoading
  <2>6. CharStep(With(l, Read(m, v)), x) = With(l, CharStep(Read(m, v), x))
    <3>1. \A q : Loading(q) => \A c : Inner(c) => CharStep(With(l, q), c) = With(l, CharStep(q, c))
      <4>1. SUFFICES ASSUME NEW q, Loading(q), NEW c, Inner(c) PROVE CharStep(With(l, q), c) = With(l, CharStep(q, c))
        OBVIOUS
      <4>2. QED
        BY <4>1, StepWith
    <3>2. QED
      BY <2>2, <2>5, <3>1, Zenon
  <2>7. QED
    BY <2>3, <2>4, <2>6
<1>4. A = {}
  <2>1. A \subseteq Seq(Chars)
    BY <1>1
  <2>2. QED
    BY <1>2, <1>3, <2>1, ShortestText
<1>5. QED
  BY <1>1, <1>4

(* Between values: nothing of a number is read yet. *)
Between(l, k) == /\ Loading(l) /\ l.col = k /\ l.result = 0 /\ l.negative = FALSE
                 /\ l.columns = [c \in Columns |-> l.columns[c]]
(* every prefix of a text leaves the column there is *)
Fine(l, s) == \A q \in 0 .. Len(s) : Read(l, SubSeq(s, 1, q)).col \in Columns

LEMMA FineOn ==
  ASSUME NEW l, NEW s \in Seq(Chars), NEW t \in Seq(Chars), Fine(l, s), Fine(Read(l, s), t)
  PROVE  Fine(l, s \o t)
<1>1. Len(s) \in Nat /\ Len(t) \in Nat /\ Len(s \o t) = Len(s) + Len(t)
  BY ConcatProperties, LenProperties
<1>2. ASSUME NEW q \in 0 .. Len(s) + Len(t) PROVE Read(l, SubSeq(s \o t, 1, q)).col \in Columns
  <2>1. CASE q <= Len(s)
    <3>1. q \in 0 .. Len(s) /\ q \in Int
      BY <1>1, <2>1
    <3>2. SubSeq(s \o t, 1, q) = SubSeq(s, 1, q)
      <4>1. CASE q = 0
        <5>1. \A u : SubSeq(u, 1, 0) = <<>>
          BY SubSeqEmpty
        <5>2. QED
          BY <4>1, <5>1
      <4>2. CASE q # 0
        <5>1. 1 \in 1 .. Len(s) /\ q \in 1 .. Len(s)
          BY <1>1, <3>1, <4>2
        <5>2. QED
          BY <5>1, SubSeqOfConcat1
      <4>3. QED
        BY <4>1, <4>2
    <3>3. QED
      BY <3>1, <3>2 DEF Fine
  <2>2. CASE q > Len(s)
    <3>1. PICK p \in 1 .. Len(t) : q = Len(s) + p
      <4>1. q - Len(s) \in 1 .. Len(t) /\ q = Len(s) + (q - Len(s))
        BY <1>1, <2>2
      <4>2. QED
        BY <4>1
    <3>2. p \in Nat /\ p \in 0 .. Len(t) /\ q \in Nat
      BY <1>1
    <3>3. SubSeq(t, 1, p) \in Seq(Chars) /\ Len(SubSeq(t, 1, p)) = p /\ \A i \in 1 .. p : SubSeq(t, 1, p)[i] = t[i]
      <4>1. \A i \in 1 .. p : t[i] \in Chars
        BY <1>1, ElementOfSeq
      <4>2. QED
        BY <3>2, <4>1, SubSeqProperties
    <3>4. SubSeq(s \o t, 1, q) = s \o SubSeq(t, 1, p)
      <4>1. PICK u, v : u = SubSeq(s \o t, 1, q) /\ v = s \o SubSeq(t, 1, p)
        OBVIOUS
      <4>2. /\ s \o t \in Seq(Chars)
            /\ \A i \in 1 .. Len(s) + Len(t) : (s \o t)[i] = IF i <= Len(s) THEN s[i] ELSE t[i - Len(s)]
        BY ConcatProperties
      <4>3. u \in Seq(Chars) /\ Len(u) = q /\ \A i \in 1 .. q : u[i] = (s \o t)[i]
        <5>1. \A i \in 1 .. q : i \in 1 .. Len(s) + Len(t)
          BY <1>1, <3>2
        <5>2. \A i \in 1 .. q : (s \o t)[i] \in Chars
          BY <1>1, <4>2, <5>1, ElementOfSeq
        <5>3. QED
          BY <3>2, <4>1, <5>2, SubSeqProperties
      <4>4. /\ v \in Seq(Chars) /\ Len(v) = Len(s) + p
            /\ \A i \in 1 .. Len(s) + p : v[i] = IF i <= Len(s) THEN s[i] ELSE SubSeq(t, 1, p)[i - Len(s)]
        BY <3>3, <4>1, ConcatProperties
      <4>5. ASSUME NEW i \in 1 .. q PROVE u[i] = v[i]
        <5>1. i \in 1 .. Len(s) + p /\ i \in 1 .. Len(s) + Len(t) /\ (i <= Len(s) \/ i - Len(s) \in 1 .. p)
          BY <1>1, <3>1, <3>2
        <5>2. QED
          BY <3>3, <4>2, <4>3, <4>4, <5>1
      <4>6. u = v
        BY <3>1, <4>3, <4>4, <4>5, SeqEqual
      <4>7. QED
        BY <4>1, <4>6
    <3>5. Read(l, SubSeq(s \o t, 1, q)) = Read(Read(l, s), SubSeq(t, 1, p))
      <4>1. Read(l, s \o SubSeq(t, 1, p)) = Read(Read(l, s), SubSeq(t, 1, p))
        BY <3>3, ReadOn
      <4>2. QED
        BY <3>4, <4>1
    <3>6. QED
      BY <3>2, <3>5 DEF Fine
  <2>3. QED
    BY <1>1, <2>1, <2>2
<1>3. QED
  BY <1>1, <1>2 DEF Fine

LEMMA TextChars ==
  ASSUME NEW v, Legible(v)
  PROVE  Text[v] \in Seq(Chars)
<1>1. Text[v] \in Seq(STRING) /\ STRING \subseteq Chars
  BY DEF Legible, Chars
<1>2. QED
  BY <1>1, SeqMonotonic

(* The text of a value is read as the value. *)
LEMMA ReadText ==
  ASSUME NEW l, NEW k \in Columns, Between(l, k), NEW v, Legible(v)
  PROVE  \E r : /\ Read(l, Text[v]) = r /\ Loading(r) /\ r.begun = l.begun /\ r.columns = l.columns
                /\ r.col = k /\ Value(r) = v
                /\ Fine(l, Text[v])
<1>1. PICK t : t = Text[v]
  OBVIOUS
<1>2. t \in Seq(Chars) /\ Plain(t) /\ Value(Read(NewLoad, t)) = v
  BY <1>1, TextChars DEF Legible, Plain, Inner
<1>3. Loading(NewLoad) /\ With(l, NewLoad) = l
  <2>1. NewLoad = [begun |-> FALSE, columns |-> [c \in Columns |-> <<>>], col |-> 1, result |-> 0, negative |-> FALSE]
    BY DEF NewLoad
  <2>2. NewLoad.result = 0 /\ NewLoad.negative = FALSE
    BY <2>1
  <2>3. l = [begun |-> l.begun, columns |-> l.columns, col |-> l.col, result |-> 0, negative |-> FALSE]
    BY DEF Between, Loading
  <2>4. With(l, NewLoad) = [begun |-> l.begun, columns |-> l.columns, col |-> l.col, result |-> 0, negative |-> FALSE]
    BY <2>2 DEF With
  <2>5. Loading(NewLoad)
    BY <2>1 DEF Loading
  <2>6. QED
    BY <2>3, <2>4, <2>5
<1>4. ASSUME NEW s \in Seq(Chars), Plain(s) PROVE Read(l, s) = With(l, Read(NewLoad, s))
  <2>1. Read(With(l, NewLoad), s) = With(l, Read(NewLoad, s))
    BY <1>3, <1>4, ReadWith
  <2>2. QED
    BY <1>3, <2>1
<1>5. PICK r : r = Read(l, t)
  OBVIOUS
<1>6. r = With(l, Read(NewLoad, t))
  BY <1>2, <1>4, <1>5
<1>7. Loading(r) /\ r.begun = l.begun /\ r.columns = l.columns /\ r.col = k
  <2>1. l.col = k
    BY DEF Between
  <2>2. QED
    BY <1>6, <2>1 DEF With, Loading
<1>8. Value(r) = v
  <2>1. PICK m : m = Read(NewLoad, t)
    OBVIOUS
  <2>2. r.result = m.result /\ r.negative = m.negative
    BY <1>6, <2>1 DEF With
  <2>3. QED
    BY <1>2, <2>1, <2>2 DEF Value
<1>9. ASSUME NEW q \in 0 .. Len(t) PROVE Read(l, SubSeq(t, 1, q)).col \in Columns
  <2>1. q \in Nat /\ Len(t) \in Nat /\ q <= Len(t)
    BY <1>2, LenProperties
  <2>2. \A i \in 1 .. q : i \in 1 .. Len(t) /\ t[i] \in Chars
    BY <1>2, <2>1, ElementOfSeq
  <2>3. PICK s : s = SubSeq(t, 1, q)
    OBVIOUS
  <2>4. s \in Seq(Chars) /\ Len(s) = q /\ \A i \in 1 .. q : s[i] = t[i]
    BY <2>1, <2>2, <2>3, SubSeqProperties
  <2>5. Plain(s)
    <3>1. DOMAIN s = 1 .. q /\ DOMAIN t = 1 .. Len(t)
      BY <1>2, <2>4, LenProperties
    <3>2. QED
      BY <1>2, <2>2, <2>4, <3>1 DEF Plain
  <2>6. Read(l, s) = With(l, Read(NewLoad, s))
    BY <1>4, <2>4, <2>5
  <2>7. Read(l, s).col = k
    BY <2>6 DEF With, Between
  <2>8. QED
    BY <2>3, <2>7
<1>10. QED
  BY <1>1, <1>5, <1>7, <1>8, <1>9 DEF Fine

LEMMA ReadMark ==
  ASSUME NEW l, NEW x \in Chars, l.col \in Columns, CharStep(l, x).col \in Columns
  PROVE  Read(l, <<x>>) = CharStep(l, x) /\ Fine(l, <<x>>)
<1>1. PICK s : s = <<x>>
  OBVIOUS
<1>2. \A S : \A y \in S : Append(<<>>, y) = <<y>> /\ <<y>> \in Seq(S) /\ Len(<<y>>) = 1
  OBVIOUS
<1>3. <<>> \in Seq(Chars)
  BY EmptySeq
<1>4. s = Append(<<>>, x) /\ s \in Seq(Chars) /\ Len(s) = 1
  BY <1>1, <1>2
<1>5. Read(l, s) = CharStep(l, x)
  <2>1. Read(l, Append(<<>>, x)) = CharStep(Read(l, <<>>), x)
    BY <1>3, ReadOne, Zenon
  <2>2. QED
    BY <1>4, <2>1, ReadNothing
<1>6. SubSeq(s, 1, 0) = <<>>
  BY SubSeqEmpty
<1>7. SubSeq(s, 1, 1) = s
  BY <1>4, SubSeqFull
<1>8. \A q \in 0 .. 1 : q = 0 \/ q = 1
  OBVIOUS
<1>9. Fine(l, s)
  BY <1>4, <1>5, <1>6, <1>7, <1>8, ReadNothing DEF Fine
<1>10. QED
  BY <1>1, <1>5, <1>9

Pushes(x, k, next) == \A m : Loading(m) /\ m.col = k => CharStep(m, x) = Pushed(m, next)

Put(cs, k, v) == [cs EXCEPT ![k] = Append(@, v)]

(* A value and the mark behind it: the value is pushed. *)
LEMMA ReadValue ==
  ASSUME NEW l, NEW k \in Columns, Between(l, k), NEW v, Legible(v),
         NEW x \in Chars, NEW next \in Columns, Pushes(x, k, next)
  PROVE  \E r : /\ Read(l, Text[v] \o <<x>>) = r /\ Between(r, next) /\ r.begun = l.begun
                /\ r.columns = Put(l.columns, k, v)
                /\ Text[v] \o <<x>> \in Seq(Chars) /\ Fine(l, Text[v] \o <<x>>)
<1>1. PICK m : /\ Read(l, Text[v]) = m /\ Loading(m) /\ m.begun = l.begun /\ m.columns = l.columns
               /\ m.col = k /\ Value(m) = v
               /\ Fine(l, Text[v])
  BY ReadText
<1>2. PICK r : r = CharStep(m, x)
  OBVIOUS
<1>3. r = Pushed(m, next)
  BY <1>1, <1>2 DEF Pushes
<1>4. PICK cs : cs = [l.columns EXCEPT ![k] = Append(@, v)]
  OBVIOUS
<1>5. r = [begun |-> m.begun, columns |-> cs, col |-> next, result |-> 0, negative |-> FALSE]
  <2>1. cs = [m.columns EXCEPT ![m.col] = Append(@, Value(m))]
    BY <1>1, <1>4
  <2>2. Pushed(m, next) = [m EXCEPT !.columns = cs, !.col = next, !.result = 0, !.negative = FALSE]
    <3>1. m = [begun |-> m.begun, columns |-> m.columns, col |-> m.col, result |-> m.result, negative |-> m.negative]
      BY <1>1 DEF Loading
    <3>2. QED
      BY <2>1, <3>1 DEF Pushed
  <2>3. m = [begun |-> m.begun, columns |-> m.columns, col |-> m.col, result |-> m.result, negative |-> m.negative]
    BY <1>1 DEF Loading
  <2>4. QED
    BY <1>3, <2>2, <2>3
<1>6. Between(r, next)
  <2>1. cs = [c \in Columns |-> cs[c]]
    <3>1. DOMAIN l.columns = Columns
      BY DEF Between
    <3>2. QED
      BY <1>4, <3>1
  <2>2. QED
    BY <1>5, <2>1 DEF Between, Loading
<1>7. Text[v] \in Seq(Chars)
  BY TextChars
<1>8. <<x>> \in Seq(Chars)
  <2>1. \A S : \A y \in S : <<y>> \in Seq(S)
    OBVIOUS
  <2>2. QED
    BY <2>1
<1>9. Read(m, <<x>>) = r /\ Fine(m, <<x>>)
  <2>1. m.col \in Columns /\ CharStep(m, x).col \in Columns
    BY <1>1, <1>2, <1>6 DEF Between
  <2>2. QED
    BY <1>2, <2>1, ReadMark
<1>10. Read(l, Text[v] \o <<x>>) = r
  BY <1>1, <1>7, <1>8, <1>9, ReadOn
<1>11. Text[v] \o <<x>> \in Seq(Chars)
  BY <1>7, <1>8, ConcatProperties
<1>12. Fine(l, Text[v] \o <<x>>)
  BY <1>1, <1>7, <1>8, <1>9, FineOn
<1>13. QED
  BY <1>1, <1>4, <1>5, <1>6, <1>10, <1>11, <1>12 DEF Put

LEMMA ReadRow ==
  ASSUME NEW l, Between(l, 1), NEW row, Legible(row[1]), Legible(row[2])
  PROVE  \E r : /\ Read(l, Row(row)) = r /\ Between(r, 1) /\ r.begun = l.begun
                /\ r.columns = [k \in Columns |-> Append(l.columns[k], row[k])]
                /\ Row(row) \in Seq(Chars) /\ Fine(l, Row(row))
<1>1. 1 \in Columns /\ 2 \in Columns
  BY DEF Columns
<1>2. Pushes(",", 1, 2)
  <2>1. \A m : m.col = 1 => CharStep(m, ",") = Pushed(m, 2)
    BY DEF CharStep
  <2>2. QED
    BY <2>1 DEF Pushes
<1>3. Pushes("nl", 2, 1)
  <2>1. \A m : CharStep(m, "nl") = Pushed(m, 1)
    BY DEF CharStep
  <2>2. QED
    BY <2>1 DEF Pushes
<1>4. PICK s, t, a, b : /\ a = row[1] /\ b = row[2]
                        /\ s = Text[a] \o <<",">> /\ t = Text[b] \o <<"nl">>
  OBVIOUS
<1>5. PICK m : /\ Read(l, s) = m /\ Between(m, 2) /\ m.begun = l.begun
               /\ m.columns = Put(l.columns, 1, a)
               /\ s \in Seq(Chars) /\ Fine(l, s)
  <2>1. "," \in Chars
    BY DEF Chars
  <2>2. Legible(a)
    BY <1>4
  <2>3. \E m : /\ Read(l, Text[a] \o <<",">>) = m /\ Between(m, 2) /\ m.begun = l.begun
                /\ m.columns = Put(l.columns, 1, a)
                /\ Text[a] \o <<",">> \in Seq(Chars) /\ Fine(l, Text[a] \o <<",">>)
    <3>1. PICK x : x = ","
      OBVIOUS
    <3>2. x \in Chars /\ Pushes(x, 1, 2)
      BY <1>2, <2>1, <3>1
    <3>3. \E m : /\ Read(l, Text[a] \o <<x>>) = m /\ Between(m, 2) /\ m.begun = l.begun
                  /\ m.columns = Put(l.columns, 1, a)
                  /\ Text[a] \o <<x>> \in Seq(Chars) /\ Fine(l, Text[a] \o <<x>>)
      BY <1>1, <2>2, <3>2, ReadValue
    <3>4. QED
      BY <3>1, <3>3
  <2>4. QED
    BY <1>4, <2>3
<1>6. PICK r : /\ Read(m, t) = r /\ Between(r, 1) /\ r.begun = m.begun
               /\ r.columns = Put(m.columns, 2, b)
               /\ t \in Seq(Chars) /\ Fine(m, t)
  <2>1. "nl" \in Chars
    BY DEF Chars
  <2>2. Legible(b) /\ Between(m, 2)
    BY <1>4, <1>5
  <2>3. \E r : /\ Read(m, Text[b] \o <<"nl">>) = r /\ Between(r, 1) /\ r.begun = m.begun
                /\ r.columns = Put(m.columns, 2, b)
                /\ Text[b] \o <<"nl">> \in Seq(Chars) /\ Fine(m, Text[b] \o <<"nl">>)
    <3>1. PICK x : x = "nl"
      OBVIOUS
    <3>2. x \in Chars /\ Pushes(x, 2, 1)
      BY <1>3, <2>1, <3>1
    <3>3. \E r : /\ Read(m, Text[b] \o <<x>>) = r /\ Between(r, 1) /\ r.begun = m.begun
                  /\ r.columns = Put(m.columns, 2, b)
                  /\ Text[b] \o <<x>> \in Seq(Chars) /\ Fine(m, Text[b] \o <<x>>)
      BY <1>1, <2>2, <3>2, ReadValue
    <3>4. QED
      BY <3>1, <3>3
  <2>4. QED
    BY <1>4, <2>3
<1>7. Row(row) = s \o t
  <2>1. Text[b] \in Seq(Chars)
    BY <1>4, TextChars
  <2>2. <<"nl">> \in Seq(Chars)
    <3>1. \A S : \A y \in S : <<y>> \in Seq(S)
      OBVIOUS
    <3>2. "nl" \in Chars
      BY DEF Chars
    <3>3. QED
      BY <3>1, <3>2
  <2>3. (s \o Text[b]) \o <<"nl">> = s \o (Text[b] \o <<"nl">>)
    <3>1. PICK u, e : u = Text[b] /\ e = <<"nl">>
      OBVIOUS
    <3>2. (s \o u) \o e = s \o (u \o e)
      <4>1. s \in Seq(Chars) /\ u \in Seq(Chars) /\ e \in Seq(Chars)
        BY <1>5, <2>1, <2>2, <3>1
      <4>2. QED
        BY <4>1, ConcatAssociative
    <3>3. QED
      BY <3>1, <3>2
  <2>4. QED
    BY <1>4, <2>3 DEF Row
<1>8. r.columns = [k \in Columns |-> Append(l.columns[k], row[k])]
  <2>1. DOMAIN l.columns = Columns
    BY DEF Between
  <2>2. r.columns = [[l.columns EXCEPT ![1] = Append(@, row[1])] EXCEPT ![2] = Append(@, row[2])]
    BY <1>4, <1>5, <1>6 DEF Put
  <2>3. l.columns = [k \in Columns |-> l.columns[k]]
    BY DEF Between
  <2>4. PICK cs, ds : cs = l.columns /\ ds = r.columns
    OBVIOUS
  <2>5. DOMAIN ds = Columns /\ ds = [k \in DOMAIN ds |-> ds[k]]
    BY <2>1, <2>2, <2>4
  <2>6. ds[1] = Append(cs[1], row[1]) /\ ds[2] = Append(cs[2], row[2])
    BY <2>1, <2>2, <2>4 DEF Columns
  <2>7. \A k \in Columns : ds[k] = Append(cs[k], row[k])
    BY <2>6 DEF Columns
  <2>8. QED
    BY <2>4, <2>5, <2>7
<1>9. Read(l, s \o t) = r /\ s \o t \in Seq(Chars) /\ Fine(l, s \o t)
  BY <1>5, <1>6, ReadOn, ConcatProperties, FineOn
<1>10. QED
  BY <1>5, <1>6, <1>7, <1>8, <1>9

Flattens(seqs, m, f) == f = [i \in 1 .. m |-> IF i = 1 THEN seqs[i] ELSE f[i - 1] \o seqs[i]]

LEMMA FlattenExists ==
  ASSUME NEW seqs, NEW n \in Nat \ {0}
  PROVE  \E f : Flattens(seqs, n, f)
<1> DEFINE Bad == {m \in Nat \ {0} : ~ \E f : Flattens(seqs, m, f)}
<1>1. SUFFICES ASSUME Bad # {} PROVE FALSE
  OBVIOUS
<1>2. PICK m \in Bad : \A k \in Bad : m <= k
  <2>1. Bad \subseteq Nat
    OBVIOUS
  <2> HIDE DEF Bad
  <2>2. QED
    BY <1>1, <2>1, LeastOne
<1>3. m \in Nat \ {0} /\ ~ \E f : Flattens(seqs, m, f)
  OBVIOUS
<1>4. m # 1
  <2>1. ASSUME m = 1 PROVE FALSE
    <3>1. Flattens(seqs, m, [i \in 1 .. 1 |-> seqs[i]])
      BY <2>1 DEF Flattens
    <3>2. QED
      BY <1>3, <3>1
  <2>2. QED
    BY <2>1
<1>5. PICK k \in Nat \ {0} : m = k + 1
  <2>1. m - 1 \in Nat \ {0} /\ m = (m - 1) + 1
    BY <1>3, <1>4
  <2>2. QED
    BY <2>1
<1>6. PICK g : Flattens(seqs, k, g)
  <2>1. ~ (m <= k)
    BY <1>5
  <2>2. k \notin Bad
    BY <1>2, <2>1
  <2>3. QED
    BY <2>2
<1>7. PICK f : f = [i \in 1 .. m |-> IF i = m THEN g[k] \o seqs[m] ELSE g[i]]
  OBVIOUS
<1>8. /\ DOMAIN g = 1 .. k
      /\ \A i \in 1 .. k : g[i] = IF i = 1 THEN seqs[i] ELSE g[i - 1] \o seqs[i]
  BY <1>6 DEF Flattens
<1>9. \A i \in 1 .. m : f[i] = IF i = 1 THEN seqs[i] ELSE f[i - 1] \o seqs[i]
  <2>1. \A i \in 1 .. k : i \in 1 .. m /\ i # m /\ f[i] = g[i]
    BY <1>5, <1>7
  <2>2. ASSUME NEW i \in 1 .. m
        PROVE  f[i] = IF i = 1 THEN seqs[i] ELSE f[i - 1] \o seqs[i]
    <3>1. CASE i = m
      <4>1. i - 1 = k /\ i # 1
        BY <1>4, <1>5, <3>1
      <4>2. f[i] = g[k] \o seqs[m]
        BY <1>7, <3>1
      <4>3. f[k] = g[k]
        BY <1>5, <2>1
      <4>4. QED
        BY <3>1, <4>1, <4>2, <4>3
    <3>2. CASE i = 1
      <4>1. i \in 1 .. k
        BY <1>5, <3>2
      <4>2. QED
        BY <1>8, <2>1, <3>2, <4>1
    <3>3. CASE i # m /\ i # 1
      <4>1. i \in 1 .. k /\ i - 1 \in 1 .. k
        BY <1>5, <3>3
      <4>2. QED
        BY <1>8, <2>1, <3>3, <4>1
    <3>4. QED
      BY <3>1, <3>2, <3>3
  <2>3. QED
    BY <2>2
<1>10. f = [i \in 1 .. m |-> f[i]]
  BY <1>7
<1>11. Flattens(seqs, m, f)
  BY <1>9, <1>10 DEF Flattens
<1>12. QED
  BY <1>3, <1>11

Begun == [NewLoad EXCEPT !.begun = TRUE]
RowsOf(rows, i) == [k \in Columns |-> [r \in 1 .. i |-> rows[r][k]]]
Parsed(file, q) == Read(Begun, SubSeq(file, 3, q))
(* reading s, the first i rows are read *)
Holds(rows, i, s) ==
  /\ s \in Seq(Chars) /\ Fine(Begun, s)
  /\ Between(Read(Begun, s), 1) /\ Read(Begun, s).begun = TRUE
  /\ Read(Begun, s).columns = RowsOf(rows, i)
LegibleRows(rows) == /\ rows \in Seq(Int \X Int)
                     /\ \A i \in DOMAIN rows : \A k \in Columns : Legible(rows[i][k])

LEMMA RowAfter ==
  ASSUME NEW rows, NEW n \in Nat, rows \in [1 .. n + 1 -> Int \X Int], NEW k \in Columns
  PROVE  Append([r \in 1 .. n |-> rows[r][k]], rows[n + 1][k]) = [r \in 1 .. n + 1 |-> rows[r][k]]
<1>1. PICK s, x : s = [r \in 1 .. n |-> rows[r][k]] /\ x = rows[n + 1][k]
  OBVIOUS
<1>2. \A r \in 1 .. n + 1 : rows[r][k] \in Int
  BY DEF Columns
<1>3. s \in Seq(Int) /\ Len(s) = n /\ x \in Int /\ \A r \in 1 .. n : s[r] = rows[r][k]
  <2>1. \A r \in 1 .. n : r \in 1 .. n + 1
    OBVIOUS
  <2>2. s \in [1 .. n -> Int]
    BY <1>1, <1>2, <2>1
  <2>3. s \in Seq(Int)
    BY <2>2
  <2>4. Len(s) = n
    BY <2>2, <2>3, LenProperties
  <2>5. n + 1 \in 1 .. n + 1
    OBVIOUS
  <2>6. QED
    BY <1>1, <1>2, <2>3, <2>4, <2>5
<1>4. PICK t : t = [r \in 1 .. n + 1 |-> rows[r][k]]
  OBVIOUS
<1>5. t \in Seq(Int) /\ Len(t) = n + 1 /\ \A r \in 1 .. n + 1 : t[r] = rows[r][k]
  <2>1. t \in [1 .. n + 1 -> Int]
    BY <1>2, <1>4
  <2>2. t \in Seq(Int)
    BY <2>1
  <2>3. Len(t) = n + 1
    BY <2>1, <2>2, LenProperties
  <2>4. QED
    BY <1>4, <2>2, <2>3
<1>6. /\ Append(s, x) \in Seq(Int) /\ Len(Append(s, x)) = n + 1
      /\ (\A r \in 1 .. n : Append(s, x)[r] = s[r]) /\ Append(s, x)[n + 1] = x
  BY <1>3, Longer
<1>7. ASSUME NEW r \in 1 .. n + 1 PROVE Append(s, x)[r] = t[r]
  <2>1. r \in 1 .. n \/ r = n + 1
    OBVIOUS
  <2>2. QED
    BY <1>1, <1>3, <1>5, <1>6, <2>1
<1>8. Append(s, x) = t
  BY <1>5, <1>6, <1>7, SeqEqual
<1>9. QED
  BY <1>1, <1>4, <1>8

LEMMA BegunIs ==
  /\ Between(Begun, 1) /\ Begun.begun = TRUE /\ Begun.columns = [k \in Columns |-> <<>>]
  /\ Loading(Begun)
<1>1. PICK cs : cs = [c \in Columns |-> <<>>]
  OBVIOUS
<1>2. NewLoad = [begun |-> FALSE, columns |-> cs, col |-> 1, result |-> 0, negative |-> FALSE]
  BY <1>1 DEF NewLoad
<1>3. Begun = [begun |-> TRUE, columns |-> cs, col |-> 1, result |-> 0, negative |-> FALSE]
  <2>1. PICK yes, no, z : yes = TRUE /\ no = FALSE /\ z = 0
    OBVIOUS
  <2> DEFINE nl == [begun |-> no, columns |-> cs, col |-> 1, result |-> z, negative |-> no]
  <2>2. [nl EXCEPT !.begun = yes] = [begun |-> yes, columns |-> cs, col |-> 1, result |-> z, negative |-> no]
    OBVIOUS
  <2>3. NewLoad = nl
    BY <1>2, <2>1
  <2> HIDE DEF nl
  <2>4. Begun = [nl EXCEPT !.begun = yes]
    BY <2>1, <2>3 DEF Begun
  <2>5. QED
    BY <2>1, <2>2, <2>4
<1>4. cs = [c \in Columns |-> cs[c]]
  BY <1>1
<1>5. QED
  BY <1>1, <1>3, <1>4 DEF Between, Loading

LEMMA NextRow ==
  ASSUME NEW rows, LegibleRows(rows), NEW n \in Nat, n + 1 \in DOMAIN rows, NEW s, Holds(rows, n, s)
  PROVE  Holds(rows, n + 1, s \o Row(rows[n + 1]))
<1>1. PICK l, row : l = Read(Begun, s) /\ row = rows[n + 1]
  OBVIOUS
<1>2. Between(l, 1) /\ l.begun = TRUE /\ l.columns = RowsOf(rows, n) /\ s \in Seq(Chars) /\ Fine(Begun, s)
  BY <1>1 DEF Holds
<1>3. Legible(row[1]) /\ Legible(row[2])
  BY <1>1 DEF LegibleRows, Columns
<1>4. PICK t : t = Row(row)
  OBVIOUS
<1>5. PICK r : /\ Read(l, t) = r /\ Between(r, 1) /\ r.begun = l.begun
               /\ r.columns = [k \in Columns |-> Append(l.columns[k], row[k])]
               /\ t \in Seq(Chars) /\ Fine(l, t)
  BY <1>2, <1>3, <1>4, ReadRow
<1>6. Read(Begun, s \o t) = r /\ s \o t \in Seq(Chars) /\ Fine(Begun, s \o t)
  BY <1>1, <1>2, <1>5, ReadOn, ConcatProperties, FineOn
<1>7. r.columns = RowsOf(rows, n + 1)
  <2>1. rows \in [1 .. Len(rows) -> Int \X Int] /\ n + 1 \in 1 .. Len(rows) /\ Len(rows) \in Nat
    BY LenProperties DEF LegibleRows
  <2>2. PICK q : q = [i \in 1 .. n + 1 |-> rows[i]]
    OBVIOUS
  <2>3. \A i \in 1 .. n + 1 : i \in 1 .. Len(rows)
    BY <2>1
  <2>4. q \in [1 .. n + 1 -> Int \X Int] /\ \A i \in 1 .. n + 1 : q[i] = rows[i]
    BY <2>1, <2>2, <2>3
  <2>5. ASSUME NEW k \in Columns PROVE Append(l.columns[k], row[k]) = RowsOf(rows, n + 1)[k]
    <3>1. Append([i \in 1 .. n |-> q[i][k]], q[n + 1][k]) = [i \in 1 .. n + 1 |-> q[i][k]]
      BY <2>4, RowAfter
    <3>2. [i \in 1 .. n |-> q[i][k]] = [i \in 1 .. n |-> rows[i][k]]
      <4>1. \A i \in 1 .. n : i \in 1 .. n + 1
        OBVIOUS
      <4>2. QED
        BY <2>4, <4>1
    <3>3. [i \in 1 .. n + 1 |-> q[i][k]] = [i \in 1 .. n + 1 |-> rows[i][k]]
      BY <2>4
    <3>4. q[n + 1][k] = row[k]
      <4>1. n + 1 \in 1 .. n + 1
        OBVIOUS
      <4>2. QED
        BY <1>1, <2>4, <4>1
    <3>5. l.columns[k] = [i \in 1 .. n |-> rows[i][k]]
      BY <1>2 DEF RowsOf
    <3>6. RowsOf(rows, n + 1)[k] = [i \in 1 .. n + 1 |-> rows[i][k]]
      BY DEF RowsOf
    <3>7. QED
      BY <3>1, <3>2, <3>3, <3>4, <3>5, <3>6
  <2>6. PICK cs : cs = RowsOf(rows, n + 1)
    OBVIOUS
  <2>7. cs = [k \in Columns |-> cs[k]]
    BY <2>6 DEF RowsOf
  <2>8. QED
    BY <1>5, <2>5, <2>6, <2>7
<1>8. QED
  BY <1>1, <1>2, <1>4, <1>5, <1>6, <1>7 DEF Holds

LEMMA NoRow ==
  ASSUME NEW rows
  PROVE  Holds(rows, 0, <<>>)
<1>1. Read(Begun, <<>>) = Begun /\ <<>> \in Seq(Chars)
  BY ReadNothing, EmptySeq
<1>2. Fine(Begun, <<>>)
  <2>1. Len(<<>>) = 0 /\ \A q \in 0 .. 0 : q = 0
    BY EmptySeq
  <2>2. SubSeq(<<>>, 1, 0) = <<>>
    BY SubSeqEmpty
  <2>3. Begun.col \in Columns
    BY BegunIs DEF Between, Columns
  <2>4. QED
    BY <1>1, <2>1, <2>2, <2>3 DEF Fine
<1>3. RowsOf(rows, 0) = [k \in Columns |-> <<>>]
  BY DEF RowsOf
<1>4. QED
  BY <1>1, <1>2, <1>3, BegunIs DEF Holds

LEMMA BodyHolds ==
  ASSUME NEW rows, LegibleRows(rows)
  PROVE  Holds(rows, Len(rows), FlattenSeq([i \in DOMAIN rows |-> Row(rows[i])]))
<1>1. PICK n, seqs : n = Len(rows) /\ seqs = [i \in 1 .. n |-> Row(rows[i])]
  OBVIOUS
<1>2. n \in Nat /\ DOMAIN rows = 1 .. n
  BY <1>1, LenProperties DEF LegibleRows
<1>3. Len(seqs) = n
  <2>1. seqs \in [1 .. n -> {seqs[i] : i \in 1 .. n}]
    BY <1>1
  <2>2. seqs \in Seq({seqs[i] : i \in 1 .. n})
    BY <1>2, <2>1
  <2>3. QED
    BY <1>2, <2>1, <2>2, LenProperties
<1>4. CASE n = 0
  <2>1. FlattenSeq(seqs) = seqs
    BY <1>3, <1>4, Zenon DEF FlattenSeq
  <2>2. seqs = <<>>
    BY <1>1, <1>4
  <2>3. QED
    BY <1>1, <1>2, <1>4, <2>1, <2>2, NoRow
<1>5. CASE n # 0
  <2>1. n \in Nat \ {0} /\ ~ (Len(seqs) = 0)
    BY <1>2, <1>3, <1>5
  <2>2. PICK f : Flattens(seqs, n, f) /\ FlattenSeq(seqs) = f[n]
    <3>1. FlattenSeq(seqs) = (CHOOSE f : Flattens(seqs, n, f))[n]
      BY <1>3, <2>1, Zenon DEF FlattenSeq, Flattens
    <3>2. \E f : Flattens(seqs, n, f)
      BY <2>1, FlattenExists
    <3>3. QED
      BY <3>1, <3>2, Zenon
  <2>3. PICK A : A = {i \in 1 .. n : ~ Holds(rows, i, f[i])}
    OBVIOUS
  <2>4. A = {}
    <3>1. SUFFICES ASSUME A # {} PROVE FALSE
      OBVIOUS
    <3>2. A \subseteq Nat
      BY <1>2, <2>3
    <3>3. PICK m \in A : \A k \in A : m <= k
      BY <3>1, <3>2, LeastOne
    <3>4. m \in 1 .. n /\ ~ Holds(rows, m, f[m])
      BY <2>3, <3>3
    <3>5. f[m] = IF m = 1 THEN seqs[m] ELSE f[m - 1] \o seqs[m]
      BY <2>2, <3>4 DEF Flattens
    <3>6. seqs[m] = Row(rows[m])
      BY <1>1, <3>4
    <3>7. CASE m = 1
      <4>1. Holds(rows, 1, <<>> \o Row(rows[1]))
        <5>1. 0 \in Nat /\ 0 + 1 = 1 /\ 1 \in DOMAIN rows
          BY <1>2, <1>5
        <5>2. QED
          BY <5>1, NoRow, NextRow
      <4>2. Row(rows[1]) \in Seq(Chars)
        <5>1. Legible(rows[1][1]) /\ Legible(rows[1][2])
          BY <1>2, <1>5 DEF LegibleRows, Columns
        <5>2. QED
          BY <5>1, BegunIs, ReadRow
      <4>3. <<>> \o Row(rows[1]) = Row(rows[1])
        BY <4>2, ConcatEmptySeq
      <4>4. QED
        BY <3>4, <3>5, <3>6, <3>7, <4>1, <4>3
    <3>8. CASE m # 1
      <4>1. PICK k \in 1 .. n : m = k + 1
        <5>1. m - 1 \in 1 .. n /\ m = (m - 1) + 1
          BY <1>2, <3>4, <3>8
        <5>2. QED
          BY <5>1
      <4>2. k \notin A /\ k \in Nat
        <5>1. ~ (m <= k) /\ k \in Nat
          BY <1>2, <4>1
        <5>2. QED
          BY <3>3, <5>1
      <4>3. Holds(rows, k, f[k])
        BY <2>3, <4>2
      <4>4. Holds(rows, k + 1, f[k] \o Row(rows[k + 1]))
        BY <1>2, <3>4, <4>1, <4>2, <4>3, NextRow
      <4>5. m - 1 = k
        BY <1>2, <4>1
      <4>6. QED
        BY <3>4, <3>5, <3>6, <3>8, <4>1, <4>4, <4>5
    <3>9. QED
      BY <3>7, <3>8
  <2>5. n \in 1 .. n
    BY <2>1
  <2>6. Holds(rows, n, f[n])
    BY <2>3, <2>4, <2>5
  <2>7. QED
    BY <1>1, <1>2, <2>2, <2>6
<1>6. QED
  BY <1>4, <1>5

(* A file read up to a place, and on from there. *)
LEMMA FileIs ==
  ASSUME NEW rows, LegibleRows(rows), NEW file, file = FileOf(rows)
  PROVE  /\ file \in Seq(Chars) /\ Len(file) \in Nat /\ Len(file) >= 2
         /\ \A q \in 2 .. Len(file) : Parsed(file, q).col \in Columns /\ Parsed(file, q).begun = TRUE
         /\ Parsed(file, Len(file)).columns = RowsOf(rows, Len(rows))
<1>1. PICK body, head : body = FlattenSeq([i \in DOMAIN rows |-> Row(rows[i])]) /\ head = <<"header", "nl">>
  OBVIOUS
<1>2. Holds(rows, Len(rows), body)
  BY <1>1, BodyHolds
<1>3. body \in Seq(Chars) /\ Fine(Begun, body) /\ Read(Begun, body).columns = RowsOf(rows, Len(rows))
  BY <1>2 DEF Holds
<1>4. head \in Seq(Chars) /\ Len(head) = 2
  <2>1. \A S : \A a, b \in S : <<a, b>> \in Seq(S) /\ Len(<<a, b>>) = 2
    OBVIOUS
  <2>2. "header" \in Chars /\ "nl" \in Chars
    BY DEF Chars
  <2>3. QED
    BY <1>1, <2>1, <2>2
<1>5. file = head \o body
  BY <1>1 DEF FileOf
<1>6. /\ file \in Seq(Chars) /\ Len(file) = 2 + Len(body) /\ Len(body) \in Nat
      /\ \A i \in 1 .. 2 + Len(body) : file[i] = IF i <= 2 THEN head[i] ELSE body[i - 2]
  <2>1. /\ head \o body \in Seq(Chars) /\ Len(head \o body) = Len(head) + Len(body)
        /\ \A i \in 1 .. Len(head) + Len(body) : (head \o body)[i] = IF i <= Len(head) THEN head[i] ELSE body[i - Len(head)]
    BY <1>3, <1>4, ConcatProperties
  <2>2. Len(body) \in Nat
    BY <1>3, LenProperties
  <2>3. QED
    BY <1>4, <1>5, <2>1, <2>2
<1>7. ASSUME NEW p \in 0 .. Len(body) PROVE Parsed(file, p + 2) = Read(Begun, SubSeq(body, 1, p))
  <2>1. p \in Nat /\ p \in Int /\ p + 2 \in Int
    OBVIOUS
  <2>2. PICK u, v : u = SubSeq(file, 3, p + 2) /\ v = SubSeq(body, 1, p)
    OBVIOUS
  <2>3. u \in Seq(Chars) /\ Len(u) = p /\ \A i \in 1 .. p : u[i] = file[i + 2]
    <3>1. \A i \in 3 .. p + 2 : file[i] \in Chars
      <4>1. \A i \in 3 .. p + 2 : i \in 1 .. Len(file)
        BY <1>6
      <4>2. QED
        BY <1>6, <4>1, ElementOfSeq
    <3>2. /\ u \in Seq(Chars)
          /\ Len(u) = IF 3 <= p + 2 THEN (p + 2) - 3 + 1 ELSE 0
          /\ \A i \in 1 .. (p + 2) - 3 + 1 : u[i] = file[3 + i - 1]
      BY <2>1, <2>2, <3>1, SubSeqProperties
    <3>3. (p + 2) - 3 + 1 = p /\ (\A i \in 1 .. p : 3 + i - 1 = i + 2) /\ (~ (3 <= p + 2) => p = 0)
      BY <2>1
    <3>4. QED
      BY <3>2, <3>3
  <2>4. v \in Seq(Chars) /\ Len(v) = p /\ \A i \in 1 .. p : v[i] = body[i]
    <3>1. \A i \in 1 .. p : body[i] \in Chars
      <4>1. \A i \in 1 .. p : i \in 1 .. Len(body)
        BY <1>6
      <4>2. QED
        BY <1>3, <4>1, ElementOfSeq
    <3>2. QED
      BY <2>1, <2>2, <3>1, SubSeqProperties
  <2>5. ASSUME NEW i \in 1 .. p PROVE u[i] = v[i]
    <3>1. i + 2 \in 1 .. 2 + Len(body) /\ ~ (i + 2 <= 2) /\ (i + 2) - 2 = i
      BY <1>6
    <3>2. QED
      BY <1>6, <2>3, <2>4, <3>1
  <2>6. u = v
    BY <2>3, <2>4, <2>5, SeqEqual
  <2>7. QED
    BY <2>2, <2>6 DEF Parsed
<1>8. ASSUME NEW q \in 2 .. Len(file) PROVE Parsed(file, q).col \in Columns /\ Parsed(file, q).begun = TRUE
  <2>1. PICK p \in 0 .. Len(body) : q = p + 2
    <3>1. q - 2 \in 0 .. Len(body) /\ q = (q - 2) + 2
      BY <1>6
    <3>2. QED
      BY <3>1
  <2>2. Parsed(file, q) = Read(Begun, SubSeq(body, 1, p))
    BY <1>7, <2>1
  <2>3. SubSeq(body, 1, p) \in Seq(Chars)
    <3>1. \A i \in 1 .. p : body[i] \in Chars
      <4>1. \A i \in 1 .. p : i \in 1 .. Len(body)
        BY <1>6
      <4>2. QED
        BY <1>3, <4>1, ElementOfSeq
    <3>2. p \in Int /\ 1 \in Int
      OBVIOUS
    <3>3. QED
      BY <3>1, <3>2, SubSeqProperties
  <2>4. Read(Begun, SubSeq(body, 1, p)).begun = Begun.begun
    BY <2>3, BegunIs, ReadLoading
  <2>5. QED
    BY <1>3, <2>2, <2>4, BegunIs DEF Fine
<1>9. Parsed(file, Len(file)) = Read(Begun, body)
  <2>1. Len(body) \in 0 .. Len(body) /\ Len(file) = Len(body) + 2
    BY <1>6
  <2>2. SubSeq(body, 1, Len(body)) = body
    BY <1>3, SubSeqFull
  <2>3. QED
    BY <1>7, <2>1, <2>2
<1>10. file \in Seq(Chars) /\ Len(file) \in Nat /\ Len(file) >= 2
  BY <1>6
<1>11. Parsed(file, Len(file)).columns = RowsOf(rows, Len(rows))
  BY <1>3, <1>9
<1>12. QED
  BY <1>8, <1>10, <1>11

LEMMA ParsedOn ==
  ASSUME NEW file \in Seq(Chars), NEW p \in 2 .. Len(file), NEW q \in p .. Len(file)
  PROVE  Read(Parsed(file, p), SubSeq(file, p + 1, q)) = Parsed(file, q)
<1>1. Len(file) \in Nat /\ p \in Nat /\ q \in Nat
  BY LenProperties
<1>2. 3 \in 1 .. Len(file) + 1 /\ p \in 3 - 1 .. Len(file)
  BY <1>1
<1>3. SubSeq(file, 3, p) \o SubSeq(file, p + 1, q) = SubSeq(file, 3, q)
  BY <1>2, ConcatAdjacentSubSeq
<1>4. SubSeq(file, 3, p) \in Seq(Chars) /\ SubSeq(file, p + 1, q) \in Seq(Chars)
  <2>1. \A i \in 3 .. p : i \in 1 .. Len(file)
    BY <1>1
  <2>2. \A i \in p + 1 .. q : i \in 1 .. Len(file)
    BY <1>1
  <2>3. (\A i \in 3 .. p : file[i] \in Chars) /\ (\A i \in p + 1 .. q : file[i] \in Chars)
    BY <2>1, <2>2, ElementOfSeq
  <2>4. 3 \in Int /\ p \in Int /\ p + 1 \in Int /\ q \in Int
    BY <1>1
  <2>5. QED
    BY <2>3, <2>4, SubSeqProperties
<1>5. QED
  <2>1. PICK s, u : s = SubSeq(file, 3, p) /\ u = SubSeq(file, p + 1, q)
    OBVIOUS
  <2>2. Read(Begun, s \o u) = Read(Read(Begun, s), u)
    BY <1>4, <2>1, ReadOn
  <2>3. QED
    BY <1>3, <2>1, <2>2 DEF Parsed

-----------------------------------------------------------------------------
(***************************************************************************)
(* A file is loaded as it is.  In a transfer the rest of the message is    *)
(* what comes next, and j pieces of the file are read; a transfer that is  *)
(* over has read its file to the end.                                      *)
(***************************************************************************)
Follows(c, k, pos) == /\ Len(Sent(c, k)) < pos + Len(Up(c))
                      /\ \A u \in pos .. Len(Sent(c, k)) : Up(c)[u - pos + 1] = Sent(c, k)[u]
HasRead(file, j) == IF j = 0 THEN load.begun = FALSE ELSE Named(file) /\ load = Parsed(file, Till(file, j))
AtChunk(c, k, j) == /\ LoadAt(c, k) /\ j < Pieces(script[c][k].file) /\ HasRead(script[c][k].file, j)
                    /\ Follows(c, k, 2 * j + 2)
AtHeader(c, k, j) == /\ LoadAt(c, k) /\ j # 0 /\ j <= Pieces(script[c][k].file) /\ HasRead(script[c][k].file, j)
                     /\ Follows(c, k, 2 * j + 1)
Transfers(c) == /\ spc = "chunk" => \E k, j \in Nat : AtChunk(c, k, j)
                /\ spc = "csvheader" => \E k, j \in Nat : AtHeader(c, k, j)
Loaded(c, k) == /\ LoadAt(c, k) /\ Named(script[c][k].file) /\ loaded = script[c][k].rows
                /\ load = Parsed(script[c][k].file, Len(script[c][k].file))
LoadInv ==
  /\ Loading(load) /\ load.col \in Columns
  /\ load.begun /\ spc \in {"header", "payload", "reply", "accept"} => \E c \in Clients : \E k \in Nat : Loaded(c, k)
  /\ \A c \in serving : Transfers(c)

LEMMA LoadIs ==
  ASSUME Types, NEW c \in Clients, NEW k, LoadAt(c, k), NEW file, file = script[c][k].file, Named(file)
  PROVE  /\ LegibleRows(script[c][k].rows) /\ file = FileOf(script[c][k].rows)
         /\ file \in Seq(Chars) /\ Len(file) \in Nat /\ Len(file) >= 2
         /\ \A q \in 2 .. Len(file) : Parsed(file, q).col \in Columns /\ Parsed(file, q).begun = TRUE
         /\ Parsed(file, Len(file)).columns = RowsOf(script[c][k].rows, Len(script[c][k].rows))
<1>1. script \in Scripts /\ k \in DOMAIN script[c] /\ script[c][k].kind = "load"
  BY DEF Types, LoadAt
<1>2. PICK rows : rows = script[c][k].rows
  OBVIOUS
<1>3. file = FileOf(rows) /\ \A r \in DOMAIN rows : \A col \in Columns : Legible(rows[r][col])
  BY <1>1, <1>2, LoadsAsWritten
<1>4. rows \in Seq(Int \X Int)
  <2>1. script[c][k] \in Commands
    BY <1>1, ScriptTypes
  <2>2. QED
    BY <1>1, <1>2, <2>1 DEF Commands
<1>5. LegibleRows(rows)
  BY <1>3, <1>4 DEF LegibleRows
<1>6. /\ file \in Seq(Chars) /\ Len(file) \in Nat /\ Len(file) >= 2
      /\ \A q \in 2 .. Len(file) : Parsed(file, q).col \in Columns /\ Parsed(file, q).begun = TRUE
      /\ Parsed(file, Len(file)).columns = RowsOf(rows, Len(rows))
  BY <1>3, <1>5, FileIs
<1>7. QED
  BY <1>2, <1>3, <1>5, <1>6

(* What partial_load makes of the next piece. *)
LEMMA NextPiece ==
  ASSUME Types, NEW c \in Clients, NEW k, LoadAt(c, k), NEW file, file = script[c][k].file,
         NEW j \in Nat, j < Pieces(file), HasRead(file, j), Named(file)
  PROVE  PartialLoad(load, Piece(file, j + 1)) = Parsed(file, Till(file, j + 1))
<1>1. /\ file \in Seq(Chars) /\ Len(file) \in Nat /\ Len(file) >= 2
      /\ \A q \in 2 .. Len(file) : Parsed(file, q).col \in Columns /\ Parsed(file, q).begun = TRUE
  BY LoadIs
<1>2. PICK n : n = Pieces(file)
  OBVIOUS
<1>3. /\ n \in Nat \ {0}
      /\ \A i \in Nat : i < n => i * BufSize < Len(file) /\ Till(file, i) = i * BufSize
      /\ \A i \in 1 .. n : 2 <= Till(file, i) /\ Till(file, i) <= Len(file) /\ Till(file, i) \in Nat
  BY <1>1, <1>2, PiecesAre
<1>4. PICK q : q = Till(file, j + 1)
  OBVIOUS
<1>5. q \in Nat /\ 2 <= q /\ q <= Len(file)
  <2>1. j + 1 \in 1 .. n
    BY <1>2, <1>3
  <2>2. QED
    BY <1>3, <1>4, <2>1
<1>6. Piece(file, j + 1) = SubSeq(file, j * BufSize + 1, q)
  <2>1. (j + 1) - 1 = j
    OBVIOUS
  <2>2. QED
    BY <1>4, <2>1 DEF Piece, Till
<1>7. CASE j = 0
  <2>1. j * BufSize + 1 = 1
    BY <1>7, HeaderFits
  <2>2. PICK s : s = SubSeq(file, 1, q)
    OBVIOUS
  <2>3. Piece(file, j + 1) = s
    BY <1>6, <2>1, <2>2
  <2>4. s \in Seq(Chars) /\ Len(s) = q /\ \A i \in 1 .. q : s[i] = file[i]
    <3>1. \A i \in 1 .. q : i \in 1 .. Len(file)
      BY <1>1, <1>5
    <3>2. \A i \in 1 .. q : file[i] \in Chars
      BY <1>1, <3>1, ElementOfSeq
    <3>3. QED
      BY <1>5, <2>2, <3>2, SubSeqProperties
  <2>5. SubSeq(s, 3, Len(s)) = SubSeq(file, 3, q)
    <3>1. PICK u, v : u = SubSeq(s, 3, q) /\ v = SubSeq(file, 3, q)
      OBVIOUS
    <3>2. \A i \in 3 .. q : i \in 1 .. q /\ i \in 1 .. Len(file)
      BY <1>1, <1>5
    <3>3. \A i \in 3 .. q : s[i] \in Chars /\ file[i] \in Chars
      BY <1>1, <2>4, <3>2, ElementOfSeq
    <3>4. 3 \in Int /\ q \in Int
      BY <1>5
    <3>5. /\ u \in Seq(Chars) /\ Len(u) = (IF 3 <= q THEN q - 3 + 1 ELSE 0)
          /\ \A i \in 1 .. q - 3 + 1 : u[i] = s[3 + i - 1]
      BY <3>1, <3>3, <3>4, SubSeqProperties
    <3>6. /\ v \in Seq(Chars) /\ Len(v) = (IF 3 <= q THEN q - 3 + 1 ELSE 0)
          /\ \A i \in 1 .. q - 3 + 1 : v[i] = file[3 + i - 1]
      BY <3>1, <3>3, <3>4, SubSeqProperties
    <3>7. ASSUME NEW i \in 1 .. Len(u) PROVE u[i] = v[i]
      <4>1. i \in 1 .. q - 3 + 1 /\ 3 + i - 1 \in 1 .. q
        BY <1>5, <3>5
      <4>2. QED
        BY <2>4, <3>5, <3>6, <4>1
    <3>8. u = v
      BY <3>5, <3>6, <3>7, SeqEqual
    <3>9. QED
      BY <2>4, <3>1, <3>8
  <2>6. load.begun = FALSE
    BY <1>7 DEF HasRead
  <2>7. PartialLoad(load, s) = Read(Begun, SubSeq(s, 3, Len(s)))
    BY <2>6 DEF PartialLoad, Begun
  <2>8. QED
    BY <1>4, <2>3, <2>5, <2>7 DEF Parsed
<1>8. CASE j # 0
  <2>1. PICK p : p = Till(file, j)
    OBVIOUS
  <2>2. load = Parsed(file, p) /\ p = j * BufSize /\ p < Len(file)
    BY <1>2, <1>3, <1>8, <2>1 DEF HasRead
  <2>3. p \in Nat /\ 2 <= p
    <3>1. j \in 1 .. n
      BY <1>2, <1>3, <1>8
    <3>2. QED
      BY <1>3, <2>1, <3>1
  <2>4. p <= q
    <3>1. (j + 1) * BufSize = j * BufSize + BufSize /\ j * BufSize \in Nat /\ BufSize \in Nat /\ j + 1 \in Nat
      BY HeaderFits, Z3
    <3>2. PICK b : b = (j + 1) * BufSize
      OBVIOUS
    <3>3. b \in Nat /\ p <= b
      BY <2>2, <3>1, <3>2
    <3>4. (b <= Len(file) => q = b) /\ (b >= Len(file) => q = Len(file))
      BY <1>1, <1>4, <3>1, <3>2, TillIs
    <3>5. QED
      BY <1>1, <2>2, <2>3, <3>3, <3>4
  <2>5. p \in 2 .. Len(file) /\ q \in p .. Len(file)
    BY <1>1, <1>5, <2>2, <2>3, <2>4
  <2>6. load.begun = TRUE
    BY <1>1, <2>2, <2>5
  <2>7. PartialLoad(load, Piece(file, j + 1)) = Read(Parsed(file, p), SubSeq(file, p + 1, q))
    BY <1>6, <2>2, <2>6 DEF PartialLoad
  <2>8. QED
    BY <1>1, <1>4, <2>5, <2>7, ParsedOn
<1>9. QED
  BY <1>7, <1>8

\* At the first unit of a message, its units are what comes.
LEMMA FollowsFirst ==
  ASSUME ProtocolInv, NEW c \in serving, c \in Clients, spc = "header", toServer[c] # <<>>
  PROVE  \E k \in Nat : /\ k \in DOMAIN script[c] /\ Follows(c, k, 1)
                        /\ Head(toServer[c]) = Sent(c, k)[1]
                        /\ Answered(c, k) \/ script[c][k].kind = "emptyload" \/ script[c][k].kind = "load"
<1>1. Types /\ Stream(c)
  BY DEF ProtocolInv, Client
<1>2. PICK w \in [1..Len(Up(c)) -> Places(c)] : Lies(c, w)
  BY <1>1 DEF Stream
<1>3. PICK n, x : n = Len(Up(c)) /\ x = Up(c)
  OBVIOUS
<1>4. n \in Nat \ {0} /\ 1 \in 1..n /\ n \in 1..n /\ x # <<>> /\ x[1] = Head(toServer[c])
  BY <1>1, <1>3, Streams
<1>5. /\ \A i \in 1..n : x[i] = Sent(c, w[i][1])[w[i][2]]
      /\ \A i \in 1..(n - 1) : w[i + 1] = Following(c, w[i])
      /\ Starts(c, w[1]) /\ Ends(c, w[n])
  BY <1>2, <1>3, <1>4 DEF Lies, Along
<1>6. PICK p : p = w[1]
  OBVIOUS
<1>7. p \in Places(c) /\ p[2] = 1
  BY <1>2, <1>3, <1>4, <1>5, <1>6 DEF Starts
<1>8. PICK k, m : k = p[1] /\ m = Len(Sent(c, k))
  OBVIOUS
<1>9. /\ p = <<k, 1>> /\ k \in Nat /\ k \in DOMAIN script[c] /\ m \in Nat /\ 1 <= m
      /\ Answered(c, k) \/ script[c][k].kind = "emptyload" \/ script[c][k].kind = "load"
  BY <1>1, <1>7, <1>8, PlaceTypes
<1>10. \A i \in 1..n : i <= m => w[i] = <<k, i>>
  <2> DEFINE A == {i \in 1..n : i <= m /\ w[i] # <<k, i>>}
  <2>1. SUFFICES ASSUME A # {} PROVE FALSE
    OBVIOUS
  <2>2. A \subseteq Nat
    BY <1>4
  <2>3. PICK i \in A : \A j \in A : i <= j
    BY <2>1, <2>2, LeastOne
  <2>4. i \in Nat /\ i \in 1..n /\ i <= m /\ w[i] # <<k, i>> /\ i # 1
    <3>1. i \in 1..n /\ i <= m /\ w[i] # <<k, i>>
      BY <2>3
    <3>2. i # 1
      BY <1>6, <1>9, <3>1
    <3>3. QED
      BY <1>4, <3>1, <3>2
  <2>5. i - 1 \in 1..(n - 1) /\ i - 1 \in 1..n /\ (i - 1) + 1 = i /\ i - 1 < m /\ ~(i <= i - 1)
    BY <1>4, <1>9, <2>4
  <2>6. w[i - 1] = <<k, i - 1>>
    <3>1. i - 1 \notin A
      BY <2>3, <2>5
    <3>2. i - 1 <= m
      BY <1>9, <2>4, <2>5
    <3>3. QED
      BY <2>5, <3>1, <3>2
  <2>7. PICK j : j = i - 1
    OBVIOUS
  <2>8. Following(c, <<k, j>>) = <<k, j + 1>>
    BY <1>8, <2>5, <2>7 DEF Following
  <2>9. w[i] = <<k, i>>
    BY <1>5, <2>5, <2>6, <2>7, <2>8
  <2>10. QED
    BY <2>4, <2>9
<1>11. m <= n
  <2>1. SUFFICES ASSUME n < m PROVE FALSE
    BY <1>4, <1>9
  <2>2. n <= m
    BY <1>4, <1>9, <2>1
  <2>3. w[n] = <<k, n>>
    BY <1>4, <1>10, <2>2
  <2>4. n = m
    BY <1>5, <1>8, <2>3 DEF Ends
  <2>5. QED
    BY <1>4, <2>1, <2>4
<1>12. ASSUME NEW u \in 1..m PROVE x[u - 1 + 1] = Sent(c, k)[u]
  <2>1. u \in 1..n /\ u <= m /\ u - 1 + 1 = u
    BY <1>4, <1>9, <1>11
  <2>2. w[u] = <<k, u>>
    BY <1>10, <2>1
  <2>3. QED
    BY <1>5, <2>1, <2>2
<1>13. Follows(c, k, 1)
  <2>1. m < 1 + n
    BY <1>4, <1>9, <1>11
  <2>2. QED
    BY <1>3, <1>8, <1>12, <2>1 DEF Follows
<1>14. Head(toServer[c]) = Sent(c, k)[1]
  <2>1. x[1] = Sent(c, p[1])[p[2]]
    BY <1>4, <1>5, <1>6
  <2>2. QED
    BY <1>4, <1>7, <1>8, <2>1
<1>15. QED
  BY <1>9, <1>13, <1>14

\* The first of what comes is taken: the rest follows.
LEMMA FollowsOn ==
  ASSUME Types, NEW c \in Clients, NEW k, Len(Sent(c, k)) \in Nat, NEW pos \in Nat \ {0}, pos <= Len(Sent(c, k)),
         Follows(c, k, pos), toServer[c] # <<>>, toServer' = [toServer EXCEPT ![c] = Tail(@)],
         script' = script, outbox' = outbox
  PROVE  Head(toServer[c]) = Sent(c, k)[pos] /\ Follows(c, k, pos + 1)'
<1>1. PICK t, o, S : t = toServer[c] /\ o = outbox[c] /\ S = SentUnits(c)
  OBVIOUS
<1>2. t \in Seq(S) /\ o \in Seq(S) /\ t # <<>> /\ Up(c) = t \o o /\ Up(c)' = Tail(t) \o o /\ Up(c)[1] = Head(t)
  BY <1>1, Streams DEF Types, Up
<1>3. PICK x, y, n, m : x = t \o o /\ y = Tail(t) \o o /\ n = Len(x) /\ m = Len(Sent(c, k))
  OBVIOUS
<1>4. n \in Nat \ {0} /\ Len(y) = n - 1 /\ \A i \in 1..(n - 1) : y[i] = x[i + 1]
  BY <1>2, <1>3, Dropped
<1>5. m \in Nat /\ m < pos + n /\ \A u \in pos..m : x[u - pos + 1] = Sent(c, k)[u]
  BY <1>2, <1>3 DEF Follows
<1>6. Head(t) = Sent(c, k)[pos]
  <2>1. pos \in pos..m /\ pos - pos + 1 = 1
    BY <1>3, <1>5
  <2>2. QED
    BY <1>2, <1>3, <1>5, <2>1
<1>7. m < (pos + 1) + (n - 1)
  BY <1>4, <1>5
<1>8. ASSUME NEW u \in (pos + 1)..m PROVE y[u - (pos + 1) + 1] = Sent(c, k)[u]
  <2>1. u \in pos..m /\ u - (pos + 1) + 1 \in 1..(n - 1) /\ (u - (pos + 1) + 1) + 1 = u - pos + 1
    BY <1>4, <1>5
  <2>2. QED
    BY <1>4, <1>5, <2>1
<1>9. Sent(c, k)' = Sent(c, k)
  BY SameScript
<1>10. Follows(c, k, pos + 1)'
  <2>1. PICK z : z = Up(c)'
    OBVIOUS
  <2>2. z = y
    BY <1>2, <1>3, <2>1
  <2>3. PICK q : q = pos + 1
    OBVIOUS
  <2>4. m < q + Len(z) /\ \A u \in q..m : z[u - q + 1] = Sent(c, k)[u]
    BY <1>4, <1>7, <1>8, <2>2, <2>3
  <2>5. Follows(c, k, q)'
    BY <1>3, <1>9, <2>1, <2>4 DEF Follows
  <2>6. QED
    BY <2>3, <2>5
<1>11. QED
  BY <1>1, <1>6, <1>10

\* What comes stays when more is sent.
LEMMA FollowsStays ==
  ASSUME Types, NEW c \in Clients, NEW k, Len(Sent(c, k)) \in Nat, NEW pos \in Nat \ {0}, Follows(c, k, pos),
         script' = script, NEW x, x = Up(c)', Len(x) \in Nat, Len(Up(c)) <= Len(x),
         \A i \in 1..Len(Up(c)) : x[i] = Up(c)[i]
  PROVE  Follows(c, k, pos)'
<1>1. PICK y, n, m : y = Up(c) /\ n = Len(y) /\ m = Len(Sent(c, k))
  OBVIOUS
<1>2. n \in Nat
  BY <1>1, Streams, LenProperties
<1>3. m \in Nat /\ m < pos + n /\ (\A u \in pos..m : y[u - pos + 1] = Sent(c, k)[u]) /\ \A i \in 1..n : x[i] = y[i]
  BY <1>1 DEF Follows
<1>4. ASSUME NEW u \in pos..m PROVE x[u - pos + 1] = Sent(c, k)[u]
  <2>1. u - pos + 1 \in 1..n
    BY <1>2, <1>3
  <2>2. QED
    BY <1>3, <2>1
<1>5. m < pos + Len(x)
  BY <1>1, <1>2, <1>3
<1>6. Sent(c, k)' = Sent(c, k)
  BY SameScript
<1>7. QED
  BY <1>1, <1>4, <1>5, <1>6 DEF Follows

LEMMA ParsedIs ==
  ASSUME NEW file \in Seq(Chars), NEW q \in 2 .. Len(file)
  PROVE  Loading(Parsed(file, q))
<1>1. SubSeq(file, 3, q) \in Seq(Chars)
  <2>1. \A i \in 3 .. q : i \in 1 .. Len(file)
    BY LenProperties
  <2>2. \A i \in 3 .. q : file[i] \in Chars
    BY <2>1, ElementOfSeq
  <2>3. 3 \in Int /\ q \in Int
    OBVIOUS
  <2>4. QED
    BY <2>2, <2>3, SubSeqProperties
<1>2. QED
  BY <1>1, BegunIs, ReadLoading DEF Parsed

LEMMA SameLoads ==
  ASSUME script' = script, load' = load, NEW c
  PROVE  /\ \A k : LoadAt(c, k)' = LoadAt(c, k)
         /\ \A k, j : HasRead(script[c][k].file, j)' = HasRead(script[c][k].file, j)
<1>1. \A k : LoadAt(c, k)' = LoadAt(c, k)
  BY DEF LoadAt
<1>2. \A k, j : HasRead(script[c][k].file, j)' = HasRead(script[c][k].file, j)
  BY DEF HasRead
<1>3. QED
  BY <1>1, <1>2

\* Out of a transfer nothing is read; neither is what was.
LEMMA LoadRests ==
  ASSUME LoadInv, UNCHANGED <<script, load, loaded>>, spc' \notin {"chunk", "csvheader"},
         spc' \in {"header", "payload", "reply", "accept"} => spc \in {"header", "payload", "reply", "accept"}
  PROVE  LoadInv'
<1>1. \A c, k : Loaded(c, k) => Loaded(c, k)'
  <2>1. SUFFICES ASSUME NEW c, NEW k, Loaded(c, k) PROVE Loaded(c, k)'
    OBVIOUS
  <2>2. LoadAt(c, k)'
    BY <2>1, SameLoads DEF Loaded
  <2>3. QED
    BY <2>1, <2>2 DEF Loaded
<1>2. \A c : Transfers(c)'
  BY DEF Transfers
<1>3. Loading(load)' /\ load'.col \in Columns
  BY DEF LoadInv
<1>4. load'.begun /\ spc' \in {"header", "payload", "reply", "accept"} => \E c \in Clients : \E k \in Nat : Loaded(c, k)'
  BY <1>1 DEF LoadInv
<1>5. QED
  BY <1>2, <1>3, <1>4 DEF LoadInv

\* A transfer goes on while its client sends.
LEMMA TransfersStay ==
  ASSUME Types, NEW c \in Clients, Transfers(c), UNCHANGED <<script, load, spc>>,
         NEW x, x = Up(c)', Len(x) \in Nat, Len(Up(c)) <= Len(x), \A i \in 1..Len(Up(c)) : x[i] = Up(c)[i]
  PROVE  Transfers(c)'
<1>1. ASSUME NEW k \in Nat, LoadAt(c, k) PROVE Len(Sent(c, k)) \in Nat
  <2>1. PICK n : n = Pieces(script[c][k].file)
    OBVIOUS
  <2>2. Sends(c, k, n)
    BY <1>1, <2>1, TransferIs
  <2>3. QED
    BY <2>2 DEF Sends
<1>2. ASSUME spc = "chunk" PROVE \E k, j \in Nat : AtChunk(c, k, j)'
  <2>1. PICK k, j \in Nat : AtChunk(c, k, j)
    BY <1>2 DEF Transfers
  <2>2. PICK pos : pos = 2 * j + 2
    OBVIOUS
  <2>3. /\ LoadAt(c, k) /\ j < Pieces(script[c][k].file) /\ HasRead(script[c][k].file, j) /\ Follows(c, k, pos)
        /\ pos \in Nat \ {0}
    BY <2>1, <2>2 DEF AtChunk
  <2>4. Follows(c, k, pos)'
    BY <1>1, <2>3, FollowsStays
  <2>5. LoadAt(c, k)' /\ HasRead(script[c][k].file, j)' /\ j < Pieces(script[c][k].file)'
    BY <2>3, SameLoads DEF Pieces
  <2>6. QED
    BY <2>2, <2>4, <2>5 DEF AtChunk
<1>3. ASSUME spc = "csvheader" PROVE \E k, j \in Nat : AtHeader(c, k, j)'
  <2>1. PICK k, j \in Nat : AtHeader(c, k, j)
    BY <1>3 DEF Transfers
  <2>2. PICK pos : pos = 2 * j + 1
    OBVIOUS
  <2>3. /\ LoadAt(c, k) /\ j # 0 /\ j <= Pieces(script[c][k].file) /\ HasRead(script[c][k].file, j)
        /\ Follows(c, k, pos) /\ pos \in Nat \ {0}
    BY <2>1, <2>2 DEF AtHeader
  <2>4. Follows(c, k, pos)'
    BY <1>1, <2>3, FollowsStays
  <2>5. LoadAt(c, k)' /\ HasRead(script[c][k].file, j)' /\ j <= Pieces(script[c][k].file)'
    BY <2>3, SameLoads DEF Pieces
  <2>6. QED
    BY <2>2, <2>3, <2>4, <2>5 DEF AtHeader
<1>4. QED
  BY <1>2, <1>3 DEF Transfers

\* A chunk is the next piece of the file.
LEMMA ChunkLoads ==
  ASSUME ProtocolInv, LoadInv, NEW c \in serving, RecvChunk(c)
  PROVE  LoadInv'
<1>1. /\ spc = "chunk" /\ toServer[c] # <<>> /\ toServer' = [toServer EXCEPT ![c] = Tail(@)]
      /\ serving' = serving /\ UNCHANGED clientVars
      /\ \/ /\ load' = PartialLoad(load, Head(toServer[c]).note) /\ spc' = "csvheader"
            /\ load.begun \/ Named(Head(toServer[c]).note)
         \/ spc' = "crashed" /\ UNCHANGED <<load, loaded>>
  BY DEF RecvChunk, Input, Take, Others, Crash
<1>2. Types /\ c \in Clients /\ serving = {c} /\ UNCHANGED <<script, outbox>>
  BY <1>1, Serves DEF clientVars
<1>3. CASE spc' = "crashed"
  BY <1>1, <1>2, <1>3, LoadRests
<1>4. SUFFICES ASSUME load' = PartialLoad(load, Head(toServer[c]).note), spc' = "csvheader",
                       load.begun \/ Named(Head(toServer[c]).note)
                PROVE  LoadInv'
  BY <1>1, <1>3
<1>5. PICK k, j \in Nat : AtChunk(c, k, j)
  BY <1>1 DEF LoadInv, Transfers
<1>6. PICK file, n, pos : file = script[c][k].file /\ n = Pieces(file) /\ pos = 2 * j + 2
  OBVIOUS
<1>7. LoadAt(c, k) /\ j < n /\ HasRead(file, j) /\ Follows(c, k, pos)
  BY <1>5, <1>6 DEF AtChunk
<1>8. /\ n \in Nat \ {0} /\ Len(Sent(c, k)) = 2 * n + 1
      /\ \A i \in 1 .. n : Sent(c, k)[2 * i].note = Piece(file, i)
  <2>1. n = Pieces(script[c][k].file)
    BY <1>6
  <2>2. Sends(c, k, n)
    BY <1>2, <1>7, <2>1, TransferIs
  <2>3. QED
    BY <1>6, <2>2 DEF Sends
<1>9. /\ pos \in Nat \ {0} /\ pos <= Len(Sent(c, k)) /\ Len(Sent(c, k)) \in Nat
      /\ j + 1 \in 1 .. n /\ pos = 2 * (j + 1) /\ pos + 1 = 2 * (j + 1) + 1
  BY <1>6, <1>7, <1>8
<1>10. Head(toServer[c]) = Sent(c, k)[pos] /\ Follows(c, k, pos + 1)'
  BY <1>1, <1>2, <1>7, <1>9, FollowsOn
<1>11. Head(toServer[c]).note = Piece(file, j + 1)
  BY <1>8, <1>9, <1>10
<1>12. Named(file)
  <2>1. CASE j = 0
    <3>1. ~load.begun /\ j + 1 = 1
      BY <1>7, <2>1 DEF HasRead
    <3>2. Named(Piece(file, 1))
      BY <1>4, <1>11, <3>1
    <3>3. file \in Seq(STRING) /\ Len(file) >= 2
      BY <1>2, <1>6, <1>7, LoadLong
    <3>4. \E b \in 1 .. Len(file) : Piece(file, 1)[1] = file[b] /\ b = 1
      <4>1. PICK m : m = j + 1
        OBVIOUS
      <4>2. m \in 1 .. Pieces(file) /\ m = 1
        BY <1>6, <1>9, <3>1, <4>1
      <4>3. QED
        BY <3>3, <4>2, PieceBegins
    <3>5. QED
      BY <3>2, <3>4 DEF Named
  <2>2. CASE j # 0
    BY <1>7, <2>2 DEF HasRead
  <2>3. QED
    BY <2>1, <2>2
<1>13. PICK q : q = Till(file, j + 1)
  OBVIOUS
<1>14. load' = Parsed(file, q)
  <2>1. PartialLoad(load, Piece(file, j + 1)) = Parsed(file, q)
    BY <1>2, <1>6, <1>7, <1>13, <1>12, NextPiece
  <2>2. QED
    BY <1>4, <1>11, <2>1
<1>15. /\ file \in Seq(Chars) /\ q \in 2 .. Len(file)
       /\ Parsed(file, q).col \in Columns
  <2>1. /\ file \in Seq(Chars) /\ Len(file) \in Nat /\ Len(file) >= 2
        /\ \A i \in 2 .. Len(file) : Parsed(file, i).col \in Columns /\ Parsed(file, i).begun = TRUE
    BY <1>2, <1>6, <1>7, <1>12, LoadIs
  <2>2. 2 <= Till(file, j + 1) /\ Till(file, j + 1) <= Len(file) /\ Till(file, j + 1) \in Nat
    BY <1>6, <1>9, <2>1, PiecesAre
  <2>3. q \in 2 .. Len(file)
    BY <1>13, <2>1, <2>2
  <2>4. QED
    BY <2>1, <2>3
<1>16. AtHeader(c, k, j + 1)'
  <2>1. script[c][k].file' = file /\ LoadAt(c, k)'
    BY <1>2, <1>6, <1>7 DEF LoadAt
  <2>2. PICK i : i = j + 1
    OBVIOUS
  <2>3. i # 0 /\ i <= n /\ i \in Nat
    BY <1>9, <2>2
  <2>4. HasRead(file, i)'
    BY <1>13, <1>14, <1>12, <2>2, <2>3 DEF HasRead
  <2>5. Follows(c, k, 2 * i + 1)'
    BY <1>9, <1>10, <2>2
  <2>6. AtHeader(c, k, i)'
    BY <1>6, <2>1, <2>3, <2>4, <2>5 DEF AtHeader
  <2>7. QED
    BY <2>2, <2>6
<1>17. Transfers(c)'
  <2>1. j + 1 \in Nat
    OBVIOUS
  <2>2. QED
    BY <1>16, <1>4, <2>1 DEF Transfers
<1>18. Loading(load)' /\ load'.col \in Columns
  BY <1>14, <1>15, ParsedIs DEF Loading
<1>19. QED
  BY <1>1, <1>2, <1>17, <1>18, <1>4 DEF LoadInv

\* The header of the next chunk, or the one that ends the transfer.
LEMMA HeaderLoads ==
  ASSUME ProtocolInv, LoadInv, NEW c \in serving, RecvCsvHeader(c)
  PROVE  LoadInv'
<1>1. PICK unit : unit = Head(toServer[c])
  OBVIOUS
<1>2. /\ spc = "csvheader" /\ toServer[c] # <<>> /\ toServer' = [toServer EXCEPT ![c] = Tail(@)]
      /\ UNCHANGED clientVars
      /\ serving' = serving /\ load' = load
      /\ unit.status = "CSV" => /\ spc' = IF unit.last THEN "header" ELSE "chunk"
                                /\ loaded' = IF unit.last THEN unit.note ELSE loaded
  BY <1>1 DEF RecvCsvHeader, Input, Take, Others, Crash
<1>3. Types /\ c \in Clients /\ serving = {c} /\ UNCHANGED <<script, outbox>>
  BY <1>2, Serves DEF clientVars
<1>4. PICK k, j \in Nat : AtHeader(c, k, j)
  BY <1>2 DEF LoadInv, Transfers
<1>5. PICK file, n, pos : file = script[c][k].file /\ n = Pieces(file) /\ pos = 2 * j + 1
  OBVIOUS
<1>6. LoadAt(c, k) /\ j # 0 /\ j <= n /\ HasRead(file, j) /\ Follows(c, k, pos)
  BY <1>4, <1>5 DEF AtHeader
<1>7. Sends(c, k, n)
  <2>1. n = Pieces(script[c][k].file)
    BY <1>5
  <2>2. QED
    BY <1>3, <1>6, <2>1, TransferIs
<1>8. n \in Nat \ {0} /\ Len(Sent(c, k)) = 2 * n + 1
  BY <1>7 DEF Sends
<1>9. pos \in Nat \ {0} /\ pos <= Len(Sent(c, k)) /\ Len(Sent(c, k)) \in Nat
  BY <1>5, <1>6, <1>8
<1>10. unit = Sent(c, k)[pos] /\ Follows(c, k, pos + 1)'
  BY <1>1, <1>2, <1>3, <1>6, <1>9, FollowsOn
<1>11. LoadAt(c, k)' /\ HasRead(file, j)' /\ script[c][k].file' = file
  BY <1>2, <1>3, <1>5, <1>6, SameLoads
<1>12. Loading(load)' /\ load'.col \in Columns
  BY <1>2 DEF LoadInv
<1>13. CASE j # n
  <2>1. j + 1 \in 1 .. n /\ pos = 2 * (j + 1) - 1 /\ pos + 1 = 2 * j + 2 /\ j < n
    BY <1>5, <1>6, <1>8, <1>13
  <2>2. unit.status = "CSV" /\ unit.last = FALSE
    BY <1>7, <1>10, <2>1 DEF Sends
  <2>3. spc' = "chunk"
    BY <1>2, <2>2
  <2>4. AtChunk(c, k, j)'
    BY <1>5, <1>10, <1>11, <2>1 DEF AtChunk
  <2>5. Transfers(c)'
    BY <2>3, <2>4 DEF Transfers
  <2>6. QED
    BY <1>2, <1>3, <1>12, <2>3, <2>5 DEF LoadInv
<1>14. CASE j = n
  <2>1. pos = 2 * n + 1
    BY <1>5, <1>14
  <2>2. unit.status = "CSV" /\ unit.last = TRUE /\ unit.note = script[c][k].rows
    BY <1>7, <1>10, <2>1 DEF Sends
  <2>3. spc' = "header" /\ loaded' = script[c][k].rows
    BY <1>2, <2>2
  <2>4. load = Parsed(file, Len(file))
    <3>1. Len(file) \in Nat /\ Len(file) >= 2
      BY <1>3, <1>5, <1>6, LoadLong
    <3>2. Till(file, n) = Len(file)
      BY <1>5, <3>1, PiecesAre
    <3>3. load = Parsed(file, Till(file, n))
      BY <1>6, <1>14 DEF HasRead
    <3>4. QED
      BY <3>2, <3>3
  <2>5. Loaded(c, k)'
    BY <1>2, <1>3, <1>5, <1>6, <1>11, <2>3, <2>4 DEF Loaded, HasRead
  <2>6. \A d : Transfers(d)'
    BY <2>3 DEF Transfers
  <2>7. QED
    BY <1>3, <1>12, <2>3, <2>5, <2>6 DEF LoadInv
<1>15. QED
  BY <1>13, <1>14

\* The first header of a transfer, and of a query.
LEMMA FirstLoads ==
  ASSUME ProtocolInv, LoadInv, NEW c \in serving, RecvHeader(c)
  PROVE  LoadInv'
<1>1. PICK unit : unit = Head(toServer[c])
  OBVIOUS
<1>2. /\ spc = "header" /\ toServer[c] # <<>> /\ toServer' = [toServer EXCEPT ![c] = Tail(@)]
      /\ UNCHANGED clientVars
      /\ serving' = serving /\ loaded' = loaded
      /\ IF unit.status = "CSV" /\ unit.last THEN spc' = "crashed" /\ load' = load
         ELSE /\ spc' = IF unit.status = "CSV" THEN "chunk" ELSE "payload"
              /\ load' = IF unit.status = "CSV" THEN [load EXCEPT !.begun = FALSE] ELSE load
  BY <1>1 DEF RecvHeader, Input, Take, Others, Crash
<1>3. Types /\ c \in Clients /\ serving = {c} /\ UNCHANGED <<script, outbox>>
  BY <1>2, Serves DEF clientVars
<1>4. PICK k \in Nat : /\ k \in DOMAIN script[c] /\ Follows(c, k, 1) /\ unit = Sent(c, k)[1]
                       /\ Answered(c, k) \/ script[c][k].kind = "emptyload" \/ script[c][k].kind = "load"
  BY <1>1, <1>2, <1>3, FollowsFirst
<1>5. CASE Answered(c, k)
  <2>1. unit.status = "OK"
    BY <1>4, <1>5, QuerySent, Zenon
  <2>2. spc' = "payload" /\ load' = load
    BY <1>2, <2>1
  <2>3. QED
    BY <1>2, <1>3, <2>2, LoadRests
<1>6. CASE script[c][k].kind = "emptyload"
  <2>1. Sent(c, k) = <<Header("CSV", TRUE, 0, <<>>)>>
    BY <1>6, EmptySent
  <2>2. unit = Header("CSV", TRUE, 0, <<>>)
    BY <1>4, <2>1
  <2>3. unit.status = "CSV" /\ unit.last
    BY <2>2 DEF Header
  <2>4. spc' = "crashed" /\ load' = load
    BY <1>2, <2>3
  <2>5. QED
    BY <1>2, <1>3, <2>4, LoadRests
<1>7. CASE script[c][k].kind = "load"
  <2>1. LoadAt(c, k)
    BY <1>4, <1>7 DEF LoadAt
  <2>2. PICK file, n : file = script[c][k].file /\ n = Pieces(script[c][k].file)
    OBVIOUS
  <2>3. Sends(c, k, n)
    BY <1>3, <2>1, <2>2, TransferIs
  <2>4. n \in Nat \ {0} /\ Len(Sent(c, k)) = 2 * n + 1
    BY <2>3 DEF Sends
  <2>5. unit.status = "CSV" /\ unit.last = FALSE
    <3>1. 1 \in 1 .. n /\ 2 * 1 - 1 = 1
      BY <2>4
    <3>2. QED
      BY <1>4, <2>3, <3>1 DEF Sends
  <2>6. spc' = "chunk" /\ load' = [load EXCEPT !.begun = FALSE]
    BY <1>2, <2>5
  <2>7. Loading(load)' /\ load'.begun = FALSE /\ load'.col \in Columns
    <3>1. PICK l : l = load
      OBVIOUS
    <3>2. Loading(l) /\ l.col \in Columns /\ load' = [l EXCEPT !.begun = FALSE]
      BY <2>6, <3>1 DEF LoadInv
    <3>3. PICK no : no = FALSE
      OBVIOUS
    <3>4. [l EXCEPT !.begun = no] = [begun |-> no, columns |-> l.columns, col |-> l.col, result |-> l.result, negative |-> l.negative]
      BY <3>2 DEF Loading
    <3>5. QED
      BY <3>2, <3>3, <3>4 DEF Loading
  <2>8. Follows(c, k, 2)'
    <3>1. 1 \in Nat \ {0} /\ 1 <= Len(Sent(c, k)) /\ Len(Sent(c, k)) \in Nat /\ 1 + 1 = 2
      BY <2>4
    <3>2. Follows(c, k, 1 + 1)'
      BY <1>2, <1>3, <1>4, <3>1, FollowsOn
    <3>3. QED
      BY <3>1, <3>2
  <2>9. AtChunk(c, k, 0)'
    <3>1. script[c][k].file' = file /\ LoadAt(c, k)'
      BY <1>3, <2>1, <2>2 DEF LoadAt
    <3>2. PICK j : j = 0
      OBVIOUS
    <3>3. HasRead(file, j)' /\ j < n /\ 2 * j + 2 = 2
      BY <2>4, <2>7, <3>2 DEF HasRead
    <3>4. AtChunk(c, k, j)'
      BY <2>2, <2>8, <3>1, <3>3 DEF AtChunk
    <3>5. QED
      BY <3>2, <3>4
  <2>10. Transfers(c)'
    <3>1. 0 \in Nat
      OBVIOUS
    <3>2. QED
      BY <1>4, <2>6, <2>9, <3>1 DEF Transfers
  <2>11. QED
    BY <1>2, <1>3, <2>6, <2>7, <2>10 DEF LoadInv
<1>8. QED
  BY <1>4, <1>5, <1>6, <1>7

\* What a client does adds to what comes.
LEMMA UpLonger ==
  ASSUME ProtocolInv, ProtocolInv', NEW c \in Clients, ClientStep(c) \/ Die(c), NEW d \in Clients,
         NEW x, x = Up(d)
  PROVE  /\ Len(x) \in Nat /\ Len(Up(d)') \in Nat /\ Len(x) <= Len(Up(d)')
         /\ \A i \in 1..Len(x) : Up(d)'[i] = x[i]
<1>1. Types /\ Types' /\ ClientFits(c)
  BY DEF ProtocolInv, Client
<1>2. PICK y : y = Up(d)'
  OBVIOUS
<1>3. PICK S : S = SentUnits(d)
  OBVIOUS
<1>4. PICK t, o : t = toServer[d] /\ o = outbox[d]
  OBVIOUS
<1>5. t \in Seq(S) /\ o \in Seq(S) /\ x = t \o o /\ x \in Seq(S) /\ Len(x) \in Nat
  <2>1. t \in Seq(S) /\ o \in Seq(S) /\ x = t \o o
    BY <1>1, <1>3, <1>4 DEF Types, Up
  <2>2. QED
    BY <2>1, ConcatProperties, LenProperties
<1>6. SUFFICES Len(y) \in Nat /\ Len(x) <= Len(y) /\ \A i \in 1..Len(x) : y[i] = x[i]
  BY <1>2, <1>5
<1>7. ASSUME UNCHANGED <<toServer, outbox>> PROVE y = x
  BY <1>2, <1>7 DEF Up
<1>8. CASE d # c
  <2>1. toServer'[d] = t /\ outbox'[d] = o
    <3>1. CASE ReadCommand(c)
      BY <1>1, <1>4, <1>8, <3>1 DEF ReadCommand, Types
    <3>2. CASE Send(c)
      BY <1>1, <1>4, <1>8, <3>2 DEF Send, Types
    <3>3. CASE ~ReadCommand(c) /\ ~Send(c)
      BY <1>4, <3>3 DEF ClientStep, Connect, Receive, Close, Die
    <3>4. QED
      BY <3>1, <3>2, <3>3
  <2>2. y = x
    BY <1>2, <1>5, <2>1 DEF Up
  <2>3. QED
    BY <1>5, <2>2
<1>9. CASE d = c /\ ReadCommand(c)
  <2>1. toServer'[d] = t /\ o = <<>> /\ outbox'[d] \in Seq(SentUnits(d)')
    BY <1>1, <1>4, <1>9 DEF ReadCommand, ClientFits, Types
  <2>2. PICK n, R : n = outbox'[d] /\ R = SentUnits(d)'
    OBVIOUS
  <2>3. y = t \o n /\ x = t /\ n \in Seq(R)
    BY <1>2, <1>5, <2>1, <2>2, ConcatEmptySeq DEF Up
  <2>4. t \in Seq(R)
    <3>1. toServer'[d] \in Seq(SentUnits(d)')
      BY <1>1 DEF Types
    <3>2. QED
      BY <2>1, <2>2, <3>1
  <2>5. /\ Len(y) = Len(t) + Len(n)
        /\ \A i \in 1..Len(t) + Len(n) : y[i] = IF i <= Len(t) THEN t[i] ELSE n[i - Len(t)]
    BY <2>3, <2>4, ConcatProperties
  <2>6. Len(t) \in Nat /\ Len(n) \in Nat
    BY <2>3, <2>4, LenProperties
  <2>7. QED
    BY <2>3, <2>5, <2>6
<1>10. CASE d = c /\ Send(c)
  <2>1. /\ o # <<>> /\ toServer'[d] = Append(t, Head(o)) /\ outbox'[d] = Tail(o)
    BY <1>1, <1>4, <1>10 DEF Send, ClientFits, Types
  <2>2. Append(t, Head(o)) \o Tail(o) = t \o o
    BY <1>5, <2>1, Passed
  <2>3. y = x
    BY <1>2, <1>5, <2>1, <2>2 DEF Up
  <2>4. QED
    BY <1>5, <2>3
<1>11. CASE ~ReadCommand(c) /\ ~Send(c)
  <2>1. UNCHANGED <<toServer, outbox>>
    BY <1>11 DEF ClientStep, Connect, Receive, Close, Die
  <2>2. QED
    BY <1>5, <1>7, <2>1
<1>12. QED
  BY <1>8, <1>9, <1>10, <1>11

LEMMA ServesOne ==
  ASSUME ProtocolInv
  PROVE  serving \subseteq Clients
BY DEF ProtocolInv, Server

LEMMA ClientLoads ==
  ASSUME ProtocolInv, ProtocolInv', LoadInv, NEW c \in Clients, ClientStep(c) \/ Die(c)
  PROVE  LoadInv'
<1>1. UNCHANGED <<script, spc, serving, load, loaded>>
  BY DEF ClientStep, Connect, ReadCommand, Send, Receive, Close, Die, Shut, serverVars
<1>2. CASE spc \in {"chunk", "csvheader"}
  <2>1. ASSUME NEW d \in serving PROVE Transfers(d)'
    <3>1. d \in Clients /\ Types /\ Transfers(d)
      BY ServesOne DEF ProtocolInv, LoadInv
    <3>2. PICK y : y = Up(d)'
      OBVIOUS
    <3>3. PICK x : x = Up(d)
      OBVIOUS
    <3>4. Len(y) \in Nat /\ Len(x) <= Len(y) /\ \A i \in 1..Len(x) : y[i] = x[i]
      BY <3>1, <3>2, <3>3, UpLonger
    <3>5. Len(Up(d)) <= Len(y) /\ \A i \in 1..Len(Up(d)) : y[i] = Up(d)[i]
      BY <3>3, <3>4
    <3>6. QED
      BY <1>1, <3>1, <3>2, <3>4, <3>5, TransfersStay
  <2>2. Loading(load)' /\ load'.col \in Columns
    BY <1>1 DEF LoadInv
  <2>3. spc' \notin {"header", "payload", "reply", "accept"}
    BY <1>1, <1>2
  <2>4. QED
    BY <1>1, <2>1, <2>2, <2>3 DEF LoadInv
<1>3. CASE spc \notin {"chunk", "csvheader"}
  BY <1>1, <1>3, LoadRests
<1>4. QED
  BY <1>2, <1>3

LEMMA LoadKept ==
  ASSUME ProtocolInv, ProtocolInv', LoadInv, [Next]_vars
  PROVE  LoadInv'
<1>1. ASSUME NEW c \in Clients, ClientStep(c) \/ Die(c) PROVE LoadInv'
  BY <1>1, ClientLoads
<1>2. CASE Accept
  <2>1. UNCHANGED <<script, load, loaded>> /\ spc' = "header" /\ spc = "accept"
    BY <1>2 DEF Accept, clientVars
  <2>2. QED
    BY <2>1, LoadRests
<1>3. ASSUME NEW c \in serving,
             \/ RecvHeader(c) \/ ClientGone(c) \/ RecvPayload(c) \/ SendReply(c)
             \/ RecvChunk(c) \/ RecvCsvHeader(c) \/ CutOff(c)
      PROVE  LoadInv'
  <2>1. CASE RecvHeader(c)
    BY <2>1, FirstLoads
  <2>2. CASE ClientGone(c)
    <3>1. UNCHANGED <<script, load, loaded>> /\ spc = "header" /\ spc' \in {"crashed", "exited", "accept"}
      BY <2>2 DEF ClientGone, Crash, Others, clientVars
    <3>2. QED
      BY <3>1, LoadRests
  <2>3. CASE RecvPayload(c)
    <3>1. UNCHANGED <<script, load, loaded>> /\ spc = "payload" /\ spc' \in {"reply", "crashed"}
      BY <2>3 DEF RecvPayload, Others, Crash, clientVars
    <3>2. QED
      BY <3>1, LoadRests
  <2>4. CASE SendReply(c)
    <3>1. UNCHANGED <<script, load, loaded>> /\ spc = "reply" /\ spc' \in {"crashed", "reply", "header"}
      BY <2>4 DEF SendReply, Crash, clientVars
    <3>2. QED
      BY <3>1, LoadRests
  <2>5. CASE RecvChunk(c)
    BY <2>5, ChunkLoads
  <2>6. CASE RecvCsvHeader(c)
    BY <2>6, HeaderLoads
  <2>7. CASE CutOff(c)
    <3>1. UNCHANGED <<script, load, loaded>> /\ spc' = "crashed"
      BY <2>7 DEF CutOff, Crash, Others, clientVars
    <3>2. QED
      BY <3>1, LoadRests
  <2>8. QED
    BY <1>3, <2>1, <2>2, <2>3, <2>4, <2>5, <2>6, <2>7
<1>4. CASE UNCHANGED vars
  <2>1. UNCHANGED <<script, load, loaded, spc, serving, toServer, outbox>>
    BY <1>4 DEF vars, clientVars, serverVars
  <2>2. \A d : Up(d)' = Up(d)
    BY <2>1 DEF Up
  <2>3. ASSUME NEW d \in serving PROVE Transfers(d)'
    <3>1. d \in Clients /\ Types /\ Transfers(d)
      BY ServesOne DEF ProtocolInv, LoadInv
    <3>2. PICK y : y = Up(d)
      OBVIOUS
    <3>3. y = Up(d)' /\ Len(y) \in Nat /\ Len(Up(d)) <= Len(y) /\ \A i \in 1..Len(Up(d)) : y[i] = Up(d)[i]
      <4>1. y \in Seq(SentUnits(d))
        BY <3>1, <3>2, Streams
      <4>2. Len(y) \in Nat
        BY <4>1, LenProperties
      <4>3. QED
        BY <2>2, <3>2, <4>2
    <3>4. QED
      BY <2>1, <3>1, <3>3, TransfersStay
  <2>4. \A d, k : Loaded(d, k)' = Loaded(d, k)
    BY <2>1 DEF Loaded, LoadAt
  <2>5. QED
    BY <2>1, <2>3, <2>4 DEF LoadInv
<1>5. QED
  BY <1>1, <1>2, <1>3, <1>4 DEF Next, ServerStep

LEMMA LoadAtStart ==
  ASSUME Init
  PROVE  LoadInv
<1>1. load = NewLoad /\ serving = {}
  BY DEF Init
<1>2. Loading(load) /\ load.col \in Columns /\ load.begun = FALSE
  BY <1>1 DEF NewLoad, Loading, Columns
<1>3. QED
  BY <1>1, <1>2 DEF LoadInv

(* A file is loaded as it is: once a transfer is over the columns hold the *)
(* rows of the file, in their order, whatever the size of the client's     *)
(* buffer and wherever in a number a chunk of it ends.                     *)
THEOREM FilesLoadWhole == Spec => []LoadedWhole
<1>1. Init => LoadInv
  BY LoadAtStart
<1>2. ProtocolInv /\ ProtocolInv' /\ LoadInv /\ [Next]_vars => LoadInv'
  BY LoadKept
<1>3. ProtocolInv /\ LoadInv => LoadedWhole
  <2>1. SUFFICES ASSUME ProtocolInv, LoadInv PROVE LoadedWhole
    OBVIOUS
  <2>2. load.col \in Columns /\ Types
    BY <2>1 DEF LoadInv, ProtocolInv
  <2>3. ASSUME load.begun, spc \in {"header", "payload", "reply", "accept"}, NEW col \in Columns
        PROVE  load.columns[col] = [r \in DOMAIN loaded |-> loaded[r][col]]
    <3>1. PICK c \in Clients, k \in Nat : Loaded(c, k)
      BY <2>1, <2>3 DEF LoadInv
    <3>2. PICK file, rows : file = script[c][k].file /\ rows = script[c][k].rows
      OBVIOUS
    <3>3. LoadAt(c, k) /\ Named(file) /\ loaded = rows /\ load = Parsed(file, Len(file))
      BY <3>1, <3>2 DEF Loaded
    <3>4. LegibleRows(rows) /\ Parsed(file, Len(file)).columns = RowsOf(rows, Len(rows))
      BY <2>2, <3>2, <3>3, LoadIs
    <3>5. DOMAIN rows = 1 .. Len(rows)
      BY <3>4 DEF LegibleRows
    <3>6. load.columns[col] = [r \in 1 .. Len(rows) |-> rows[r][col]]
      BY <3>3, <3>4 DEF RowsOf
    <3>7. QED
      BY <3>3, <3>5, <3>6
  <2>4. QED
    BY <2>2, <2>3 DEF LoadedWhole
<1>4. QED
  BY <1>1, <1>2, <1>3, StreamsInStep, PTL DEF Spec
=============================================================================
