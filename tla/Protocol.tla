------------------------------ MODULE Protocol ------------------------------
(***************************************************************************)
(* client.c, server.c and message.c: clients read commands and talk to the *)
(* server over a stream each, one client after the other.  A command is    *)
(* one of                                                                  *)
(*   [kind |-> "query", reply |-> n, fatal |-> f]  answered by a text of n *)
(*                                        bytes; f: Session lets it abort  *)
(*   [kind |-> "shutdown", reply |-> n, fatal |-> f]  ends the server      *)
(*   [kind |-> "load", file |-> f, rows |-> r]  a file, which has the rows *)
(*                                        r; not answered                  *)
(*   [kind |-> "emptyload"]               the same with an empty file      *)
(*   [kind |-> "badload"]                 a load the client cannot read    *)
(* A stream carries units, one for each call of send: a recv asks for what *)
(* one send sent.  A file is a sequence of characters, the header line     *)
(* being one, "header", or "alien" when it names a column the database has *)
(* not; a chunk may end anywhere after it.  A client may die.              *)
(***************************************************************************)
EXTENDS Integers, Sequences, FiniteSets, SequencesExt

CONSTANTS Clients,    \* the clients
          Scripts,    \* what they may be given: functions from Clients to sequences of commands
          ChunkSize,  \* MESSAGE_CHUNK_SIZE
          BufSize,    \* bytes of a file the client reads at a time
          Text,       \* the characters of each value
          Digit,      \* the value of each digit
          MaxDeaths   \* bound on the clients that die

Commands == [kind : {"query", "shutdown"}, reply : Nat, fatal : BOOLEAN] \cup [kind : {"emptyload", "badload"}]
              \cup [kind : {"load"}, file : Seq(STRING), rows : Seq(Int \X Int)]

ASSUME ChunkSizePositive == ChunkSize \in Nat \ {0}
ASSUME HeaderFits == BufSize \in Nat /\ BufSize >= 2
ASSUME ScriptsTyped ==
  \A s \in Scripts : \A c \in Clients : s[c] \in Seq(Commands) /\
    \A k \in DOMAIN s[c] : s[c][k].kind = "load" =>
      /\ Len(s[c][k].file) >= 2
      /\ \A i \in 2..Len(s[c][k].file) : s[c][k].file[i] # "alien"

VARIABLES script,    \* the commands of each client
          at,        \* the one it is at
          cpc,       \* where a client is: "start", "idle", "send", "wait", "closed"
          outbox,    \* what it has still to send of a command
          printed,   \* what it printed, per client: <<command, first byte, bytes>>
          toServer, toClient,   \* the streams
          reset,     \* clients that closed with an unread reply
          backlog,   \* the connections nobody accepted yet
          spc,       \* where the server is
          serving,   \* the clients it serves: at most one
          hdr,       \* recv_message
          load,      \* csv_load_data, and the columns of the file's header
          replies,   \* what is left to send of a reply
          stop,      \* the shutdown flag
          loaded,    \* ghost: the rows of the last complete load
          deaths     \* ghost: the clients that died

clientVars == <<script, at, cpc, outbox, printed, reset, deaths>>
serverVars == <<spc, serving, hdr, load, replies, stop, loaded>>
vars == <<clientVars, backlog, toServer, toClient, serverVars>>

Columns == {1, 2}
Header(status, last, len, note) == [part |-> "header", status |-> status, last |-> last, length |-> len, note |-> note]
Payload(note) == [part |-> "payload", note |-> note]

(* every column of a file's header line is one the database has *)
Named(chars) == chars[1] # "alien"
(* the file of some rows, as the generator of test data writes it *)
Row(row) == Text[row[1]] \o <<",">> \o Text[row[2]] \o <<"nl">>
FileOf(rows) == <<"header", "nl">> \o FlattenSeq([i \in DOMAIN rows |-> Row(rows[i])])

(* the load branch of main: chunks of a file, then a header without payload *)
Piece(file, i) == SubSeq(file, (i - 1) * BufSize + 1, Min({i * BufSize, Len(file)}))
\* mutant: the last header does not say it belongs to a transfer
Transfer_LastOK(cmd) ==
  LET file == cmd.file
      n == (Len(file) + BufSize - 1) \div BufSize
      unit(k) == IF k % 2 = 1 THEN Header("CSV", FALSE, Len(Piece(file, (k + 1) \div 2)) + 1, <<>>)
                 ELSE Payload(Piece(file, k \div 2))
  IN [k \in 1..2 * n |-> unit(k)] \o <<Header("OK", TRUE, 0, cmd.rows)>>
Transfer(cmd) ==
  LET file == cmd.file
      n == (Len(file) + BufSize - 1) \div BufSize
      unit(k) == IF k % 2 = 1 THEN Header("CSV", FALSE, Len(Piece(file, (k + 1) \div 2)) + 1, <<>>)
                 ELSE Payload(Piece(file, k \div 2))
  IN [k \in 1..2 * n |-> unit(k)] \o <<Header("CSV", TRUE, 0, cmd.rows)>>

(* split_message: chunks of a text; the one that does not fill is the last *)
\* mutant: the last but one chunk is marked as the last
Split_Early(cmd) ==
  LET n == (cmd.reply + ChunkSize - 1) \div ChunkSize
      first(i) == (i - 1) * ChunkSize
      size(i) == IF first(i) + ChunkSize <= cmd.reply THEN ChunkSize ELSE cmd.reply - first(i)
      unit(k) == LET i == (k + 1) \div 2
                 IN IF k % 2 = 1 THEN Header("OK", first(i) + 2 * ChunkSize > cmd.reply, size(i) + 1, <<>>)
                    ELSE Payload(<<cmd.id, first(i), size(i)>>)
  IN [k \in 1..2 * n |-> unit(k)]
Split(cmd) ==
  LET n == (cmd.reply + ChunkSize - 1) \div ChunkSize
      first(i) == (i - 1) * ChunkSize
      size(i) == IF first(i) + ChunkSize <= cmd.reply THEN ChunkSize ELSE cmd.reply - first(i)
      unit(k) == LET i == (k + 1) \div 2
                 IN IF k % 2 = 1 THEN Header("OK", first(i) + ChunkSize > cmd.reply, size(i) + 1, <<>>)
                    ELSE Payload(<<cmd.id, first(i), size(i)>>)
  IN [k \in 1..2 * n |-> unit(k)]

(* partial_load: the first chunk has the header, which clears the columns; *)
(* values are pushed at commas and line ends                               *)
Value(l) == IF l.negative THEN -l.result ELSE l.result
Pushed(l, next) == [l EXCEPT !.columns[l.col] = Append(@, Value(l)), !.col = next,
                             !.result = 0, !.negative = FALSE]
CharStep(l, c) ==
  CASE c = "-" -> [l EXCEPT !.negative = TRUE]
    [] c = "," -> Pushed(l, l.col + 1)
    [] c = "nl" -> Pushed(l, 1)
    [] c = " " -> l
    [] OTHER -> [l EXCEPT !.result = 10 * @ + Digit[c]]
NewLoad == [begun |-> FALSE, columns |-> [c \in Columns |-> <<>>], col |-> 1, result |-> 0, negative |-> FALSE]
Read(l, chars) == FoldLeft(CharStep, l, chars)
\* mutant: what was read of a number is forgotten at the end of a chunk
PartialLoad_Resets(l, chars) ==
  IF l.begun THEN Read([l EXCEPT !.result = 0, !.negative = FALSE], chars)
  ELSE Read([NewLoad EXCEPT !.begun = TRUE], SubSeq(chars, 3, Len(chars)))
PartialLoad(l, chars) ==
  IF l.begun THEN Read(l, chars)
  ELSE Read([NewLoad EXCEPT !.begun = TRUE], SubSeq(chars, 3, Len(chars)))

(* a file is what the generator writes of its rows; the text of a value,   *)
(* which holds no comma and no line end, reads as the value                *)
Legible(v) ==
  /\ Text[v] \in Seq(STRING)
  /\ \A i \in DOMAIN Text[v] : Text[v][i] \notin {",", "nl"}
  /\ Value(Read(NewLoad, Text[v])) = v
ASSUME LoadsAsWritten ==
  \A s \in Scripts : \A c \in Clients : \A k \in DOMAIN s[c] : s[c][k].kind = "load" /\ Named(s[c][k].file) =>
    /\ s[c][k].file = FileOf(s[c][k].rows)
    /\ \A r \in DOMAIN s[c][k].rows : \A col \in Columns : Legible(s[c][k].rows[r][col])

Init ==
  /\ script \in Scripts
  /\ at = [c \in Clients |-> 1]
  /\ cpc = [c \in Clients |-> "start"]
  /\ outbox = [c \in Clients |-> <<>>]
  /\ printed = [c \in Clients |-> <<>>]
  /\ reset = {}
  /\ deaths = {}
  /\ backlog = <<>>
  /\ toServer = [c \in Clients |-> <<>>]
  /\ toClient = [c \in Clients |-> <<>>]
  /\ spc = "accept"
  /\ serving = {}
  /\ hdr = Header("OK", TRUE, 0, <<>>)
  /\ load = NewLoad
  /\ replies = <<>>
  /\ stop = FALSE
  /\ loaded = <<>>

-----------------------------------------------------------------------------
(* The client. *)
ServerGone == spc \in {"exited", "crashed"}
Command(c) == script[c][at[c]]
NoMore(c) == at[c] > Len(script[c])
Shut(c) == /\ cpc' = [cpc EXCEPT ![c] = "closed"]
           /\ reset' = IF toClient[c] = <<>> THEN reset ELSE reset \cup {c}
AtItsEnd(c) == ~NoMore(c) => Command(c).kind = "badload"
Answered(c, k) == script[c][k].kind \in {"query", "shutdown"}
NextCommand(c) == at' = [at EXCEPT ![c] = @ + 1]

Connect(c) ==
  /\ cpc[c] = "start"
  /\ cpc' = [cpc EXCEPT ![c] = IF ServerGone THEN "closed" ELSE "idle"]
  /\ backlog' = IF ServerGone THEN backlog ELSE Append(backlog, c)
  /\ UNCHANGED <<script, at, outbox, printed, reset, deaths, toServer, toClient, serverVars>>

(* the next line of its input; a load it cannot read ends the client *)
Request(cmd, id) == [id |-> id, kind |-> cmd.kind, reply |-> cmd.reply, fatal |-> cmd.fatal]
Units(cmd, id) ==
  CASE cmd.kind = "load" -> Transfer(cmd)
    [] cmd.kind = "emptyload" -> <<Header("CSV", TRUE, 0, <<>>)>>
    [] OTHER -> <<Header("OK", FALSE, 1, <<>>), Payload(Request(cmd, id))>>
ReadCommand(c) ==
  /\ cpc[c] = "idle" /\ ~NoMore(c) /\ Command(c).kind # "badload"
  /\ outbox' = [outbox EXCEPT ![c] = Units(Command(c), at[c])]
  /\ cpc' = [cpc EXCEPT ![c] = "send"]
  /\ UNCHANGED <<script, at, printed, reset, deaths, backlog, toServer, toClient, serverVars>>

(* one call of send; a load is not answered *)
Send(c) ==
  /\ cpc[c] = "send" /\ ~ServerGone
  /\ toServer' = [toServer EXCEPT ![c] = Append(@, Head(outbox[c]))]
  /\ outbox' = [outbox EXCEPT ![c] = Tail(@)]
  /\ IF Len(outbox[c]) > 1 THEN UNCHANGED <<cpc, at>>
     ELSE IF Answered(c, at[c])
     THEN cpc' = [cpc EXCEPT ![c] = "wait"] /\ UNCHANGED at
     ELSE cpc' = [cpc EXCEPT ![c] = "idle"] /\ NextCommand(c)
  /\ UNCHANGED <<script, printed, reset, deaths, backlog, toClient, serverVars>>

(* the header of a chunk and its payload; the last one ends the wait *)
Receive(c) ==
  /\ cpc[c] = "wait" /\ Len(toClient[c]) >= 2
  /\ printed' = [printed EXCEPT ![c] = Append(@, toClient[c][2].note)]
  /\ toClient' = [toClient EXCEPT ![c] = SubSeq(@, 3, Len(@))]
  /\ IF toClient[c][1].last THEN cpc' = [cpc EXCEPT ![c] = "idle"] /\ NextCommand(c)
     ELSE UNCHANGED <<cpc, at>>
  /\ UNCHANGED <<script, outbox, reset, deaths, backlog, toServer, serverVars>>

(* the end of its input, and a server that is gone *)
Close(c) ==
  /\ \/ cpc[c] = "idle" /\ AtItsEnd(c)
     \/ cpc[c] = "send" /\ ServerGone
     \/ cpc[c] = "wait" /\ ServerGone /\ Len(toClient[c]) < 2
  /\ Shut(c)
  /\ UNCHANGED <<script, at, outbox, printed, deaths, backlog, toServer, toClient, serverVars>>

Die(c) ==
  /\ cpc[c] \in {"idle", "send", "wait"} /\ Cardinality(deaths) < MaxDeaths
  /\ Shut(c)
  /\ deaths' = deaths \cup {c}
  /\ UNCHANGED <<script, at, outbox, printed, backlog, toServer, toClient, serverVars>>

-----------------------------------------------------------------------------
(* The server: main's accept and the loop of handle_client. *)
Input(c) == toServer[c] # <<>>
AtEnd(c) == toServer[c] = <<>> /\ cpc[c] = "closed"
Take(c) == toServer' = [toServer EXCEPT ![c] = Tail(@)]
Crash == spc' = "crashed" /\ UNCHANGED <<serving, hdr, load, replies, stop, loaded>>
Others == UNCHANGED <<clientVars, backlog, toClient>>

(* recv_message is on the stack and holds what was there before *)
Accept ==
  /\ spc = "accept" /\ backlog # <<>>
  /\ spc' = "header"
  /\ serving' = {Head(backlog)}
  /\ backlog' = Tail(backlog)
  /\ \E status \in {"OK", "CSV"} : hdr' = Header(status, TRUE, 0, <<>>)
  /\ UNCHANGED <<load, replies, stop, loaded, clientVars, toServer, toClient>>

(* a transfer that ends before a chunk has no columns to initialise *)
RecvHeader(c) ==
  /\ spc = "header" /\ Input(c)
  /\ Take(c)
  /\ LET unit == Head(toServer[c]) IN
     IF unit.status = "CSV" /\ unit.last THEN Crash
     ELSE /\ hdr' = unit
          /\ spc' = IF unit.status = "CSV" THEN "chunk" ELSE "payload"
          /\ load' = IF unit.status = "CSV" THEN [load EXCEPT !.begun = FALSE] ELSE load
          /\ UNCHANGED <<serving, replies, stop, loaded>>
  /\ Others

(* recv returns 0, or fails after a reset; the status that is looked at is *)
(* the last message's, and after a transfer the loop goes on without input *)
ClientGone(c) ==
  /\ spc = "header" /\ AtEnd(c)
  /\ IF c \in reset \/ hdr.status # "OK" THEN Crash
     ELSE /\ spc' = IF stop THEN "exited" ELSE "accept"
          /\ serving' = {}
          /\ UNCHANGED <<hdr, load, replies, stop, loaded>>
  /\ UNCHANGED toServer /\ Others

(* parse_command, execute_operator; what they do, and which statements an  *)
(* assertion or a crash may end, is in Session                             *)
RecvPayload(c) ==
  /\ spc = "payload" /\ Input(c)
  /\ Take(c)
  /\ LET cmd == Head(toServer[c]).note IN
     \/ cmd.fatal /\ Crash
     \/ /\ replies' = Split(cmd)
        /\ stop' = (stop \/ cmd.kind = "shutdown")
        /\ spc' = "reply"
        /\ UNCHANGED <<serving, hdr, load, loaded>>
  /\ Others

(* a send to a client that is gone ends the server *)
\* mutant: the loop stops one chunk short
SendReply_Short(c) ==
  /\ spc = "reply"
  /\ IF replies # <<>> /\ cpc[c] = "closed" THEN Crash /\ UNCHANGED toClient
     ELSE IF Len(replies) > 2
     THEN /\ toClient' = [toClient EXCEPT ![c] = Append(@, Head(replies))]
          /\ replies' = Tail(replies)
          /\ UNCHANGED <<spc, serving, hdr, load, stop, loaded>>
     ELSE spc' = "header" /\ UNCHANGED <<serving, hdr, load, replies, stop, loaded, toClient>>
  /\ UNCHANGED <<clientVars, backlog, toServer>>
SendReply(c) ==
  /\ spc = "reply"
  /\ IF replies # <<>> /\ cpc[c] = "closed" THEN Crash /\ UNCHANGED toClient
     ELSE IF replies # <<>>
     THEN /\ toClient' = [toClient EXCEPT ![c] = Append(@, Head(replies))]
          /\ replies' = Tail(replies)
          /\ UNCHANGED <<spc, serving, hdr, load, stop, loaded>>
     ELSE spc' = "header" /\ UNCHANGED <<serving, hdr, load, replies, stop, loaded, toClient>>
  /\ UNCHANGED <<clientVars, backlog, toServer>>

(* the loop of a transfer; the first chunk's columns must all be known *)
RecvChunk(c) ==
  /\ spc = "chunk" /\ Input(c)
  /\ Take(c)
  /\ LET chars == Head(toServer[c]).note IN
     IF ~load.begun /\ ~Named(chars) THEN Crash
     ELSE /\ load' = PartialLoad(load, chars)
          /\ spc' = "csvheader"
          /\ UNCHANGED <<serving, hdr, replies, stop, loaded>>
  /\ Others
RecvCsvHeader(c) ==
  /\ spc = "csvheader" /\ Input(c)
  /\ Take(c)
  /\ LET unit == Head(toServer[c]) IN
     IF unit.last /\ unit.status # "CSV" THEN Crash
     ELSE /\ hdr' = unit
          /\ spc' = IF unit.last THEN "header" ELSE "chunk"
          /\ loaded' = IF unit.last THEN unit.note ELSE loaded
          /\ UNCHANGED <<serving, load, replies, stop>>
  /\ Others

(* the client is gone in the middle of a query or a transfer: what is read *)
(* is not initialised, or an assertion fails                               *)
CutOff(c) ==
  /\ spc \in {"payload", "chunk", "csvheader"} /\ AtEnd(c)
  /\ Crash
  /\ UNCHANGED toServer /\ Others

ClientStep(c) == Connect(c) \/ ReadCommand(c) \/ Send(c) \/ Receive(c) \/ Close(c)
ServerStep ==
  \/ Accept
  \/ \E c \in serving : \/ RecvHeader(c) \/ ClientGone(c) \/ RecvPayload(c) \/ SendReply(c)
                        \/ RecvChunk(c) \/ RecvCsvHeader(c) \/ CutOff(c)
Next == (\E c \in Clients : ClientStep(c) \/ Die(c)) \/ ServerStep
Spec == Init /\ [][Next]_vars /\ WF_vars(ServerStep) /\ \A c \in Clients : WF_vars(ClientStep(c))

-----------------------------------------------------------------------------
TypeOK ==
  /\ \A c \in Clients : /\ at[c] \in 1..(Len(script[c]) + 1)
                        /\ cpc[c] \in {"start", "idle", "send", "wait", "closed"}
  /\ spc \in {"accept", "header", "payload", "chunk", "csvheader", "reply", "exited", "crashed"}
  /\ Cardinality(serving) <= 1 /\ reset \subseteq Clients /\ deaths \subseteq Clients
  /\ stop \in BOOLEAN

(* Replies are whole: before its next command a client has printed every   *)
(* byte of each reply, once and in order, however split_message cut it.    *)
(* Prints(c, k, f): the replies before the k-th command's and f bytes of   *)
(* that, and nothing else; a piece is <<command, first byte, bytes>>.      *)
Printed(c, k, b) == \E i \in DOMAIN printed[c] : LET p == printed[c][i]
                                                IN p[1] = k /\ p[2] <= b /\ b < p[2] + p[3]
Precedes(p, q) == p[1] < q[1] \/ (p[1] = q[1] /\ p[2] + p[3] <= q[2])
Prints(c, k, f) ==
  /\ \A i, j \in DOMAIN printed[c] : i < j => Precedes(printed[c][i], printed[c][j])
  /\ \A i \in DOMAIN printed[c] : LET p == printed[c][i]
                                 IN /\ p[3] > 0
                                    /\ \/ p[1] \in 1..(k - 1) /\ Answered(c, p[1]) /\ p[2] + p[3] <= script[c][p[1]].reply
                                       \/ p[1] = k /\ p[2] + p[3] <= f
  /\ \A m \in 1..(k - 1) : Answered(c, m) => \A b \in 0..(script[c][m].reply - 1) : Printed(c, m, b)
  /\ \A b \in 0..(f - 1) : Printed(c, k, b)
RepliesWhole ==
  /\ TypeOK
  /\ \A c \in Clients : cpc[c] \in {"idle", "send"} => Prints(c, at[c], 0)

(* A file is loaded as it is: once a transfer is complete the columns hold *)
(* its rows, wherever the chunks were cut (partial_load keeps its state).  *)
LoadedWhole ==
  /\ load.col \in Columns
  /\ (loaded # <<>> /\ load.begun /\ spc \in {"header", "payload", "reply", "accept"}) =>
        \A col \in Columns : load.columns[col] = [r \in DOMAIN loaded |-> loaded[r][col]]

(* What ends the server: it fails only over the client it serves, which    *)
(* died, waits for a statement that Session lets abort, sent a file that   *)
(* is empty or names an unknown column, or closed with a transfer (or      *)
(* nothing) as the last thing it sent; it exits only when asked to         *)
(* (handle_client and the assertions of partial_load).                     *)
Unloadable(cmd) == cmd.kind = "emptyload" \/ (cmd.kind = "load" /\ ~Named(cmd.file))
Blamed(c) ==
  \/ c \in deaths
  \/ ~NoMore(c) /\ Answered(c, at[c]) /\ Command(c).fatal
  \/ \E k \in 1..at[c] : k <= Len(script[c]) /\ Unloadable(script[c][k])
  \/ cpc[c] = "closed" /\ (at[c] = 1 \/ script[c][at[c] - 1].kind = "load")
EndsAsKnown ==
  /\ spc = "crashed" => \E c \in serving : Blamed(c)
  /\ spc = "exited" => \E c \in Clients : \E k \in 1..at[c] :
       k <= Len(script[c]) /\ script[c][k].kind = "shutdown"

(* Everyone is served: every client comes to its end, unless some reply is *)
(* a multiple of the chunk size, which has no last chunk (split_message).  *)
NoExactReply == \A c \in Clients : \A k \in DOMAIN script[c] :
  Answered(c, k) => script[c][k].reply % ChunkSize # 0
EveryoneServed == \A c \in Clients : NoExactReply ~> (cpc[c] = "closed")
=============================================================================
