-------------------------------- MODULE Sh61 --------------------------------
(***************************************************************************)
(* The shell of sh61.cc.  A line is a sequence of tokens                   *)
(*   [t |-> "word", kind |-> k, name |-> n], k one of "run", "cd",         *)
(*       "assign", "use" (a word with $n in it) and "file"                 *)
(*   [t |-> "redirect", op |-> o]      [t |-> o] for a control operator o  *)
(* which parse_line groups and run executes with the processes and pipes   *)
(* of the system.  Process 1 is the shell; a background list is run by a   *)
(* shell of its own.  A program reads its input, writes so much and exits. *)
(* What words say, and the working directory, are left out.                *)
(***************************************************************************)
EXTENDS Integers, FiniteSets, Sequences, SequencesExt

CONSTANTS Scripts,       \* what the user may type: sequences of lines
          Programs,      \* name |-> [found, reads, writes, codes]
          Files,         \* the files that can be read from the start
          Writable,      \* the files that can be written
          Env,           \* environment variables
          PipeSize,      \* what a pipe holds
          MaxProcs,      \* bound on the processes, by the scripts
          MaxMishaps     \* bound on the SIGINTs and the calls the system refuses

Tokens == [t : {"word"}, kind : {"run", "cd", "assign", "use", "file"}, name : STRING]
          \cup [t : {"redirect"}, op : STRING] \cup [t : {"|", "&&", "||", ";", "&"}]
ASSUME ShellAssumption ==
  /\ PipeSize \in Nat \ {0}
  /\ Scripts \subseteq Seq(Seq(Tokens))
  /\ \A n \in DOMAIN Programs :
       Programs[n] \in [found : BOOLEAN, reads : {"none", "one", "all"}, writes : Nat, codes : SUBSET {"ok", "bad"}]

VARIABLES todo,       \* the lines to come
          sh,         \* the shells: where each is in what it runs
          kid,        \* the commands: what each does
          ends,       \* the ends of pipes each process has open: <<pipe, "r" or "w">>
          buf,        \* what is in each pipe
          defined,    \* variables
          fg,         \* the terminal's foreground process group
          mishaps

shellVars == <<todo, sh, kid, ends, buf, defined, fg, mishaps>>

Shell == 1
NextPid == 1 + Cardinality(DOMAIN ends)
And(p, f, x) == [q \in DOMAIN f \cup {p} |-> IF q = p THEN x ELSE f[q]]

-----------------------------------------------------------------------------
(* parse_line.  Each level takes items while its last one leaves it open:  *)
(* a command until an operator, a pipeline until one that is not |, a      *)
(* conditional until one that is not its first one.                        *)
Evaluated(seq) == SubSeq(seq, 1, Len(seq))  \* the same; TLC keeps the values
Op(list) == list[Len(list)].op
IsOperator(tok) == tok.t \notin {"word", "redirect"}
LeavesOpen(level, group) ==
  CASE level = "command" -> ~IsOperator(group[Len(group)])
    [] level = "pipeline" -> Op(group) = "|"
    [] level = "conditional" -> group[1].op \in {"&&", "||"} /\ Op(group) = group[1].op
Joined(groups, item, level) ==
  IF groups # <<>> /\ LeavesOpen(level, groups[Len(groups)])
  THEN [groups EXCEPT ![Len(groups)] = Append(@, item)]
  ELSE Append(groups, <<item>>)
Grouped(items, level) == FoldLeft(LAMBDA groups, item : Joined(groups, item, level), <<>>, items)

CommandOf(tokens) ==
  LET n == Len(tokens)
      isFile(i) == i > 1 /\ tokens[i - 1].t = "redirect"
      words == {i \in 1..n : tokens[i].t = "word"}
      files(op) == {j \in words : isFile(j) /\ tokens[j - 1].op \in op}
      file(op) == {tokens[i].name : i \in {j \in files(op) : \A h \in files(op) : h <= j}}  \* the last one
      args == [j \in 1..Cardinality({i \in words : ~isFile(i)}) |->
                 tokens[CHOOSE i \in words : ~isFile(i) /\ Cardinality({h \in words : ~isFile(h) /\ h < i}) = j - 1]]
  IN [args |-> Evaluated(args), in |-> file({"<"}), out |-> file({">", ">>"}), err |-> file({"2>"}),
      op |-> IF IsOperator(tokens[n]) THEN tokens[n].t ELSE ";"]
Commands(line) == LET segments == Grouped(line, "command")
                  IN Evaluated([i \in DOMAIN segments |-> CommandOf(segments[i])])
Pipelines(line) == LET ps == Grouped(Commands(line), "pipeline")
                   IN Evaluated([i \in DOMAIN ps |-> [cmds |-> ps[i], op |-> Op(ps[i])]])
ParseLine(line) == Grouped(Pipelines(line), "conditional")
Lines == UNION {{script[i] : i \in DOMAIN script} : script \in Scripts}
Parsed == [line \in Lines |-> ParseLine(line)]
Undefined(line) == \E i \in DOMAIN line : line[i].t = "word" /\ line[i].kind = "use"
                                           /\ line[i].name \notin defined \cup Env

Kind(cmd) == IF cmd.args = <<>> THEN "empty"
             ELSE IF Len(cmd.args) = 1 /\ cmd.args[1].kind = "assign" THEN "assign" ELSE "process"
(* The user types the names of programs; one may be the name of a program  *)
(* that is not found.                                                      *)
ASSUME ProgramsAssumption ==
  \A line \in Lines : \A c \in DOMAIN Parsed[line] : \A i \in DOMAIN Parsed[line][c] :
    \A k \in DOMAIN Parsed[line][c][i].cmds : LET cmd == Parsed[line][c][i].cmds[k] IN
      (Kind(cmd) = "process" /\ cmd.args[1].kind # "cd") => cmd.args[1].name \in DOMAIN Programs

-----------------------------------------------------------------------------
NewShell(code, step, group) ==
  [code |-> code, c |-> 1, i |-> 1, k |-> 1, step |-> step, stat |-> <<>>, ran |-> <<>>,
   last |-> 0, pgid |-> 0, rd |-> 0, wr |-> 0, quiet |-> FALSE, group |-> group]

ShellInit ==
  /\ todo \in Scripts
  /\ sh = [p \in {Shell} |-> NewShell(<<>>, "prompt", Shell)]
  /\ kid = [p \in {} |-> 0]
  /\ ends = [p \in {Shell} |-> {}]
  /\ buf = <<>>
  /\ defined = {}
  /\ fg = Shell
  /\ mishaps = 0

Cond(p) == sh[p].code[sh[p].c]
Pipeline(p) == Cond(p)[sh[p].i].cmds
Background(p) == Op(Cond(p)) = "&"
Go(p, changed) == sh' = [sh EXCEPT ![p] = changed]

(* Process groups.  A group is there as long as a process of it is not     *)
(* reaped.  claim_foreground (the shell started in the foreground): POSIX  *)
(* refuses a group that is not there, Linux takes the number of any        *)
(* process.                                                                *)
IsThere(g) == \/ \E q \in DOMAIN kid : kid[q].group = g /\ kid[q].pc # "gone"
              \/ \E q \in DOMAIN sh : sh[q].group = g /\ sh[q].step # "gone"
ClaimForeground(g) == fg' \in IF IsThere(g)' THEN {g} ELSE {fg, g}
Mishap == mishaps < MaxMishaps /\ mishaps' = mishaps + 1

(* main: the next line; a variable nobody defined ends the shell (at of an *)
(* unordered_map throws).  A shell that is not in the foreground group     *)
(* cannot read its terminal: SIGTTIN stops it, or the read fails and it    *)
(* ends; it goes on if its lines come from a file.                         *)
ReadLine ==
  /\ sh[Shell].step = "prompt"
  /\ \/ IF todo = <<>> \/ Undefined(todo[1])
        THEN Go(Shell, [sh[Shell] EXCEPT !.step = "ended"]) /\ UNCHANGED todo
        ELSE /\ Go(Shell, NewShell(Parsed[todo[1]], "list", sh[Shell].group))
             /\ todo' = Tail(todo)
     \/ /\ sh[Shell].group # fg
        /\ \E s \in {"stopped", "ended"} : Go(Shell, [sh[Shell] EXCEPT !.step = s])
        /\ UNCHANGED todo
  /\ UNCHANGED <<kid, ends, buf, defined, fg, mishaps>>

(* command_list_sequence::run, and the end of run_list, which reaps until  *)
(* no child is dead.  A background list whose fork is refused is not run.  *)
\* mutant: run_list reaps one child
Dead_One == LET dead == {q \in DOMAIN kid : kid[q].parent = Shell /\ kid[q].pc = "zombie"}
                        \cup {q \in DOMAIN sh \ {Shell} : sh[q].step = "ended"}
            IN {q \in dead : \A r \in dead : q <= r}
Dead == {q \in DOMAIN kid : kid[q].parent = Shell /\ kid[q].pc = "zombie"}
        \cup {q \in DOMAIN sh \ {Shell} : sh[q].step = "ended"}
RunList ==
  /\ sh[Shell].step = "list" /\ sh[Shell].c > Len(sh[Shell].code)
  /\ LET dead == Dead IN
     /\ sh' = [q \in DOMAIN sh |-> IF q = Shell THEN [sh[q] EXCEPT !.step = "prompt"]
                                   ELSE IF q \in dead THEN [sh[q] EXCEPT !.step = "gone"] ELSE sh[q]]
     /\ kid' = [q \in DOMAIN kid |-> IF q \in dead THEN [kid[q] EXCEPT !.pc = "gone"] ELSE kid[q]]
  /\ ClaimForeground(Shell)
  /\ UNCHANGED <<todo, ends, buf, defined, mishaps>>
Sequence(p) ==
  /\ sh[p].step = "list"
  /\ IF sh[p].c > Len(sh[p].code)
     THEN /\ p # Shell
          /\ Go(p, [sh[p] EXCEPT !.step = "ended"])
          /\ ends' = [ends EXCEPT ![p] = {}]
          /\ UNCHANGED mishaps
     ELSE IF p = Shell /\ Background(p)
     THEN \/ /\ NextPid <= MaxProcs
             /\ sh' = And(NextPid, [sh EXCEPT ![p].c = @ + 1], NewShell(<<Cond(p)>>, "pick", sh[p].group))
             /\ ends' = And(NextPid, ends, ends[p])
             /\ UNCHANGED mishaps
          \/ Go(p, [sh[p] EXCEPT !.c = @ + 1]) /\ Mishap /\ UNCHANGED ends
     ELSE /\ Go(p, [sh[p] EXCEPT !.step = "pick", !.i = 1, !.stat = <<>>, !.ran = <<>>])
          /\ UNCHANGED <<ends, mishaps>>
  /\ UNCHANGED <<todo, kid, buf, defined, fg>>

(* command_list_conditional::run: a pipeline that is not run takes over    *)
(* the status before it; one without a process has the status it was made  *)
(* with, 0.                                                                *)
Skips(p, s) == Cond(p)[1].op = (IF s = "ok" THEN "||" ELSE "&&")
\* mutant: a pipeline that is not run counts as succeeding
Conditional_Forgets(p) ==
  LET r == sh[p] IN
  /\ r.step = "pick"
  /\ IF r.i > Len(Cond(p)) THEN Go(p, [r EXCEPT !.c = @ + 1, !.step = "list"])
     ELSE IF r.i > 1 /\ Skips(p, r.stat[r.i - 1])
     THEN Go(p, [r EXCEPT !.stat = Append(@, "ok"), !.ran = Append(@, FALSE), !.i = @ + 1])
     ELSE Go(p, [r EXCEPT !.ran = Append(@, TRUE), !.step = "fork", !.k = 1, !.last = 0, !.pgid = 0,
                          !.rd = 0, !.wr = 0, !.quiet = Background(p)])
  /\ UNCHANGED <<todo, kid, ends, buf, defined, fg, mishaps>>
Conditional(p) ==
  LET r == sh[p] IN
  /\ r.step = "pick"
  /\ IF r.i > Len(Cond(p)) THEN Go(p, [r EXCEPT !.c = @ + 1, !.step = "list"])
     ELSE IF r.i > 1 /\ Skips(p, r.stat[r.i - 1])
     THEN Go(p, [r EXCEPT !.stat = Append(@, r.stat[r.i - 1]), !.ran = Append(@, FALSE), !.i = @ + 1])
     ELSE Go(p, [r EXCEPT !.ran = Append(@, TRUE), !.step = "fork", !.k = 1, !.last = 0, !.pgid = 0,
                          !.rd = 0, !.wr = 0, !.quiet = Background(p)])
  /\ UNCHANGED <<todo, kid, ends, buf, defined, fg, mishaps>>

(* command_list_pipeline::run, up to the end of a command's run: a pipe to *)
(* the next command (a shell that gets none fails its assertion), and a    *)
(* process unless it is empty, an assignment, or the fork is refused.      *)
Kid(p, cmd, in, out, chdir) ==
  [parent |-> p, cmd |-> cmd, pc |-> "setup", in |-> in, out |-> out, own |-> out, left |-> 0, code |-> "ok",
   group |-> sh[p].group, cd |-> chdir, execed |-> FALSE]
RunCommand(p) ==
  LET r == sh[p]
      cmd == Pipeline(p)[r.k]
      out == IF r.k < Len(Pipeline(p)) THEN Len(buf) + 1 ELSE 0
      mine == ends[p] \cup (IF out = 0 THEN {} ELSE {<<out, "r">>, <<out, "w">>}) IN
  /\ r.step = "fork"
  /\ buf' = IF out = 0 THEN buf ELSE Append(buf, 0)
  /\ IF Kind(cmd) = "process"
     THEN /\ NextPid <= MaxProcs
          /\ \E chdir \in IF cmd.args[1].kind = "cd" THEN {"ok", "bad"} ELSE {"none"} :
               kid' = And(NextPid, kid, Kid(p, cmd, r.rd, out, chdir))
          /\ ends' = And(NextPid, [ends EXCEPT ![p] = mine], mine)
          /\ Go(p, [r EXCEPT !.last = NextPid, !.wr = out, !.step = "close"])
          /\ UNCHANGED defined
     ELSE /\ ends' = [ends EXCEPT ![p] = mine]
          /\ Go(p, [r EXCEPT !.last = 0, !.wr = out, !.step = "close"])
          /\ defined' = IF Kind(cmd) = "assign" /\ p = Shell THEN defined \cup {cmd.args[1].name} ELSE defined
          /\ UNCHANGED kid
  /\ UNCHANGED <<todo, fg, mishaps>>
NoFork(p) ==
  LET r == sh[p]
      out == IF r.k < Len(Pipeline(p)) THEN Len(buf) + 1 ELSE 0 IN
  /\ r.step = "fork" /\ Kind(Pipeline(p)[r.k]) = "process"
  /\ buf' = IF out = 0 THEN buf ELSE Append(buf, 0)
  /\ ends' = [ends EXCEPT ![p] = @ \cup (IF out = 0 THEN {} ELSE {<<out, "r">>, <<out, "w">>})]
  /\ Go(p, [r EXCEPT !.last = 0, !.wr = out, !.step = "close"])
  /\ Mishap
  /\ UNCHANGED <<todo, kid, defined, fg>>
NoPipe(p) ==
  /\ sh[p].step = "fork" /\ sh[p].k < Len(Pipeline(p))
  /\ Go(p, [sh[p] EXCEPT !.step = "ended"])
  /\ ends' = [ends EXCEPT ![p] = {}]
  /\ Mishap
  /\ UNCHANGED <<todo, kid, buf, defined, fg>>

(* the rest of the loop: the process group, and the ends the shell does    *)
(* not need any more.  setpgid fails for a child that has called execvp    *)
(* (EACCES) and for a group that is not there (EPERM); nobody looks.  An   *)
(* assignment returns 0, which setpgid takes for the shell itself: it      *)
(* moves, unless it leads its session.                                     *)
Moves(p, g) == /\ g # 0 /\ sh[p].last # 0
               /\ ~kid[sh[p].last].execed
               /\ g = sh[p].last \/ IsThere(g)
MayMove(p, g) == g # 0 /\ sh[p].k > 1 /\ Kind(Pipeline(p)[sh[p].k]) = "assign" /\ IsThere(g)
CloseEnds(p) ==
  LET r == sh[p]
      pgid == IF r.k = 1 /\ ~r.quiet THEN r.last ELSE r.pgid IN
  /\ r.step = "close"
  /\ \E moves \in {FALSE, MayMove(p, pgid)} :
       Go(p, [r EXCEPT !.pgid = pgid, !.k = @ + 1, !.rd = r.wr, !.group = IF moves THEN pgid ELSE @,
                       !.step = IF r.k < Len(Pipeline(p)) THEN "fork" ELSE "claim"])
  /\ kid' = IF Moves(p, pgid) THEN [kid EXCEPT ![r.last].group = pgid] ELSE kid
  /\ ends' = [ends EXCEPT ![p] = @ \ {<<r.rd, "r">>, <<r.wr, "w">>}]
  /\ UNCHANGED <<todo, buf, defined, fg, mishaps>>

(* after the loop: everything is closed, the foreground is the pipeline's  *)
Claim(p) ==
  /\ sh[p].step = "claim"
  /\ ends' = [ends EXCEPT ![p] = {}]
  /\ Go(p, [sh[p] EXCEPT !.step = "wait"])
  /\ UNCHANGED <<todo, kid, buf, defined, mishaps>>
  /\ IF sh[p].pgid # 0 THEN ClaimForeground(sh[p].pgid) ELSE UNCHANGED fg

(* the last command is waited for, no other; then the terminal goes to the *)
(* group the shell had when it started                                     *)
\* mutant: every command of the shell is waited for
Wait_All(p) ==
  LET r == sh[p] IN
  /\ r.step = "wait" /\ \A q \in DOMAIN kid : kid[q].parent = p => kid[q].pc \in {"zombie", "gone"}
  /\ Go(p, [r EXCEPT !.stat = Append(@, IF r.last = 0 THEN "ok" ELSE kid[r.last].code),
                     !.i = @ + 1, !.step = "pick"])
  /\ kid' = IF r.last = 0 THEN kid ELSE [kid EXCEPT ![r.last].pc = "gone"]
  /\ IF r.quiet THEN UNCHANGED fg ELSE ClaimForeground(Shell)
  /\ UNCHANGED <<todo, ends, buf, defined, mishaps>>
Wait(p) ==
  LET r == sh[p] IN
  /\ r.step = "wait" /\ (r.last # 0 => kid[r.last].pc = "zombie")
  /\ Go(p, [r EXCEPT !.stat = Append(@, IF r.last = 0 THEN "ok" ELSE kid[r.last].code),
                     !.i = @ + 1, !.step = "pick"])
  /\ kid' = IF r.last = 0 THEN kid ELSE [kid EXCEPT ![r.last].pc = "gone"]
  /\ IF r.quiet THEN UNCHANGED fg ELSE ClaimForeground(Shell)
  /\ UNCHANGED <<todo, ends, buf, defined, mishaps>>

-----------------------------------------------------------------------------
(* The commands.  A child has every end its shell had; redirections        *)
(* replace its input and output, and one that cannot be opened ends it (a  *)
(* file that can be written may have been made by then).  When execvp      *)
(* fails the child exits with the status it began with, 0.                 *)
Alive(q) == q \in DOMAIN kid /\ kid[q].pc \notin {"zombie", "gone"}
Ended(q, code) == /\ kid' = [kid EXCEPT ![q].pc = "zombie", ![q].code = code]
                  /\ ends' = [ends EXCEPT ![q] = {}]
Program(q) == Programs[kid[q].cmd.args[1].name]
Opens(cmd) == cmd.in \subseteq Files \cup Writable /\ cmd.out \cup cmd.err \subseteq Writable
Fails(cmd) == ~(cmd.in \subseteq Files /\ cmd.out \cup cmd.err \subseteq Writable)
Setup(q) ==
  LET cmd == kid[q].cmd
      dropped == (IF cmd.in # {} THEN {<<kid[q].in, "r">>} ELSE {})
                 \cup (IF cmd.out # {} THEN {<<kid[q].out, "w">>} ELSE {}) IN
  /\ kid[q].pc = "setup"
  /\ \/ Fails(cmd) /\ Ended(q, "bad")
     \/ /\ Opens(cmd)
        /\ IF kid[q].cd # "none" THEN Ended(q, kid[q].cd)
           ELSE IF ~Program(q).found THEN Ended(q, "ok")
           ELSE /\ kid' = [kid EXCEPT ![q] = [kid[q] EXCEPT
                                 !.pc = IF Program(q).reads = "none" THEN "write" ELSE "read",
                                 !.left = Program(q).writes,
                                 !.in = IF cmd.in # {} THEN 0 ELSE @, !.out = IF cmd.out # {} THEN 0 ELSE @, !.execed = TRUE]]
                /\ ends' = [ends EXCEPT ![q] = @ \ dropped]
  /\ UNCHANGED buf
HasEnd(e) == \E p \in DOMAIN ends : e \in ends[p]
(* What is no pipe has input, but SIGTTIN stops a program that reads the   *)
(* terminal from a group that is not in the foreground.                    *)
ReadInput(q) ==
  LET in == kid[q].in IN
  /\ kid[q].pc = "read"
  /\ IF in = 0
     THEN /\ \E pc \in {"write"} \cup (IF kid[q].cmd.in = {} /\ kid[q].group # fg THEN {"stopped"} ELSE {}) :
               kid' = [kid EXCEPT ![q].pc = pc]
          /\ UNCHANGED buf
     ELSE IF buf[in] > 0
     THEN /\ buf' = [buf EXCEPT ![in] = @ - 1]
          /\ kid' = [kid EXCEPT ![q].pc = IF Program(q).reads = "one" THEN "write" ELSE @]
     ELSE /\ ~HasEnd(<<in, "w">>)
          /\ kid' = [kid EXCEPT ![q].pc = "write"]
          /\ UNCHANGED buf
  /\ UNCHANGED ends
(* a pipe nobody reads from would end the writer, but it has its own pipe's *)
(* other end open                                                           *)
PipeFull(q) == kid[q].out # 0 /\ buf[kid[q].out] = PipeSize
WriteOutput(q) ==
  LET out == kid[q].out IN
  /\ kid[q].pc = "write" /\ kid[q].left > 0
  /\ IF out # 0 /\ ~HasEnd(<<out, "r">>) THEN Ended(q, "bad") /\ UNCHANGED buf
     ELSE /\ ~PipeFull(q)
          /\ kid' = [kid EXCEPT ![q].left = @ - 1]
          /\ buf' = IF out = 0 THEN buf ELSE [buf EXCEPT ![out] = @ + 1]
          /\ UNCHANGED ends
ExitProgram(q) ==
  /\ kid[q].pc = "write" /\ kid[q].left = 0
  /\ \E code \in Program(q).codes : Ended(q, code)
  /\ UNCHANGED buf

(* SIGINT goes to the foreground group: a command dies, and signal_handler *)
(* exits                                                                   *)
Interrupt ==
  /\ Mishap /\ sh[Shell].step # "ended"
  /\ LET hit(q) == \/ Alive(q) /\ kid[q].group = fg /\ kid[q].pc # "stopped"
                   \/ q \in DOMAIN sh /\ sh[q].group = fg /\ sh[q].step \notin {"ended", "gone", "stopped"} IN
     /\ sh' = [q \in DOMAIN sh |-> IF hit(q) THEN [sh[q] EXCEPT !.step = "ended"] ELSE sh[q]]
     /\ kid' = [q \in DOMAIN kid |-> IF hit(q) THEN [kid[q] EXCEPT !.pc = "zombie", !.code = "bad"] ELSE kid[q]]
     /\ ends' = [q \in DOMAIN ends |-> IF hit(q) THEN {} ELSE ends[q]]
  /\ UNCHANGED <<todo, buf, defined, fg>>

ShellStep(p) == \/ Sequence(p) \/ Conditional(p) \/ RunCommand(p) \/ NoFork(p) \/ NoPipe(p)
                \/ CloseEnds(p) \/ Claim(p) \/ Wait(p)
KidStep(q) == /\ Setup(q) \/ ReadInput(q) \/ WriteOutput(q) \/ ExitProgram(q)
              /\ UNCHANGED <<todo, sh, defined, fg, mishaps>>
Step(p) == \/ p = Shell /\ (ReadLine \/ RunList)
           \/ p \in DOMAIN sh /\ ShellStep(p)
           \/ p \in DOMAIN kid /\ KidStep(p)
ShellNext == (\E p \in DOMAIN ends : Step(p)) \/ Interrupt
ShellSpec == ShellInit /\ [][ShellNext]_shellVars /\ \A p \in 1..MaxProcs : WF_shellVars(p \in DOMAIN ends /\ Step(p))

-----------------------------------------------------------------------------
ShellOK ==
  /\ DOMAIN ends = 1..Cardinality(DOMAIN ends) /\ DOMAIN sh \cap DOMAIN kid = {}
  /\ \A p \in DOMAIN sh : sh[p].step \in {"prompt", "list", "pick", "fork", "close", "claim", "wait",
                                         "stopped", "ended", "gone"}
  /\ \A q \in DOMAIN kid : /\ kid[q].pc \in {"setup", "read", "write", "stopped", "zombie", "gone"}
                           /\ kid[q].left \in Nat /\ kid[q].code \in {"ok", "bad"}
  /\ \A i \in DOMAIN buf : buf[i] \in 0..PipeSize

(* Lists run as they read: in a list of one kind of operator a pipeline    *)
(* runs if and only if those before it all succeeded (&&) or all failed    *)
(* (||), and it starts when they have ended: no last command of an earlier *)
(* pipeline of the list is still there (command_list_conditional::run).    *)
ListsRunAsTheyRead ==
  /\ ShellOK
  /\ \A p \in DOMAIN sh : LET r == sh[p] IN
       r.step \in {"pick", "fork", "close", "claim", "wait"} =>
         \A i \in DOMAIN r.ran :
           LET before == {j \in 1..(i - 1) : r.ran[j]}
               want == IF Cond(p)[1].op = "&&" THEN "ok" ELSE "bad" IN
           /\ \A j \in before : j < i => j \in DOMAIN r.stat
           /\ r.ran[i] => \A j \in before : r.stat[j] = want
           /\ ~r.ran[i] => \E j \in before : r.stat[j] # want

(* A prompt is clean.  When run_list returns no child of the shell is dead *)
(* and not reaped, be it a command or a background list (check.pl: ZOMBIE1 *)
(* and ZOMBIE2).  At the prompt, and between pipelines, no last command of *)
(* a pipeline of the shell itself is left: what is alive is in the         *)
(* background or writes to a pipe.  The shell has no pipe open and, unless *)
(* it moved into a pipeline's group, the terminal.  No process but the     *)
(* commands of a pipeline has an end of its pipes while it waits.          *)
NothingDead == \/ sh'[Shell].step # "prompt" \/ sh[Shell].step = "prompt"
               \/ /\ \A q \in DOMAIN kid' : kid'[q].parent = Shell => kid'[q].pc # "zombie"
                  /\ \A q \in DOMAIN sh' : sh'[q].step # "ended"
PromptOK ==
  /\ sh[Shell].step = "prompt" => ends[Shell] = {} /\ (sh[Shell].group = Shell => fg = Shell)
  /\ \A p \in DOMAIN sh : sh[p].step \in {"prompt", "pick", "list"} =>
       /\ ends[p] = {}
       /\ \A q \in DOMAIN kid : kid[q].parent = p /\ kid[q].own = 0 => kid[q].pc = "gone"
  /\ \A p \in DOMAIN sh : sh[p].step = "wait" => ends[p] = {}
  /\ \A q \in DOMAIN kid : \A e \in ends[q] :
       e \in {<<kid[q].in, "r">>, <<kid[q].out, "w">>, <<kid[q].own, "r">>}
PromptIsClean == []PromptOK /\ [][NothingDead]_shellVars

(* Lines end: the shell always comes back to its prompt or ends, and every *)
(* command ends or is left writing to a pipe whose reader reads no more;   *)
(* but SIGTTIN may stop the shell, or a command and what reads from it     *)
(* (command_list_pipeline::run, setup_pipes).                              *)
Abandoned(q) == /\ kid[q].pc = "write" /\ PipeFull(q)
                /\ \A r \in DOMAIN kid : r # q /\ kid[r].in = kid[q].out => kid[r].pc # "read"
HeldUp(p, first, last) == \E q \in DOMAIN kid \cap first..last : kid[q].parent = p /\ kid[q].pc = "stopped"
LinesEnd ==
  /\ []<>(\/ sh[Shell].step \in {"prompt", "ended", "stopped"}
          \/ HeldUp(Shell, sh[Shell].pgid, sh[Shell].last))
  /\ \A q \in 2..MaxProcs :
       Alive(q) ~> (~Alive(q) \/ Abandoned(q) \/ HeldUp(kid[q].parent, 1, q))
=============================================================================
