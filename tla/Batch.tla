-------------------------------- MODULE Batch --------------------------------
(***************************************************************************)
(* The batch executor (batch.c): the operators sent between batch_queries  *)
(* and batch_execute form a dependency graph; its links are sorted by      *)
(* depth and executed stage by stage on the thread pool, neighbouring      *)
(* selects on one column as one multiselect.                               *)
(*                                                                         *)
(* The pool is WorkBarrier, which ThreadPool implements; a select of a     *)
(* multiselect is one task, as Multiselect shows its chunks amount to.     *)
(* Values are abstracted to whether they are what executing the operators  *)
(* one by one would give.                                                  *)
(***************************************************************************)
EXTENDS Integers, Sequences, FiniteSets, SequencesExt

CONSTANTS
  Columns,    \* the columns of the database
  Programs,   \* batches: sequences of operators [type, in, out]
  NoVar,      \* select_par == NULL, and the handle of an operator without one
  Estimates   \* what the selectivity estimator may set `inverse` to

OpType == {"select", "reselect", "fetch", "combine", "aggregate"}
MaxLen == 10  \* longest batch
(* An operator reads one or two variables.  A handle is created once:      *)
(* create_variable frees an existing variable, and the graph would keep    *)
(* pointing to it.                                                         *)
ASSUME BatchAssumption ==
  /\ IsFiniteSet(Columns) /\ NoVar \notin Columns /\ Estimates \in SUBSET BOOLEAN
  /\ \A P \in Programs :
       /\ P \in Seq(ToSet(P)) /\ Len(P) \in 1 .. MaxLen
       /\ \A k \in DOMAIN P :
            /\ P[k].type \in OpType
            /\ P[k].in \in Seq(ToSet(P[k].in)) /\ Len(P[k].in) \in 1 .. 2
            /\ NoVar \notin ToSet(P[k].in)
            /\ P[k].out \notin Columns \cup ToSet(P[k].in)
            /\ P[k].type = "select" => P[k].in[1] \in Columns
            /\ P[k].out # NoVar => \A m \in 1 .. k - 1 :
                 P[k].out # P[m].out /\ P[k].out \notin ToSet(P[m].in)

VARIABLES
  prog,        \* the operators the client sends in the batch
  grouped,     \* BREADTH_SELECT_HEURISTIC, else BREADTH_HEURISTIC
  variables,   \* dp->variables
  addr,        \* where malloc put the columns' gen_vars
  i, stage, select_par, start,  \* locals of the execute function
  at,          \* where the server thread is
  outbox,      \* links it is about to add to the pool
  inverse,     \* the selects multiselect() decided to invert
  value,       \* each variable's value
  pending, finished, caller     \* the pool

locals == <<i, stage, select_par, start, at>>
poolVars == <<pending, finished, caller>>
graphVars == <<prog, grouped, variables, addr>>
vars == <<graphVars, locals, outbox, inverse, value, poolVars>>

Pool == INSTANCE WorkBarrier WITH Tasks <- 1 .. MaxLen

-----------------------------------------------------------------------------
Created == {prog[k].out : k \in DOMAIN prog}
Handles == (Created \cup UNION {ToSet(prog[k].in) : k \in DOMAIN prog}) \ {NoVar}

(* add_operator_to_dp.  A gen_var is [name, link, depth], link 0 for a     *)
(* column or for a variable from before the batch.                         *)
Known(vs, h) == \E k \in DOMAIN vs : vs[k].name = h
AddInput(vs, h) == IF Known(vs, h) THEN vs
                   ELSE Append(vs, [name |-> h, link |-> 0, depth |-> 0])
\* A slip: the depth of the first input only.
DepthOf_First(vs, ins) == 1 + vs[CHOOSE k \in DOMAIN vs : vs[k].name = ins[1]].depth
(* calculate_depth *)
DepthOf(vs, ins) ==
  CHOOSE d \in 1 .. MaxLen :
    /\ \E k \in DOMAIN vs : vs[k].name \in ToSet(ins) /\ d = vs[k].depth + 1
    /\ \A k \in DOMAIN vs : vs[k].name \in ToSet(ins) => vs[k].depth < d
AddInputs(vs, ins) ==
  LET first == AddInput(vs, ins[1])
  IN  IF Len(ins) = 1 THEN first ELSE AddInput(first, ins[2])

IsSelect(v) == grouped /\ v.link # 0 /\ prog[v.link].type = "select"
ColOf(v) == prog[v.link].in[1]
(* depth_comparison and depth_select_comparison: x must go after y *)
After(x, y) ==
  \/ x.depth > y.depth
  \/ x.depth = y.depth /\ ~IsSelect(x) /\ IsSelect(y)
  \/ x.depth = y.depth /\ IsSelect(x) /\ IsSelect(y) /\ addr[ColOf(x)] < addr[ColOf(y)]
(* sort_dep_graph: an insertion sort, stable: an element comes behind the  *)
(* ones it must go after, and equals keep their order.                     *)
Place(vs, k) == Cardinality({m \in DOMAIN vs : \/ After(vs[k], vs[m])
                                               \/ m <= k /\ ~After(vs[m], vs[k])})
Sorted(vs) == [n \in DOMAIN vs |-> vs[CHOOSE k \in DOMAIN vs : Place(vs, k) = n]]

Init ==
  /\ prog \in Programs
  /\ addr \in {f \in [Columns -> 1 .. Cardinality(Columns)] : IsInjective(f)}
  /\ variables = <<>>
  /\ i = 1 /\ stage = 0 /\ select_par = NoVar /\ start = 0 /\ at = "collect"
  /\ outbox = <<>>
  /\ inverse = {}
  /\ grouped \in BOOLEAN
  /\ value = [h \in Handles |-> IF h \in Created THEN "unset" ELSE "right"]
  /\ Pool!BarrierInit

-----------------------------------------------------------------------------
(* add_operator_to_dp, once per operator; one without a handle is skipped. *)
AddOperator ==
  LET op == prog[i]
      with == AddInputs(variables, op.in)
  IN  /\ at = "collect" /\ i <= Len(prog)
      /\ i' = i + 1
      /\ variables' = IF op.out = NoVar THEN variables
                      ELSE Append(with, [name |-> op.out, link |-> i,
                                         depth |-> DepthOf(with, op.in)])
      /\ UNCHANGED <<prog, grouped, addr, stage, select_par, start, at, outbox, inverse, value, poolVars>>

(* batch_execute: step 1 sorts. *)
BatchExecute ==
  /\ at = "collect" /\ i = Len(prog) + 1
  /\ variables' = Sorted(variables)
  /\ at' = "loop" /\ i' = 1
  /\ UNCHANGED <<prog, grouped, addr, stage, select_par, start, outbox, inverse, value, poolVars>>

Gv == variables[i]
Size == Len(variables)
Ready == at = "loop" /\ caller = "idle" /\ outbox = <<>>
Links(a, b) == [k \in 1 .. b - a |-> variables[a + k - 1].link]

(* execute_multiselect(start, end), whose assertions demand one column.    *)
Multiselect(from, end) ==
  IF \A k \in from .. end - 1 : IsSelect(variables[k]) /\ ColOf(variables[k]) = ColOf(variables[from])
  THEN /\ outbox' = Links(from, end)
       /\ \E flags \in [from .. end - 1 -> Estimates] :
            inverse' = inverse \cup {variables[k].link : k \in {m \in from .. end - 1 : flags[m]}}
       /\ at' = "loop"
  ELSE at' = "aborted" /\ UNCHANGED <<outbox, inverse>>

\* A slip: the pending selects are not remembered as executed.
EndStage_Keeps ==
  /\ Ready /\ i <= Size /\ stage # Gv.depth /\ select_par # NoVar
  /\ Multiselect(start, i)
  /\ UNCHANGED <<i, stage, select_par, start, graphVars, value, poolVars>>

(* The depth changes: first the selects that are still pending ... *)
EndStage ==
  /\ Ready /\ i <= Size /\ stage # Gv.depth /\ select_par # NoVar
  /\ Multiselect(start, i)
  /\ select_par' = NoVar /\ start' = 0
  /\ UNCHANGED <<i, stage, graphVars, value, poolVars>>

\* A slip: stages are not separated.
StageWait_Skipped ==
  /\ Ready /\ i <= Size /\ stage # Gv.depth /\ select_par = NoVar
  /\ stage' = Gv.depth /\ start' = 0
  /\ UNCHANGED <<i, select_par, at, graphVars, outbox, inverse, value, poolVars>>

(* ... then the wait; `stage` follows it, and so does the final wait. *)
StageWait ==
  /\ Ready /\ i <= Size /\ stage # Gv.depth /\ select_par = NoVar
  /\ Pool!BeginWait
  /\ stage' = Gv.depth /\ start' = 0
  /\ UNCHANGED <<i, select_par, at, graphVars, outbox, inverse, value>>

FinalWait ==
  /\ Ready /\ i = Size + 1
  /\ Pool!BeginWait
  /\ at' = "end"
  /\ UNCHANGED <<i, stage, select_par, start, graphVars, outbox, inverse, value>>

WaitReturns ==
  /\ Pool!EndWait
  /\ at' = IF at = "end" THEN "done" ELSE at
  /\ UNCHANGED <<i, stage, select_par, start, graphVars, outbox, inverse, value>>

Visit == Ready /\ i <= Size /\ stage = Gv.depth
Advance == i' = i + 1 /\ UNCHANGED <<stage, graphVars, value, poolVars>>

(* Depth 0: a column or an older variable. *)
VisitInput ==
  /\ Visit /\ Gv.link = 0
  /\ Advance
  /\ UNCHANGED <<select_par, start, at, outbox, inverse>>

(* The first select of a run of selects, executed at once if nothing follows *)
VisitFirstSelect ==
  /\ Visit /\ IsSelect(Gv) /\ select_par = NoVar
  /\ start' = i
  /\ IF i = Size
     THEN Multiselect(i, i + 1) /\ select_par' = NoVar
     ELSE select_par' = ColOf(Gv) /\ UNCHANGED <<at, outbox, inverse>>
  /\ Advance

(* A further select on the same column *)
VisitSameColumn ==
  /\ Visit /\ IsSelect(Gv) /\ select_par = ColOf(Gv) /\ i # Size
  /\ Advance
  /\ UNCHANGED <<select_par, start, at, outbox, inverse>>

\* A slip: the new run starts one too late.
VisitOtherColumn_Late ==
  /\ Visit /\ IsSelect(Gv) /\ select_par # NoVar
  /\ select_par # ColOf(Gv) \/ i = Size
  /\ Multiselect(start, IF i = Size THEN i + 1 ELSE i)
  /\ select_par' = ColOf(Gv) /\ start' = i + 1
  /\ Advance

(* A select on another column, or the last element of the graph, ends the  *)
(* run; the last element is executed with it.                              *)
VisitOtherColumn ==
  /\ Visit /\ IsSelect(Gv) /\ select_par # NoVar
  /\ select_par # ColOf(Gv) \/ i = Size
  /\ Multiselect(start, IF i = Size THEN i + 1 ELSE i)
  /\ select_par' = ColOf(Gv) /\ start' = i
  /\ Advance

(* Any other link: selects that are pending first, then the link. *)
VisitLink ==
  /\ Visit /\ Gv.link # 0 /\ ~IsSelect(Gv) /\ select_par = NoVar
  /\ outbox' = <<Gv.link>>
  /\ start' = 0
  /\ Advance
  /\ UNCHANGED <<select_par, at, inverse>>
FlushBeforeLink ==
  /\ Visit /\ Gv.link # 0 /\ ~IsSelect(Gv) /\ select_par # NoVar
  /\ Multiselect(start, i)
  /\ select_par' = NoVar /\ start' = 0
  /\ UNCHANGED <<i, stage, graphVars, value, poolVars>>

(* add_task_thread_pool *)
AddTask ==
  /\ at # "aborted" /\ outbox # <<>>
  /\ Pool!Submit(Head(outbox))
  /\ outbox' = Tail(outbox)
  /\ UNCHANGED <<locals, graphVars, inverse, value>>

(* A worker runs execute_full_link or the chunks of a multiselect.  What a *)
(* link reads is taken at face value: reselect and fetch do not look at    *)
(* the `inverse` of the selection.                                         *)
Result(t) ==
  IF \E h \in ToSet(prog[t].in) : value[h] # "right" THEN "wrong"
  ELSE IF t \in inverse THEN "complement" ELSE "right"
Execute(t) ==
  /\ at # "aborted"
  /\ Pool!Perform(t)
  /\ value' = [value EXCEPT ![prog[t].out] = Result(t)]
  /\ UNCHANGED <<locals, graphVars, outbox, inverse>>

ServerStep ==
  \/ AddOperator \/ BatchExecute \/ EndStage \/ StageWait \/ FinalWait \/ WaitReturns
  \/ VisitInput \/ VisitFirstSelect \/ VisitSameColumn \/ VisitOtherColumn
  \/ VisitLink \/ FlushBeforeLink \/ AddTask

Next ==
  \/ ServerStep
  \/ \E t \in 1 .. MaxLen : Execute(t)
  \/ at \in {"done", "aborted"} /\ UNCHANGED vars

Spec == Init /\ [][Next]_vars
FairSpec == Spec /\ WF_vars(ServerStep) /\ \A t \in 1 .. MaxLen : WF_vars(Execute(t))

-----------------------------------------------------------------------------
TypeOK ==
  /\ Size <= 3 * MaxLen
  /\ i \in 1 .. (IF at = "collect" THEN Len(prog) ELSE Size) + 1 /\ stage \in 0 .. MaxLen /\ start \in 0 .. Size
  /\ select_par \in Columns \cup {NoVar}
  /\ at \in {"collect", "loop", "end", "done", "aborted"}
  /\ outbox \in Seq(DOMAIN prog) /\ inverse \in SUBSET DOMAIN prog
  /\ value \in [Handles -> {"unset", "right", "complement", "wrong"}]
  /\ pending \in SUBSET DOMAIN prog /\ finished \in SUBSET DOMAIN prog
  /\ caller \in {"idle", "waiting"}

(* A link reaches the pool only after every link that computes one of its  *)
(* inputs has been executed, so no task reads a variable that another task *)
(* may be writing.                                                         *)
InputsFirst ==
  \A t \in pending, k \in DOMAIN prog : prog[k].out \in ToSet(prog[t].in) => k \in finished

(* No link is handed over twice: a select that ran again would append its  *)
(* positions a second time.                                                *)
SubmittedOnce ==
  /\ ToSet(outbox) \cap (pending \cup finished) = {}
  /\ IsInjective(outbox)

(***************************************************************************)
(* The executor's stages hand every link to the pool once, and never next  *)
(* to a link it depends on.                                                *)
(***************************************************************************)
StagesInOrder == TypeOK /\ InputsFirst /\ SubmittedOnce

(***************************************************************************)
(* "Same as regular breadth heuristic, but now we optimally execute the    *)
(* pattern": when the batch is over, every operator has been executed and  *)
(* has the result it would have on its own; a selection may be kept as its *)
(* complement, marked as such, when nobody was misled by that.             *)
(***************************************************************************)
BatchSame ==
  at = "done" => \A k \in DOMAIN prog :
    prog[k].out # NoVar => value[prog[k].out] \in {"right", "complement"}

(***************************************************************************)
(* A batch comes to its end: no wait is left without its links, no link is *)
(* left behind, and none of the executor's assertions fails.               *)
(***************************************************************************)
BatchEnds == <>(at = "done")
=============================================================================
