---------------------------- MODULE DurableStore ----------------------------
(***************************************************************************)
(* What the column store promises of its data across restarts: a server    *)
(* starts with exactly what the last completed shutdown saved.  A save is  *)
(* not atomic: while it runs, and when it never ends, nothing is saved.    *)
(***************************************************************************)
CONSTANT Nothing
VARIABLES running, content, saved

StoreInit == running = FALSE /\ content = Nothing

Start == /\ ~running
         /\ running' = TRUE
         /\ content' = saved
         /\ UNCHANGED saved

Change == running /\ running' /\ UNCHANGED saved
BeginSave == /\ running
             /\ saved' = Nothing
             /\ UNCHANGED <<running, content>>
EndSave == /\ running
           /\ saved' = content
           /\ UNCHANGED <<running, content>>

(* the end of the process, asked for or not *)
Stop == /\ running
        /\ running' = FALSE
        /\ content' = Nothing
        /\ UNCHANGED saved

StoreNext == Start \/ Change \/ BeginSave \/ EndSave \/ Stop
StoreSpec == StoreInit /\ [][StoreNext]_<<running, content, saved>>
=============================================================================
