------------------------- MODULE DeliveryReconciler -------------------------
(***************************************************************************)
(* DeliveryReconciler (app/services/delivery_reconciler.py): sends the     *)
(* reports of jobs that stayed DELIVERING for longer than the grace time.  *)
(***************************************************************************)
EXTENDS SpringClient

(* Mutants of ReconcilerNext: the place in the loop body is kept; the loop *)
(* ends instead of sleeping.                                               *)
ReconcilerNext_KeepsPlace(j) ==
    reconciler' = [reconciler EXCEPT !.todo = reconciler.todo \ {j}, !.cur = NoJob]

ReconcilerNext_LoopEnds(j) ==
    reconciler' = [pc |-> "post", todo |-> reconciler.todo \ {j}, cur |-> NoJob]

(* On to the next row of the pass. *)
ReconcilerNext(j) ==
    LET left == reconciler.todo \ {j} IN
    reconciler' = IF left = {} THEN ReconcilerIdle
                  ELSE [pc |-> "post", todo |-> left, cur |-> NoJob]

ReconcilerGoto(pc) == reconciler' = [reconciler EXCEPT !.pc = pc]

(* One SELECT for the pass; rows without a result are skipped. *)
ReconcilerSelect ==
    LET rows == {j \in due \cap analysed : status[j] = "DELIVERING"} IN
    /\ phase = "serving"
    /\ reconciler.pc = "sleep"
    /\ rows # {}
    /\ reconciler' = [reconciler EXCEPT !.pc = "post", !.todo = rows]
    /\ UNCHANGED <<rowVars, file, spring, phase, queue, ingest, workerVars, reaper, cleaner,
                   starts, faults>>

(* The bundle is restored without its signals when the file is gone; any   *)
(* exception but DeliveryPermanentError leaves the row to the next pass.   *)
ReconcilerPost ==
    /\ reconciler.pc = "post"
    /\ \E j \in reconciler.todo : \E a \in Meets(j, file[j] # "none") :
          /\ Store(j, "report", a)
          /\ CASE Verdict(j, a) = "ok" ->
                    reconciler' = [reconciler EXCEPT !.pc = "readDone", !.cur = j]
               [] Verdict(j, a) = "permanent" ->
                    reconciler' = [reconciler EXCEPT !.pc = "readFailed", !.cur = j]
               [] OTHER -> ReconcilerNext(j)
    /\ UNCHANGED <<rowVars, file, phase, queue, ingest, workerVars, reaper, cleaner,
                   starts, faults>>

(* _mark_done, _mark_failed: unless still DELIVERING nothing is marked and *)
(* the file is left alone.  An exception ends the pass.                    *)
ReconcilerMarkRead ==
    /\ reconciler.pc \in {"readDone", "readFailed"}
    /\ \/ /\ IF status[reconciler.cur] # "DELIVERING" THEN ReconcilerNext(reconciler.cur)
             ELSE ReconcilerGoto(IF reconciler.pc = "readDone" THEN "writeDone"
                                 ELSE "writeFailed")
          /\ UNCHANGED faults
       \/ Fault /\ reconciler' = ReconcilerIdle
    /\ UNCHANGED <<rowVars, file, spring, phase, queue, ingest, workerVars, reaper, cleaner, starts>>

ReconcilerMarkWrite ==
    LET j   == reconciler.cur
        new == IF reconciler.pc = "writeDone" THEN "DONE" ELSE "FAILED"
    IN
    /\ reconciler.pc \in {"writeDone", "writeFailed"}
    /\ \/ /\ status[j] # "absent"
          /\ SetStatus(j, new)
          /\ ReconcilerGoto("discard")
          /\ UNCHANGED faults
       \/ /\ status[j] = "absent"
          /\ reconciler' = ReconcilerIdle
          /\ UNCHANGED <<status, due, faults>>
       \/ /\ Fault
          /\ reconciler' = ReconcilerIdle
          /\ (status[j] # "absent" /\ SetStatus(j, new)) \/ UNCHANGED <<status, due>>
    /\ UNCHANGED <<analysed, requeue, file, spring, phase, queue, ingest, workerVars,
                   reaper, cleaner, starts>>

ReconcilerDiscard ==
    /\ reconciler.pc = "discard"
    /\ DiscardFile(reconciler.cur)
    /\ ReconcilerNext(reconciler.cur)
    /\ UNCHANGED <<rowVars, spring, phase, queue, ingest, workerVars, reaper, cleaner, starts>>

Reconciler ==
    \/ ReconcilerSelect \/ ReconcilerPost \/ ReconcilerMarkRead
    \/ ReconcilerMarkWrite \/ ReconcilerDiscard

=============================================================================
