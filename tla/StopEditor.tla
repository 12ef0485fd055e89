----------------------------- MODULE StopEditor -----------------------------
(* POST /positions/update-sl: reads the position without a lock, assigns   *)
(* both stop columns and commits.  SQLAlchemy's UPDATE names the columns   *)
(* whose new value differs from the value it read, and no others.          *)
EXTENDS Database

VARIABLE edit   \* [Editors -> where the request is, its payload, the row it read]

EditorState == [pc : {"new", "write", "done"},
                payload : ValidStopRequest \cup {Null},
                row : PositionRow \cup {Null}]
NewEdit == [pc |-> "new", payload |-> Null, row |-> Null]
EditDone == [NewEdit EXCEPT !.pc = "done"]

EditorTypeOK == edit \in [Editors -> EditorState]

EditorInit == edit = [d \in Editors |-> NewEdit]

(* The select wants an open position; without one the answer is 404. *)
ReadPosition(d) ==
    /\ edit[d].pc = "new"
    /\ \E q \in StopRequests :
        LET row == position[<<q.user, q.symbol>>] IN
        edit' = [edit EXCEPT ![d] =
            IF Held(row) > 0 THEN [pc |-> "write", payload |-> q, row |-> row]
                             ELSE EditDone]
    /\ UNCHANGED dbVars

(* The column of an UPDATE: wanted if it differs from what was read. *)
Column(current, read, wanted) == IF wanted = read THEN current ELSE wanted

WriteColumns(q, row) ==
    position' = [position EXCEPT
        ![<<q.user, q.symbol>>].stop_loss = Column(@, row.stop_loss, q.stop_loss),
        ![<<q.user, q.symbol>>].target_price = Column(@, row.target_price, q.target_price)]

(* commit: the UPDATE waits for the row lock, and keeps no other one. *)
WriteStops(d) ==
    /\ edit[d].pc = "write"
    /\ PositionFree(<<edit[d].payload.user, edit[d].payload.symbol>>)
    /\ WriteColumns(edit[d].payload, edit[d].row)
    /\ edit' = [edit EXCEPT ![d] = EditDone]
    /\ UNCHANGED <<wallet, orders, ledger, txn>>

EditFails(d) ==
    /\ DbMayFail
    /\ edit[d].pc = "write"
    /\ edit' = [edit EXCEPT ![d] = EditDone]
    /\ UNCHANGED dbVars

EditorStep(d) == ReadPosition(d) \/ WriteStops(d) \/ EditFails(d)
=============================================================================
