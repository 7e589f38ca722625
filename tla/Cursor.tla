-------------------------------- MODULE Cursor --------------------------------
(***************************************************************************)
(* The life of one Statement: prepare, execute, the cursor, the RowSets    *)
(* taken from it, free and the destructor.  A row is [exec, n], the n-th   *)
(* of an execution.                                                        *)
(*                                                                         *)
(* The server is external: it decides how many rows there are, may refuse  *)
(* every request; a refused fetch does not move the cursor.                *)
(* Bounds: MaxRows rows in a result, Executions executions of a Statement. *)
(***************************************************************************)
EXTENDS Integers, Sequences

CONSTANTS MaxRows, Executions, RowSetSizes

ASSUME CursorAssumption == MaxRows \in Nat /\ Executions \in Nat /\ RowSetSizes \subseteq Nat

VARIABLES
    stmt,       \* [exists, handle, cursor, kind, scrollable, row]
    server,     \* the server's cursor: [open, total, position]
    exec,       \* executions so far
    reply,      \* what the last call answered
    seen,       \* the rows handed out since the cursor was opened or positioned
    lost        \* a RowSet has thrown: the rows it had fetched are gone

cursorVars == <<stmt, server, exec, reply, seen, lost>>

NullRow == [exec |-> 0, n |-> 0]
Kinds == {"SELECT", "EXEC_PROCEDURE", "EXEC_PROCEDURE without output", "INSERT"}
NoStatement == [exists |-> FALSE, handle |-> FALSE, cursor |-> FALSE, kind |-> "INSERT", scrollable |-> FALSE, row |-> NullRow]
NoCursor == [open |-> FALSE, total |-> 0, position |-> 0]
Failed == [op |-> "failed"]
stmtValid == stmt.exists /\ stmt.handle
Row(n) == [exec |-> exec, n |-> n]

CursorInit ==
    /\ stmt = NoStatement /\ server = NoCursor
    /\ exec = 0 /\ reply = Failed /\ seen = <<>> /\ lost = FALSE

(* The constructor.  COMMIT, ROLLBACK, SET TRANSACTION and the segment     *)
(* statements are refused: the handle is given back and no object is left. *)
PrepareStatement ==
    /\ ~stmt.exists
    /\ \E kind \in Kinds, scrollable \in BOOLEAN :
          stmt' = [NoStatement EXCEPT !.exists = TRUE, !.handle = TRUE, !.kind = kind, !.scrollable = scrollable]
    /\ exec' = 0 /\ seen' = <<>> /\ lost' = FALSE /\ reply' = Failed
    /\ UNCHANGED server

(* The server refuses, and the method throws before it assigns anything. *)
Throws == reply' = Failed /\ UNCHANGED <<stmt, server, exec, seen, lost>>

(* The state of a statement and its cursor, to be computed step by step. *)
Current == [stmt |-> stmt, server |-> server, seen |-> seen, lost |-> lost, reply |-> reply]
Become(c) == stmt' = c.stmt /\ server' = c.server /\ seen' = c.seen /\ lost' = c.lost /\ reply' = c.reply

(* Mistaken: the row of the execution before is still there. *)
ClearedKeepsRow == [stmt EXCEPT !.cursor = FALSE]

(* The previous result set is closed and every column made null. *)
Cleared == [stmt EXCEPT !.cursor = FALSE, !.row = NullRow]

(* What comes of execution e: the request is refused; the cursor is opened *)
(* and the first row fetched, or the fetch refused; or, without a cursor,  *)
(* the row of a procedure is there, if it returns one.                     *)
Outcome(row, cursor, s, answer) ==
    [stmt |-> [Cleared EXCEPT !.cursor = cursor, !.row = IF row = NullRow THEN @ ELSE row], server |-> s,
     seen |-> IF row = NullRow THEN <<>> ELSE <<row>>, lost |-> FALSE, reply |-> answer]
Outcomes(e) ==
    LET first == [exec |-> e, n |-> 1]
        hasRow(b) == [op |-> "row", ok |-> b]
        opened(total, position) == [open |-> TRUE, total |-> total, position |-> position]
    IN  {Outcome(NullRow, FALSE, NoCursor, Failed)} \union
        CASE stmt.kind = "SELECT" ->
                {Outcome(NullRow, TRUE, opened(total, 0), Failed) : total \in 0 .. MaxRows}
                \union {Outcome(first, TRUE, opened(total, 1), hasRow(TRUE)) : total \in 1 .. MaxRows}
                \union {Outcome(NullRow, TRUE, opened(0, 0), hasRow(FALSE))}
          [] stmt.kind = "EXEC_PROCEDURE" -> {Outcome(first, FALSE, NoCursor, hasRow(TRUE))}
          [] OTHER -> {Outcome(NullRow, FALSE, NoCursor, hasRow(TRUE))}

(* execute(), from the moment the previous result set is closed. *)
Execute ==
    /\ stmtValid /\ exec < Executions
    /\ exec' = exec + 1
    /\ \E c \in Outcomes(exec + 1) : Become(c)

(* execute() whose closing of the previous result set is refused. *)
ExecuteNotClosed == stmtValid /\ stmt.cursor /\ Throws

(* fetchNext(): without a result set, or at its end, FALSE and the row as  *)
(* it was; the server does not fill the buffer.                            *)
fetchNext ==
    /\ stmtValid
    /\ LET next == server.position + 1
       IN  IF stmt.cursor /\ server.open /\ next <= server.total
           THEN /\ server' = [server EXCEPT !.position = next]
                /\ stmt' = [stmt EXCEPT !.row = Row(next)]
                /\ seen' = Append(seen, Row(next))
                /\ reply' = [op |-> "row", ok |-> TRUE]
                /\ UNCHANGED <<exec, lost>>
           ELSE /\ reply' = IF stmt.cursor /\ ~server.open THEN Failed ELSE [op |-> "row", ok |-> FALSE]
                /\ UNCHANGED <<stmt, server, exec, seen, lost>>
FetchRefused == stmtValid /\ stmt.cursor /\ Throws

(* fetchPrior, fetchFirst, fetchLast, fetchAbsolute, fetchRelative: to a   *)
(* row, or past either end; a cursor that is not scrollable refuses.       *)
fetchElsewhere ==
    /\ stmtValid /\ stmt.cursor /\ server.open /\ stmt.scrollable
    /\ \E to \in 0 .. server.total + 1 :
          LET found == to \in 1 .. server.total
          IN  /\ server' = [server EXCEPT !.position = to]
              /\ stmt' = IF found THEN [stmt EXCEPT !.row = Row(to)] ELSE stmt
              /\ seen' = IF found THEN <<Row(to)>> ELSE <<>>
              /\ reply' = [op |-> "row", ok |-> found]
    /\ lost' = FALSE
    /\ UNCHANGED exec

Least(a, b) == IF a < b THEN a ELSE b

(* Mistaken: the loop does not count the current row. *)
RowsFetchedFromZero(size, include, left) == Least(size, left)

(* The rows the constructor's loop fetches, of those left in the cursor. *)
RowsFetched(size, include, left) ==
    LET copied == IF include /\ size > 0 THEN 1 ELSE 0
    IN  Least(size - copied, left)

(* RowSet(statement, size, includeCurrentRow), of the statement in c. *)
RowSetOf(c, e, size, include) ==
    LET left == IF c.stmt.cursor /\ c.server.position <= c.server.total
                THEN c.server.total - c.server.position ELSE 0
        count == RowsFetched(size, include, left)
        fetched == [i \in 1 .. count |-> [exec |-> e, n |-> c.server.position + i]]
        copied == IF include /\ size > 0 THEN <<c.stmt.row>> ELSE <<>>
    IN  [c EXCEPT !.server.position = @ + count, !.seen = @ \o fetched,
                  !.reply = [op |-> "rowSet", size |-> size, rows |-> copied \o fetched]]

(* A fetch in the middle of the constructor is refused: no RowSet. *)
RowSetThrown(c, size, include) ==
    {[c EXCEPT !.server.position = position, !.lost = @ \/ position > c.server.position, !.reply = Failed] :
        position \in {n \in c.server.position .. c.server.total :
                        /\ n - c.server.position < RowsFetched(size, include, size)
                        /\ c.server.open \/ n = c.server.position}}

(* The program passes the current row on when it has just fetched it, or   *)
(* takes the rows behind it.                                               *)
NewRowSet ==
    /\ stmtValid /\ UNCHANGED exec
    /\ \E size \in RowSetSizes, include \in BOOLEAN :
          /\ IF include THEN reply.op = "row" /\ reply.ok /\ stmt.row # NullRow ELSE stmt.cursor
          /\ \/ (stmt.cursor => server.open) /\ Become(RowSetOf(Current, exec, size, include))
             \/ stmt.cursor /\ \E c \in RowSetThrown(Current, size, include) : Become(c)

(* queryPreparedRowSet(): execute, and a RowSet from the first row on.  A  *)
(* statement that is no query is refused before it is executed.            *)
queryPreparedRowSet ==
    /\ stmtValid /\ exec < Executions
    /\ stmt.kind \in {"SELECT", "EXEC_PROCEDURE"}
    /\ exec' = exec + 1
    /\ \E c \in Outcomes(exec + 1), maxRows \in RowSetSizes :
          LET effectiveMaxRows == IF stmt.kind = "EXEC_PROCEDURE" THEN 1 ELSE maxRows
              hasRow == c.reply.op = "row" /\ c.reply.ok
              size == IF hasRow THEN effectiveMaxRows ELSE 0
          IN  \/ c.reply = Failed /\ Become(c)
              \/ c.reply # Failed /\ Become(RowSetOf(c, exec + 1, size, hasRow))
              \/ c.reply # Failed /\ stmt.kind = "SELECT" /\ \E d \in RowSetThrown(c, size, hasRow) : Become(d)

CloseCursor(s) == [s EXCEPT !.cursor = FALSE]

(* free(): the result set, then the statement; each may be refused. *)
free ==
    /\ stmtValid
    /\ server' = NoCursor /\ reply' = Failed
    /\ \/ stmt' = CloseCursor([stmt EXCEPT !.handle = FALSE])
       \/ stmt' = CloseCursor(stmt)
    /\ UNCHANGED <<exec, seen, lost>>
FreeRefused == stmtValid /\ stmt.cursor /\ Throws

(* The destructor frees; whatever is refused is swallowed, and the handles *)
(* that are left are released.                                             *)
DestroyStatement ==
    /\ stmt.exists
    /\ stmt' = NoStatement /\ server' = NoCursor
    /\ reply' = Failed /\ seen' = <<>> /\ exec' = 0 /\ lost' = FALSE

(* External: the end of the transaction closes its cursors. *)
ServerClosesCursor == server' = [server EXCEPT !.open = FALSE] /\ UNCHANGED <<stmt, exec, reply, seen, lost>>

CursorNext ==
    \/ PrepareStatement \/ Execute \/ ExecuteNotClosed \/ fetchNext \/ FetchRefused \/ fetchElsewhere
    \/ NewRowSet \/ queryPreparedRowSet \/ free \/ FreeRefused \/ DestroyStatement
-----------------------------------------------------------------------------
(* Types. *)
Rows == [exec : Nat, n : Nat]
Replies ==
    [op : {"failed"}] \union [op : {"row"}, ok : BOOLEAN]
    \union [op : {"rowSet"}, size : Nat, rows : Seq(Rows)]
CursorTypes ==
    /\ stmt \in [exists : BOOLEAN, handle : BOOLEAN, cursor : BOOLEAN, kind : Kinds,
                 scrollable : BOOLEAN, row : Rows]
    /\ server \in [open : BOOLEAN, total : Nat, position : Nat]
    /\ exec \in 0 .. Executions /\ reply \in Replies
    /\ seen \in Seq(Rows) /\ lost \in BOOLEAN

(* The row handed out last is the one the server's cursor stands on, and   *)
(* the statement's, if the last call has fetched it.                       *)
OnLastRow ==
    /\ stmt.cursor /\ ~lost =>
          IF seen = <<>> THEN stmt.scrollable \/ server.position = 0
          ELSE seen[Len(seen)].n = server.position
    /\ reply.op = "row" /\ reply.ok /\ stmt.row # NullRow =>
          /\ seen # <<>> /\ stmt.row = seen[Len(seen)]
          /\ stmt.cursor => stmt.row.n = server.position

CursorTypeOK ==
    /\ CursorTypes
    /\ stmt.cursor => stmt.exists /\ stmt.handle /\ stmt.kind = "SELECT"
    /\ server.open => stmt.cursor
    /\ server.position \in 0 .. server.total + 1
    /\ OnLastRow

(* Whoever reads the rows of a result by execute, fetchNext and RowSets of *)
(* any sizes, in any mixture, gets every row once and in order: only the   *)
(* rows of a RowSet that threw are lost.  A RowSet is short only at the    *)
(* end of the result.                                                      *)
RowsInOrder ==
    /\ ~lost => \A i \in 1 .. Len(seen) - 1 : seen[i + 1].n = seen[i].n + 1
    /\ (seen # <<>> /\ ~stmt.scrollable /\ ~lost) => seen[1].n = 1
    /\ reply.op = "rowSet" =>
          /\ Len(reply.rows) <= reply.size
          /\ \A i \in 1 .. Len(reply.rows) - 1 : reply.rows[i + 1].n = reply.rows[i].n + 1
          /\ (reply.rows # <<>> /\ seen # <<>>) => reply.rows[Len(reply.rows)] = seen[Len(seen)]
          /\ (Len(reply.rows) < reply.size /\ stmt.cursor) => server.position >= server.total

(* A row that can be read from the statement is one of its last execution: *)
(* none is left of the one before, though executing may have failed.       *)
RowIsCurrent ==
    (stmt.exists /\ stmt.row # NullRow) => stmt.row.exec = exec
=============================================================================
