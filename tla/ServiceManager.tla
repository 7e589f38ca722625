---------------------------- MODULE ServiceManager ----------------------------
(***************************************************************************)
(* A ServiceManager and the actions BackupManager and DatabaseManager run  *)
(* through it: start the service, then query it until it has ended, and    *)
(* hand its output to the caller line by line.  Lines are counted, not     *)
(* spelled out.                                                            *)
(*                                                                         *)
(* The service is external: it prints, ends or asks for input at its own   *)
(* pace, between any two queries; it answers a query with one line, or     *)
(* with as much as it likes if the lines are not wanted one by one, and    *)
(* says so if it has nothing yet.  Bound: MaxLines lines of one action.    *)
(***************************************************************************)
EXTENDS Naturals, Sequences

CONSTANT MaxLines

ASSUME MaxLinesAssumption == MaxLines \in Nat

VARIABLES
    manager,    \* the object: "none", "attached", or "detached"
    call,       \* the action that has not returned: [verbose, requestStdin]
    stdinRequest,
    delivered,  \* lines of this action handed to verboseOutput
    result,     \* how the last action ended: "none", "done", "threw"
    service     \* [state, printed, read, wantsInput]

vars == <<manager, call, stdinRequest, delivered, result, service>>

NoCall == [running |-> FALSE, verbose |-> FALSE, requestStdin |-> FALSE]
Stopped == [state |-> "none", printed |-> 0, read |-> 0, wantsInput |-> FALSE]
isValid == manager = "attached"
unread == service.printed - service.read
waiting == call.running

Init ==
    /\ manager = "none" /\ call = NoCall /\ stdinRequest = FALSE
    /\ delivered = 0 /\ result = "none" /\ service = Stopped

(* The constructor; one that throws leaves no object. *)
Construct ==
    /\ manager = "none"
    /\ manager' = "attached" /\ service' = Stopped /\ result' = "none"
    /\ UNCHANGED <<call, stdinRequest, delivered>>

(* Mistaken: the lines of the action before are counted again. *)
StartKeepsCount(verbose, requestStdin) ==
    /\ isValid /\ ~waiting /\ service.state # "running"
    /\ service' = [Stopped EXCEPT !.state = "running"]
    /\ call' = [running |-> TRUE, verbose |-> verbose, requestStdin |-> requestStdin]
    /\ result' = "none"
    /\ UNCHANGED <<manager, stdinRequest, delivered>>

(* startAction(), then into waitForCompletion().  The server refuses while *)
(* the service before is running; a new service drops what the old one     *)
(* has left unread.                                                        *)
Start(verbose, requestStdin) ==
    /\ isValid /\ ~waiting /\ stdinRequest' = FALSE /\ delivered' = 0
    /\ UNCHANGED manager
    /\ \/ /\ service.state # "running"
          /\ service' = [Stopped EXCEPT !.state = "running"]
          /\ call' = [running |-> TRUE, verbose |-> verbose, requestStdin |-> requestStdin]
          /\ result' = "none"
       \/ result' = "threw" /\ UNCHANGED <<call, service>>

backup == \E verbose \in BOOLEAN : Start(verbose, FALSE)
restore == \E verbose \in BOOLEAN : Start(verbose, TRUE)
setProperties == Start(FALSE, FALSE)
repair == \E verbose \in BOOLEAN : Start(verbose, FALSE)

(* External: the answers to a query, item by item. *)
Answers ==
    LET amounts == IF call.verbose THEN {n \in 0 .. 1 : n <= unread} ELSE 0 .. unread
        notReady(flag) == IF flag THEN <<[tag |-> "notReady"]>> ELSE <<>>
        stdin == IF call.requestStdin /\ service.wantsInput THEN <<[tag |-> "stdin"]>> ELSE <<>>
    IN  {<<[tag |-> "output", n |-> a[1]]>> \o notReady(a[2]) \o stdin \o <<[tag |-> "end"]>> :
            a \in {b \in amounts \X BOOLEAN :
                     b[1] = 0 /\ (unread > 0 \/ service.state = "running") => b[2]}}

(* The loop over the items of one answer, which ends with the answer or at *)
(* the first "end".                                                        *)
Scan(items) ==
    LET after[i \in 0 .. Len(items)] ==
            IF i = 0 THEN [running |-> TRUE, outputLength |-> 0, stdinRequest |-> FALSE, notReady |-> FALSE]
            ELSE LET before == after[i - 1]
                     tag == items[i].tag
                 IN  IF ~before.running THEN before
                     ELSE CASE tag = "output" -> [before EXCEPT !.outputLength = items[i].n]
                            [] tag = "notReady" -> [before EXCEPT !.notReady = TRUE]
                            [] tag = "stdin" -> [before EXCEPT !.stdinRequest = TRUE]
                            [] tag = "end" -> [before EXCEPT !.running = FALSE]
    IN  after[Len(items)]

(* Mistaken: a service with nothing to say yet is taken to have ended. *)
GoesOnIfOutput(s) == s.running \/ s.outputLength > 0 \/ s.stdinRequest

(* Mistaken: any output item counts, though it be empty. *)
GoesOnAlways(s) == s.running \/ s.outputLength >= 0 \/ s.stdinRequest \/ s.notReady

(* Whether there is another round, after the items of an answer. *)
GoesOn(s) == s.running \/ s.outputLength > 0 \/ s.stdinRequest \/ s.notReady

Return(how) == call' = NoCall /\ result' = how

(* One round of waitForCompletion(): the input nobody gives, or a query    *)
(* and its answer.                                                         *)
Query ==
    /\ waiting /\ ~stdinRequest
    /\ \E items \in Answers :
          LET s == Scan(items)
          IN  /\ service' = [service EXCEPT !.read = @ + s.outputLength]
              /\ delivered' = IF call.verbose THEN delivered + s.outputLength ELSE delivered
              /\ stdinRequest' = s.stdinRequest
              /\ IF GoesOn(s) THEN UNCHANGED <<call, result>> ELSE Return("done")
    /\ UNCHANGED manager

StdinRequested ==
    /\ waiting /\ stdinRequest
    /\ Return("threw") /\ stdinRequest' = FALSE
    /\ UNCHANGED <<manager, delivered, service>>

(* The server refuses the query. *)
QueryRefused ==
    /\ waiting /\ ~stdinRequest
    /\ Return("threw")
    /\ UNCHANGED <<manager, stdinRequest, delivered, service>>

(* verboseOutput throws: its line is taken, and the wait is over. *)
CallbackThrows ==
    /\ waiting /\ ~stdinRequest /\ call.verbose /\ unread > 0
    /\ Return("threw")
    /\ service' = [service EXCEPT !.read = @ + 1]
    /\ delivered' = delivered + 1
    /\ UNCHANGED <<manager, stdinRequest>>

(* disconnect(): a detach that is refused leaves the handle. *)
disconnect ==
    /\ isValid /\ ~waiting
    /\ manager' \in {"attached", "detached"}
    /\ UNCHANGED <<call, stdinRequest, delivered, result, service>>

(* The destructor, which swallows the refusal and drops the handle. *)
Destroy ==
    /\ manager # "none" /\ ~waiting
    /\ manager' = "none"
    /\ UNCHANGED <<call, stdinRequest, delivered, result, service>>

(* External: the service. *)
PrintLine ==
    /\ service.state = "running" /\ ~service.wantsInput /\ service.printed < MaxLines
    /\ service' = [service EXCEPT !.printed = @ + 1]
    /\ UNCHANGED <<manager, call, stdinRequest, delivered, result>>
End ==
    /\ service.state = "running" /\ ~service.wantsInput
    /\ service' = [service EXCEPT !.state = "ended"]
    /\ UNCHANGED <<manager, call, stdinRequest, delivered, result>>
WantInput ==
    /\ service.state = "running" /\ call.requestStdin
    /\ service' = [service EXCEPT !.wantsInput = TRUE]
    /\ UNCHANGED <<manager, call, stdinRequest, delivered, result>>

Round == Query \/ StdinRequested \/ QueryRefused \/ CallbackThrows

Next ==
    \/ Construct \/ backup \/ restore \/ setProperties \/ repair
    \/ Round \/ disconnect \/ Destroy
    \/ PrintLine \/ End \/ WantInput

Spec == Init /\ [][Next]_vars

(* The caller's thread goes on, and the service ends unless it waits for   *)
(* input.  That the server answers with output again and again while there *)
(* is some is the second conjunct: it does not say "not ready" for ever.   *)
Answered == Query /\ (unread > 0 => unread' < unread)
FairSpec == Spec /\ WF_vars(StdinRequested) /\ WF_vars(Query) /\ SF_vars(Answered) /\ WF_vars(End)
-----------------------------------------------------------------------------
Types ==
    /\ manager \in {"none", "attached", "detached"}
    /\ call \in [running : BOOLEAN, verbose : BOOLEAN, requestStdin : BOOLEAN]
    /\ stdinRequest \in BOOLEAN /\ delivered \in 0 .. MaxLines
    /\ result \in {"none", "done", "threw"}
    /\ service \in [state : {"none", "running", "ended"}, printed : 0 .. MaxLines,
                    read : 0 .. MaxLines, wantsInput : BOOLEAN]

(* Types; the service has printed what was read; a caller waits for an     *)
(* action that was started, by a manager that is attached.                 *)
TypeOK ==
    /\ Types
    /\ service.read <= service.printed
    /\ waiting => isValid /\ service.state # "none"

(* An action that returns without an exception has waited for its service  *)
(* to end, and a verbose caller has seen every line of it, and none of the *)
(* action before, wherever the service printed, paused and ended between   *)
(* the queries.                                                            *)
OutputComplete ==
    /\ (call.running /\ call.verbose) => delivered = service.read
    /\ result = "done" => service.state = "ended" /\ unread = 0

(* The wait ends: a service that ends is noticed, and one that waits for   *)
(* input nobody will give does not keep its caller waiting.                *)
WaitReturns == waiting ~> ~waiting
=============================================================================
