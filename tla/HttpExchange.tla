---------------------------- MODULE HttpExchange ----------------------------
(***************************************************************************)
(* One HTTP exchange with the device, as HttpGet of src/R2000.cpp conducts *)
(* it, and the answer a caller gets.  A property tree is the set of the    *)
(* fields present.  An exchange is a record of what the network and the    *)
(* device make of it: whether the request is written, the status line and  *)
(* the headers are read, the stream ends with an end of file; the status   *)
(* code; the body, "garbled" when it is no JSON, "refused" when its error  *)
(* code is not zero and "success"; its tree.                               *)
(***************************************************************************)
EXTENDS Naturals

Results == {"SUCCESS", "BAD_REQUEST", "FORBIDDEN", "UNKNOWN_COMMAND", "TIMEOUT", "FAILED",
            "INVALID_DEVICE_RESPONSE"}

Answer(result, tree) == [result |-> result, tree |-> tree]
Failure(result) == Answer(result, {})

\* The JSON parser's exception.
Unparsable == Failure("exception")

NoStatus == 0     \* of a status line that is not one
requestResultFromCode(code) ==
  CASE code = 200 -> "SUCCESS" [] code = 400 -> "BAD_REQUEST" [] code = 403 -> "FORBIDDEN"
    [] code = 404 -> "UNKNOWN_COMMAND" [] code = 408 -> "TIMEOUT"
    [] code = 801 -> "INVALID_DEVICE_RESPONSE" [] OTHER -> "FAILED"

Bodies == {"garbled", "refused", "accepted"}

Exchanges(codes, trees) ==
  [written : BOOLEAN, answered : BOOLEAN, headed : BOOLEAN, ended : BOOLEAN,
   status : codes \cup {NoStatus}, body : Bodies, tree : trees]

Whole(tree) == [written |-> TRUE, answered |-> TRUE, headed |-> TRUE, ended |-> TRUE,
                status |-> 200, body |-> "accepted", tree |-> tree]

\* A command the device refuses is a success without a tree.
Parsed(x) == CASE x.body = "garbled" -> Unparsable
               [] x.body = "refused" -> Failure("SUCCESS")
               [] x.body = "accepted" -> Answer("SUCCESS", x.tree)

\* HttpGet on a connected socket: the first thing to go wrong decides, and the
\* status code is judged only when everything has been received.
HttpGet(x) ==
  IF ~x.written \/ ~x.answered THEN Failure("FAILED")
  ELSE IF x.status = NoStatus THEN Failure("INVALID_DEVICE_RESPONSE")
  ELSE IF ~x.headed \/ ~x.ended THEN Failure("FAILED")
  ELSE IF requestResultFromCode(x.status) = "SUCCESS" THEN Parsed(x)
  ELSE Failure(requestResultFromCode(x.status))

\* onSocketConnectionAttemptCompleted catches every exception of the exchange.
Asynchronously(x) == IF HttpGet(x) = Unparsable THEN Failure("FAILED") ELSE HttpGet(x)

\* sendHttpCommand resolves and connects by itself, without a timeout, and
\* catches the errors of the system but not the parser's.
Synchronously(reached, x) == IF reached THEN HttpGet(x) ELSE Failure("FAILED")
=============================================================================
