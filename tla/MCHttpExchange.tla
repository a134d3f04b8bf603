---------------------------- MODULE MCHttpExchange ----------------------------
(***************************************************************************)
(* What one HTTP exchange tells its caller, evaluated over every way it can*)
(* go: every step done or failed, every code the driver knows and one it   *)
(* does not, every body.                                                   *)
(***************************************************************************)
EXTENDS HttpExchange

LOCAL All == Exchanges({200, 400, 403, 404, 408, 500, 801}, SUBSET {"handle"})
LOCAL Received(x) == x.written /\ x.answered /\ x.headed /\ x.ended /\ x.status # NoStatus

\* A success was received to its end, bears the status 200 and can be parsed;
\* fields are told only when the device accepted the command.
ASSUME SuccessIsWhole ==
  \A x \in All :
    /\ HttpGet(x).result = "SUCCESS" <=> Received(x) /\ x.status = 200 /\ x.body # "garbled"
    /\ HttpGet(x).tree # {} => HttpGet(x) = Answer("SUCCESS", x.tree) /\ x.body = "accepted"

\* A refusal with an error code is told like a success whose fields are missing.
ASSUME RefusalLooksEmpty ==
  \A x \in All : x.body = "refused" => HttpGet(x) = HttpGet([x EXCEPT !.body = "accepted", !.tree = {}])

\* Both forms tell the same of an exchange, but of a body that cannot be parsed:
\* FAILED through the io thread, an exception to a caller that waits.
ASSUME FormsAgreeUnlessGarbled ==
  \A x \in All :
    IF Received(x) /\ x.status = 200 /\ x.body = "garbled"
    THEN Asynchronously(x) = Failure("FAILED") /\ Synchronously(TRUE, x) = Unparsable
    ELSE Asynchronously(x) = Synchronously(TRUE, x) /\ Asynchronously(x).result \in Results

\* A device that answers 408 looks like a deadline of the driver.
ASSUME ResultsAreDistinct ==
  \A code \in 0..999 : requestResultFromCode(code) \in Results \ {"FAILED"}
                         => code \in {200, 400, 403, 404, 408, 801}
=============================================================================
