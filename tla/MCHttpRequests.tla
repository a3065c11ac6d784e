--------------------------- MODULE MCHttpRequests ---------------------------
(* Small instances of HttpRequests for TLC. *)
EXTENDS HttpRequests, TLC

CONSTANTS k1, k2

\* A request with a token of k1, a valid body and no Content-Length.
Plain(route) ==
  [route |-> route, token |-> k1, valid |-> TRUE, expiration |-> "absent",
   condition |-> "absent", length |-> None]

Posts == {
  [Plain("set") EXCEPT !.condition = "NX", !.length = 1],
  [Plain("set") EXCEPT !.condition = "XX", !.expiration = "given"],
  [Plain("set") EXCEPT !.expiration = "null", !.length = 0]}

\* One request for each way through the guard, the pipe and the handlers.
AllInputs == Posts \cup {
  Plain("get"), Plain("ready"), Plain("live"), Plain("unknown"),
  [Plain("set") EXCEPT !.valid = FALSE],
  [Plain("hello") EXCEPT !.token = k2],
  [Plain("hello") EXCEPT !.token = None]}

Symmetry == Permutations(Reqs)
=============================================================================
