--------------------------------- MODULE Errors ---------------------------------
(***************************************************************************)
(* How an error of a statement travels: SQLSTATE (or, where psycopg has    *)
(* none, the class of its exception) to an error of the Core hierarchy     *)
(* (drivers/errors_map.py), and from there to an HTTP status               *)
(* (pgfoundation_service/http_errors.py).                                  *)
(***************************************************************************)
EXTENDS Naturals

\* One SQLSTATE for each case of map_error(), and "57P01" (the server shuts down),
\* which it has no case for; then the exceptions that carry none.
SqlStates == {"40001", "40P01", "08006", "23505", "42601", "22012", "57014", "57P01",
              "OperationalError", "DataError"}

\* Mutant: a lost connection is an ordinary error of the query.
MapErrorMutant(e) ==
    CASE e \in {"40001", "40P01", "57014"} -> "TransientError"
      [] e = "23505"                       -> "IntegrityError"
      [] OTHER                             -> "QueryError"

MapError(e) ==
    CASE e \in {"40001", "40P01", "57014"}   -> "TransientError"
      [] e \in {"08006", "OperationalError"} -> "ConnectionError"
      [] e = "23505"                         -> "IntegrityError"
      [] OTHER                               -> "QueryError"

\* What api() may have to translate; "OtherError" is whatever is not an error of the
\* foundation or of the gate.
StatusFor(error) ==
    CASE error = "AuthenticationError"  -> 401
      [] error = "AuthorizationError"   -> 403
      [] error = "ConfigError"          -> 404
      [] error = "IntegrityError"       -> 409
      [] error \in {"QueryError", "ValidationError"}                           -> 400
      [] error \in {"ConnectionError", "PoolTimeoutError", "TransientError"}   -> 503
      [] OTHER                          -> 500

\* 499: the client has gone, nobody reads the answer.
Statuses == {200, 400, 401, 403, 404, 409, 499, 500, 503}
===============================================================================
