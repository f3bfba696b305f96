------------------------------- MODULE Status -------------------------------
(***************************************************************************)
(* Codes, errors and what a caller does about them: transport/response     *)
(* (the table of codes, the mapping of an error to a gRPC status and back  *)
(* to an HTTP status), the unified error handler of transport/gateway, and *)
(* the retry decisions of middleware/retry that read those codes.          *)
(*                                                                         *)
(* An error is a record: its kind, and the name of its code (of a          *)
(* BusinessError or a Code, however deeply wrapped: errors.As finds it) or *)
(* its gRPC code (of a gRPC status).  Messages are left out but for one    *)
(* question: whether the caller is shown the error's own message.          *)
(***************************************************************************)
EXTENDS Integers

\* transport/response/code.go: one row of the table.
Code(num, http, grpc) == [num |-> num, http |-> http, grpc |-> grpc]

\* transport/response/code.go: the predefined codes.
Codes == [
  Success |-> Code(0, 200, "OK"),
  Unknown |-> Code(10000, 500, "Unknown"),
  Canceled |-> Code(10001, 408, "Canceled"),
  Timeout |-> Code(10002, 504, "DeadlineExceeded"),
  Unauthorized |-> Code(20001, 401, "Unauthenticated"),
  Forbidden |-> Code(20002, 403, "PermissionDenied"),
  TokenExpired |-> Code(20003, 401, "Unauthenticated"),
  TokenInvalid |-> Code(20004, 401, "Unauthenticated"),
  InvalidParam |-> Code(30001, 400, "InvalidArgument"),
  MissingParam |-> Code(30002, 400, "InvalidArgument"),
  ValidationFailed |-> Code(30003, 400, "InvalidArgument"),
  NotFound |-> Code(40001, 404, "NotFound"),
  AlreadyExists |-> Code(40002, 409, "AlreadyExists"),
  Conflict |-> Code(40003, 409, "Aborted"),
  ResourceExhausted |-> Code(40004, 429, "ResourceExhausted"),
  Internal |-> Code(50001, 500, "Internal"),
  NotImplemented |-> Code(50002, 501, "Unimplemented"),
  DatabaseError |-> Code(50003, 500, "Internal"),
  ServiceUnavailable |-> Code(60001, 503, "Unavailable"),
  UpstreamError |-> Code(60002, 502, "Unavailable")]

CodeNames == DOMAIN Codes
GRPCCodes == {Codes[c].grpc : c \in CodeNames} \cup {"OutOfRange", "DataLoss"}

\* An error value, and no error.
NoErr == [kind |-> "nil", name |-> "Success"]
BusinessError(c) == [kind |-> "business", name |-> c]
StatusError(g) == [kind |-> "status", name |-> g]
PlainError == [kind |-> "plain", name |-> "Internal"]

\* The code an error carries: its own, and Internal for whatever is neither a
\* BusinessError nor a Code (a gRPC status is not).
ExtractCode(err) ==
  IF err.kind \in {"nil", "business"} THEN err.name ELSE "Internal"

\* Whether the caller reads the error's own message: never that of an internal
\* or upstream error.
ShowsOwnMessage(err) ==
  err.kind = "business" /\ Codes[ExtractCode(err)].num < 50000

\* The gRPC code an error is answered with, and the error itself: the status
\* of CodeSuccess is no error.
GRPCStatus(err) == Codes[ExtractCode(err)].grpc
GRPCError(err) ==
  IF GRPCStatus(err) = "OK" THEN NoErr ELSE StatusError(GRPCStatus(err))

\* The code a gRPC status stands for: the first of the table, Unknown for a
\* gRPC code the table lacks.
FromGRPCStatus(g) ==
  CASE g = "OK" -> "Success"
    [] g = "Canceled" -> "Canceled"
    [] g = "InvalidArgument" -> "InvalidParam"
    [] g = "DeadlineExceeded" -> "Timeout"
    [] g = "NotFound" -> "NotFound"
    [] g = "AlreadyExists" -> "AlreadyExists"
    [] g = "PermissionDenied" -> "Forbidden"
    [] g = "ResourceExhausted" -> "ResourceExhausted"
    [] g = "Aborted" -> "Conflict"
    [] g = "Unimplemented" -> "NotImplemented"
    [] g = "Internal" -> "Internal"
    [] g = "Unavailable" -> "ServiceUnavailable"
    [] g = "Unauthenticated" -> "Unauthorized"
    [] OTHER -> "Unknown"

FromGRPCError(err) ==
  CASE err.kind = "nil" -> "Success"
    [] err.kind = "status" -> FromGRPCStatus(err.name)
    [] OTHER -> "Internal"

GRPCCodeToHTTP(g) == Codes[FromGRPCStatus(g)].http

HTTPToGRPCCode(status) ==
  CASE status \in 200..299 -> "OK"
    [] status = 400 -> "InvalidArgument"
    [] status = 401 -> "Unauthenticated"
    [] status = 403 -> "PermissionDenied"
    [] status = 404 -> "NotFound"
    [] status = 408 -> "DeadlineExceeded"
    [] status = 409 -> "AlreadyExists"
    [] status = 429 -> "ResourceExhausted"
    [] status = 499 -> "Canceled"
    [] status = 500 -> "Internal"
    [] status = 501 -> "Unimplemented"
    [] status \in 502..504 -> "Unavailable"
    [] OTHER -> "Unknown"

\* Mutant of UnifiedErrorHandler: the error is taken for a business error.
UnifiedAsBusiness(err) == Codes[ExtractCode(err)].http
\* The gateway's error handler: status.FromError makes Unknown of an error
\* that is no gRPC status.
UnifiedErrorHandler(err) ==
  Codes[IF err.kind = "status" THEN FromGRPCStatus(err.name)
        ELSE "Unknown"].http

\* The retry decisions.  An HTTP answer is a status, 0 for a network error.
DefaultHTTPRetryable(status) == status = 0 \/ status >= 500 \/ status = 429
RetryOnConnectionError(status) == status = 0

DefaultGRPCRetryable(err) ==
  /\ err.kind # "nil"
  /\ err.kind = "status" =>
       err.name \in {"Unavailable", "ResourceExhausted", "Aborted",
                     "DeadlineExceeded"}
=============================================================================
