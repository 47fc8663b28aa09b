\* Three requests with one parameter name, a value or the empty string, and one
\* more header; the server answers with success, the timed-out token or another code.
CONSTANTS
    Key = {k}
    Value = {v}
    Empty = empty
    Other = {"token"}
    HeaderValue = {"t"}
    Code = {"200", "-5", "-6"}
    MaxRequests = 3
SPECIFICATION Spec
INVARIANTS TypeOK OwnSignature
PROPERTY PromiseSettles
