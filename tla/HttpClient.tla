------------------------------ MODULE HttpClient ------------------------------
(***************************************************************************)
(* HttpRequestUntil: the one HTTP client of the app.  All requests share   *)
(* one mutable header set; a request copies it when it is made.  A query   *)
(* (get, delete) with parameters first stores their signature in the       *)
(* header "sign", a request with a body removes it, an upload takes the    *)
(* headers as they are.  Every request returns a promise, which the        *)
(* handler of its response settles.                                        *)
(*                                                                         *)
(* Requests are made on the main thread, where the responses are handled   *)
(* too.  Alamofire, which answers or fails after at most 15 seconds, is    *)
(* external.  URLs, bodies and the parsed models are left out.             *)
(***************************************************************************)
EXTENDS Integers, Sequences

CONSTANTS
    Key,            \* the names of parameters
    Value,          \* their values other than the empty string
    Empty,          \* the empty string
    Other,          \* the names of the headers other than "sign"
    HeaderValue,    \* the values the app gives them
    Code,           \* the codes the server answers with
    MaxRequests     \* bound: how many requests are made

ASSUME HttpAssumption ==
    /\ Empty \notin Value
    /\ "sign" \notin Other
    /\ MaxRequests \in Nat

VARIABLES
    headers,        \* the shared header set, from names to values
    requests        \* the requests made so far, each with the headers it was
                    \* sent with, its answer and what became of its promise

vars == <<headers, requests>>

Parameters == UNION {[K -> Value \cup {Empty}] : K \in SUBSET Key}
Signature == SUBSET (Key \X Value)
Answer == {"failure", "notAnObject"} \cup Code

\* A promise that is not settled, and the ways to settle it.
Pending == [state |-> "pending", code |-> "none"]
Rejected(code) == [state |-> "rejected", code |-> code]
Fulfilled == [state |-> "fulfilled", code |-> "200"]
Promise == {Pending, Fulfilled} \cup {Rejected(c) : c \in Code \cup {"300", "301"}}

Init ==
    /\ headers = <<>>
    /\ requests = <<>>
-----------------------------------------------------------------------------
UpdataHeaders(name, v) ==
    [h \in DOMAIN headers \cup {name} |-> IF h = name THEN v ELSE headers[h]]
DeleteHeaders(name) == [h \in DOMAIN headers \ {name} |-> headers[h]]

\* Fault: empty values are signed too.
SignOfAll(p) == {<<k, p[k]>> : k \in DOMAIN p}

\* The text that is signed: the pairs whose value is not empty, in the order of
\* their keys.
SignOf(p) == {<<k, p[k]>> : k \in {k \in DOMAIN p : p[k] # Empty}}

\* parametersEncrypt: without parameters the headers stay as they are.
ParametersEncrypt(p) ==
    IF DOMAIN p = {} THEN headers ELSE UpdataHeaders("sign", SignOf(p))

\* Fault: the signature of the last query stays.
ParamsEncryptKeeps == headers

\* paramsEncrypt: the body carries the parameters.
ParamsEncrypt == DeleteHeaders("sign")

\* The request goes out with a copy of the headers.
Send(kind, p, h) ==
    /\ Len(requests) < MaxRequests
    /\ headers' = h
    /\ requests' = Append(requests, [kind |-> kind, params |-> p, headers |-> h,
                                     answer |-> "none", promise |-> Pending])

Query(p) == Send("query", p, ParametersEncrypt(p))
Body == Send("body", <<>>, ParamsEncrypt)
Upload == Send("upload", <<>>, headers)

\* The app changes a header of its own.
SetHeader(h, v) == headers' = UpdataHeaders(h, v) /\ UNCHANGED requests
RemoveHeader(h) == headers' = DeleteHeaders(h) /\ UNCHANGED requests

\* Fault: an answer with a code that means an error settles nothing.
HandleFailSilent(code) == Pending

\* handleFail: a token that timed out leaves the promise as it is.
HandleFail(code) == IF code = "-5" THEN Pending ELSE Rejected(code)

\* The handler of responseJSON.
Settle(answer) ==
    CASE answer = "failure"     -> Rejected("300")
      [] answer = "notAnObject" -> Rejected("301")
      [] answer = "200"         -> Fulfilled
      [] OTHER                  -> HandleFail(answer)

Respond(i) ==
    /\ requests[i].answer = "none"
    /\ \E a \in Answer :
          requests' = [requests EXCEPT ![i].answer = a, ![i].promise = Settle(a)]
    /\ UNCHANGED headers

Next ==
    \/ \E p \in Parameters : Query(p)
    \/ Body
    \/ Upload
    \/ \E h \in Other : RemoveHeader(h) \/ \E v \in HeaderValue : SetHeader(h, v)
    \/ \E i \in DOMAIN requests : Respond(i)

\* Alamofire calls the handler of every request, after timeoutIntervalForRequest
\* at the latest.
Fairness == \A i \in 1..MaxRequests : WF_vars(i \in DOMAIN requests /\ Respond(i))

Spec == Init /\ [][Next]_vars /\ Fairness
-----------------------------------------------------------------------------
Signed(hs) == "sign" \in DOMAIN hs

HeadersOK(hs) ==
    /\ DOMAIN hs \subseteq {"sign"} \cup Other
    /\ hs = [h \in DOMAIN hs |-> hs[h]]
    /\ Signed(hs) => hs["sign"] \in Signature
    /\ \A h \in DOMAIN hs \ {"sign"} : hs[h] \in HeaderValue

RequestOK(r) ==
    /\ r.kind \in {"query", "body", "upload"}
    /\ r.params \in Parameters
    /\ HeadersOK(r.headers)
    /\ r.answer \in Answer \cup {"none"}
    /\ r.promise \in Promise

\* The variables have their types.
TypeOK ==
    /\ HeadersOK(headers)
    /\ \A i \in DOMAIN requests : RequestOK(requests[i])

Signs(r) == r.kind = "query" /\ DOMAIN r.params # {}
Clears(r) == r.kind = "body"

\* A signature in hs, if there is one, is that of the last query with parameters
\* among the first i of the requests rs, and no request with a body came after it.
LeftBy(rs, i, hs) ==
    Signed(hs) =>
        \E j \in 1..i :
            /\ Signs(rs[j]) /\ hs["sign"] = SignOf(rs[j].params)
            /\ \A k \in (j + 1)..i : ~Signs(rs[k]) /\ ~Clears(rs[k])

\* What a request says about its parameters: a query with parameters carries
\* their own signature and a request with a body none, whatever was sent before
\* or is still on its way.  A signature of other parameters, which only an upload
\* or a query without parameters may carry, never outlives a body or the next
\* query with parameters.  That it may be carried at all is a defect and nothing
\* the property asks for: request says that get and delete are to be signed, and
\* the early return of parametersEncrypt leaves the headers as they are.
OwnSignature ==
    \A i \in DOMAIN requests :
        /\ Signs(requests[i]) => Signed(requests[i].headers)
        /\ LeftBy(requests, i, requests[i].headers)

\* Every promise is settled in the end, fulfilled exactly by an answer with the
\* code 200, unless the server says that the token timed out: then handleFail
\* returns early and the caller waits for ever.
PromiseSettles ==
    \A i \in 1..MaxRequests :
        i \in DOMAIN requests ~>
            /\ i \in DOMAIN requests
            /\ \/ requests[i].promise.state = "fulfilled" /\ requests[i].answer = "200"
               \/ requests[i].promise.state = "rejected" /\ requests[i].answer # "200"
               \/ requests[i].answer = "-5"
=============================================================================
