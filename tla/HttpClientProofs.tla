--------------------------- MODULE HttpClientProofs ---------------------------
(***************************************************************************)
(* Which signature a request of HttpRequestUntil carries, for any number   *)
(* of requests, parameters and headers.                                    *)
(*                                                                         *)
(* OwnSignature speaks about the requests already sent; what the next one  *)
(* carries is in the shared headers, so the inductive invariant says the   *)
(* same of them (HeadersLeft).                                             *)
(***************************************************************************)
EXTENDS HttpClient, TLAPS

HeaderMap == UNION {[H -> Signature \cup HeaderValue] : H \in SUBSET ({"sign"} \cup Other)}

Record ==
    [kind : {"query", "body", "upload"}, params : Parameters, headers : HeaderMap,
     answer : Answer \cup {"none"}, promise : Promise]

HeadersLeft == LeftBy(requests, Len(requests), headers)

IInv ==
    /\ requests \in Seq(Record) /\ headers \in HeaderMap
    /\ TypeOK
    /\ HeadersLeft
    /\ OwnSignature
-----------------------------------------------------------------------------
\* A signature is a set of pairs of a name and a value that is not empty.
LEMMA SignOfType ==
    ASSUME NEW p \in Parameters
    PROVE  SignOf(p) \in Signature
<1>1. PICK K \in SUBSET Key : p \in [K -> Value \cup {Empty}]
  BY DEF Parameters
<1>. QED BY <1>1 DEF SignOf, Signature

\* Updating a header keeps the header set well-formed.
LEMMA UpdateType ==
    ASSUME headers \in HeaderMap, HeadersOK(headers),
           NEW name \in {"sign"} \cup Other, NEW v,
           name = "sign" => v \in Signature,
           name # "sign" => v \in HeaderValue
    PROVE  /\ UpdataHeaders(name, v) \in HeaderMap
           /\ HeadersOK(UpdataHeaders(name, v))
<1>1. PICK H \in SUBSET ({"sign"} \cup Other) : headers \in [H -> Signature \cup HeaderValue]
  BY DEF HeaderMap
<1>2. UpdataHeaders(name, v) \in [H \cup {name} -> Signature \cup HeaderValue]
  BY <1>1 DEF UpdataHeaders
<1>3. UpdataHeaders(name, v) \in HeaderMap
  BY <1>2 DEF HeaderMap
<1>4. HeadersOK(UpdataHeaders(name, v))
  BY <1>1, <1>2 DEF HeadersOK, Signed, UpdataHeaders
<1>. QED BY <1>3, <1>4

\* So does removing one.
LEMMA DeleteType ==
    ASSUME headers \in HeaderMap, HeadersOK(headers), NEW name
    PROVE  /\ DeleteHeaders(name) \in HeaderMap
           /\ HeadersOK(DeleteHeaders(name))
<1>1. PICK H \in SUBSET ({"sign"} \cup Other) : headers \in [H -> Signature \cup HeaderValue]
  BY DEF HeaderMap
<1>2. DeleteHeaders(name) \in [H \ {name} -> Signature \cup HeaderValue]
  BY <1>1 DEF DeleteHeaders
<1>3. DeleteHeaders(name) \in HeaderMap
  BY <1>2 DEF HeaderMap
<1>4. HeadersOK(DeleteHeaders(name))
  BY <1>1, <1>2 DEF HeadersOK, Signed, DeleteHeaders
<1>. QED BY <1>3, <1>4

\* What the first i requests left depends on their kinds and parameters only.
LEMMA LeftKept ==
    ASSUME NEW rs, NEW qs, NEW i \in Nat, NEW hs,
           \A j \in 1..i : qs[j].kind = rs[j].kind /\ qs[j].params = rs[j].params,
           LeftBy(rs, i, hs)
    PROVE  LeftBy(qs, i, hs)
<1>1. \A j \in 1..i : (Signs(qs[j]) <=> Signs(rs[j])) /\ (Clears(qs[j]) <=> Clears(rs[j]))
  BY DEF Signs, Clears
<1>2. CASE ~Signed(hs)
  BY <1>1, <1>2 DEF LeftBy
<1>3. CASE Signed(hs)
  <2>1. PICK j \in 1..i : /\ Signs(rs[j]) /\ hs["sign"] = SignOf(rs[j].params)
                          /\ \A k \in (j + 1)..i : ~Signs(rs[k]) /\ ~Clears(rs[k])
    BY <1>3 DEF LeftBy
  <2>2. /\ Signs(qs[j]) /\ hs["sign"] = SignOf(qs[j].params)
        /\ \A k \in (j + 1)..i : ~Signs(qs[k]) /\ ~Clears(qs[k])
    BY <1>1, <2>1
  <2>. QED BY <1>3, <2>2 DEF LeftBy
<1>. QED BY <1>2, <1>3

\* Headers other than "sign" do not matter.
LEMMA LeftOther ==
    ASSUME NEW rs, NEW i \in Nat, NEW hs, NEW gs,
           Signed(gs) <=> Signed(hs), Signed(hs) => gs["sign"] = hs["sign"],
           LeftBy(rs, i, hs)
    PROVE  LeftBy(rs, i, gs)
BY DEF LeftBy

\* A request that neither signs nor clears leaves the signature as it was.
LEMMA LeftStays ==
    ASSUME NEW rs, NEW n \in Nat, NEW hs, LeftBy(rs, n, hs),
           ~Signs(rs[n + 1]), ~Clears(rs[n + 1])
    PROVE  LeftBy(rs, n + 1, hs)
<1>1. CASE ~Signed(hs)
  BY <1>1 DEF LeftBy
<1>2. CASE Signed(hs)
  <2>1. PICK j \in 1..n : /\ Signs(rs[j]) /\ hs["sign"] = SignOf(rs[j].params)
                          /\ \A k \in (j + 1)..n : ~Signs(rs[k]) /\ ~Clears(rs[k])
    BY <1>2 DEF LeftBy
  <2>2. \A k \in (j + 1)..(n + 1) : ~Signs(rs[k]) /\ ~Clears(rs[k])
    BY <2>1
  <2>3. j \in 1..(n + 1)
    OBVIOUS
  <2>. QED BY <1>2, <2>1, <2>2, <2>3 DEF LeftBy
<1>. QED BY <1>1, <1>2

\* Sending a request keeps the invariant when its headers hold its own signature or
\* the one that was left.
LEMMA SendKeeps ==
    ASSUME IInv, NEW kind \in {"query", "body", "upload"}, NEW p \in Parameters,
           NEW h \in HeaderMap, HeadersOK(h), Send(kind, p, h),
           kind = "query" /\ DOMAIN p # {} => Signed(h),
           LeftBy(requests', Len(requests) + 1, h)
    PROVE  IInv'
<1>. DEFINE r == [kind |-> kind, params |-> p, headers |-> h,
                  answer |-> "none", promise |-> Pending]
<1>1. r \in Record
  BY DEF Record, Promise
<1>2. /\ requests' = Append(requests, r) /\ headers' = h
      /\ requests \in Seq(Record)
  BY DEF Send, IInv
<1>3. /\ requests' \in Seq(Record) /\ Len(requests') = Len(requests) + 1
      /\ Len(requests) \in Nat
      /\ \A i \in 1..Len(requests) : requests'[i] = requests[i]
      /\ requests'[Len(requests) + 1] = r
      /\ DOMAIN requests' = 1..(Len(requests) + 1)
      /\ DOMAIN requests = 1..Len(requests)
  BY <1>1, <1>2
<1>4. TypeOK'
  <2>1. RequestOK(r)
    BY <1>1 DEF RequestOK, Record
  <2>2. \A i \in 1..Len(requests) : RequestOK(requests[i])
    BY <1>3 DEF IInv, TypeOK
  <2>3. \A i \in 1..(Len(requests) + 1) : RequestOK(requests'[i])
    <3>1. TAKE i \in 1..(Len(requests) + 1)
    <3>2. CASE i = Len(requests) + 1
      BY <1>3, <2>1, <3>2
    <3>3. CASE i # Len(requests) + 1
      BY <1>3, <2>2, <3>3
    <3>. QED BY <3>2, <3>3
  <2>. QED BY <1>2, <1>3, <2>3 DEF TypeOK
<1>5. HeadersLeft'
  BY <1>2, <1>3 DEF HeadersLeft
<1>6. OwnSignature'
  <2>1. SUFFICES ASSUME NEW i \in 1..(Len(requests) + 1)
                 PROVE  /\ Signs(requests'[i]) => Signed(requests'[i].headers)
                        /\ LeftBy(requests', i, requests'[i].headers)
    BY <1>3 DEF OwnSignature
  <2>2. CASE i = Len(requests) + 1
    BY <1>3, <2>2 DEF Signs
  <2>3. CASE i # Len(requests) + 1
    <3>1. i \in 1..Len(requests) /\ i \in Nat
      BY <1>3, <2>3
    <3>2. /\ Signs(requests[i]) => Signed(requests[i].headers)
          /\ LeftBy(requests, i, requests[i].headers)
      BY <1>3, <3>1 DEF IInv, OwnSignature
    <3>3. \A j \in 1..i : /\ requests'[j].kind = requests[j].kind
                          /\ requests'[j].params = requests[j].params
      BY <1>3, <3>1
    <3>4. LeftBy(requests', i, requests[i].headers)
      BY <3>1, <3>2, <3>3, LeftKept
    <3>. QED BY <1>3, <3>1, <3>2, <3>4
  <2>. QED BY <2>2, <2>3
<1>. QED BY <1>2, <1>3, <1>4, <1>5, <1>6 DEF IInv

\* A request that is answered keeps its kind, its parameters and its headers.
LEMMA RespondKeeps ==
    ASSUME IInv, NEW n \in DOMAIN requests, Respond(n)
    PROVE  IInv'
<1>1. PICK a \in Answer :
         requests' = [requests EXCEPT ![n].answer = a, ![n].promise = Settle(a)]
  BY DEF Respond
<1>2. headers' = headers
  BY DEF Respond
<1>3. requests \in Seq(Record) /\ n \in 1..Len(requests) /\ Len(requests) \in Nat
      /\ DOMAIN requests = 1..Len(requests)
  BY DEF IInv
<1>4. Settle(a) \in Promise
  BY <1>1 DEF Settle, HandleFail, Answer, Promise
<1>5. requests[n] \in Record
  BY <1>3
<1>6. [requests[n] EXCEPT !.answer = a, !.promise = Settle(a)] \in Record
  BY <1>1, <1>4, <1>5 DEF Record
<1>7. requests' = [requests EXCEPT
                     ![n] = [requests[n] EXCEPT !.answer = a, !.promise = Settle(a)]]
  BY <1>1, <1>3, <1>5 DEF Record
<1>8. /\ requests' \in Seq(Record) /\ Len(requests') = Len(requests)
      /\ DOMAIN requests' = 1..Len(requests)
  BY <1>3, <1>6, <1>7
<1>9. \A j \in 1..Len(requests) : /\ requests'[j].kind = requests[j].kind
                                  /\ requests'[j].params = requests[j].params
                                  /\ requests'[j].headers = requests[j].headers
                                  /\ requests'[j] \in Record
  <2>1. TAKE j \in 1..Len(requests)
  <2>2. requests[j] \in Record /\ requests'[j] \in Record
    BY <1>3, <1>8
  <2>3. CASE j = n
    <3>1. requests'[j] = [requests[n] EXCEPT !.answer = a, !.promise = Settle(a)]
      BY <1>3, <1>7, <2>3
    <3>. QED BY <1>5, <2>2, <2>3, <3>1 DEF Record
  <2>4. CASE j # n
    <3>1. requests'[j] = requests[j]
      BY <1>3, <1>7, <2>4
    <3>. QED BY <2>2, <3>1
  <2>. QED BY <2>3, <2>4
<1>10. TypeOK'
  <2>1. \A j \in 1..Len(requests) : RequestOK(requests'[j])
    <3>1. TAKE j \in 1..Len(requests)
    <3>2. RequestOK(requests[j])
      BY <1>3 DEF IInv, TypeOK
    <3>. QED BY <1>9, <3>2 DEF RequestOK, Record
  <2>. QED BY <1>2, <1>8, <2>1 DEF IInv, TypeOK
<1>11. \A i \in Nat : \A hs :
          i <= Len(requests) /\ LeftBy(requests, i, hs) => LeftBy(requests', i, hs)
  <2>1. SUFFICES ASSUME NEW i \in Nat, NEW hs, i <= Len(requests), LeftBy(requests, i, hs)
                 PROVE  LeftBy(requests', i, hs)
    OBVIOUS
  <2>2. \A j \in 1..i : /\ requests'[j].kind = requests[j].kind
                        /\ requests'[j].params = requests[j].params
    BY <1>3, <1>9, <2>1
  <2>. QED BY <2>1, <2>2, LeftKept
<1>12. HeadersLeft'
  BY <1>2, <1>3, <1>8, <1>11 DEF IInv, HeadersLeft
<1>13. OwnSignature'
  <2>1. \A i \in 1..Len(requests) : Signs(requests'[i]) <=> Signs(requests[i])
    BY <1>9 DEF Signs
  <2>. QED BY <1>3, <1>8, <1>9, <1>11, <2>1 DEF IInv, OwnSignature
<1>. QED BY <1>2, <1>8, <1>10, <1>12, <1>13 DEF IInv

\* Changing another header keeps the invariant.
LEMMA HeaderKeeps ==
    ASSUME IInv, NEW h \in Other,
           \/ RemoveHeader(h)
           \/ \E v \in HeaderValue : SetHeader(h, v)
    PROVE  IInv'
<1>1. h # "sign"
  BY HttpAssumption
<1>2. requests' = requests
  BY DEF RemoveHeader, SetHeader
<1>3. headers' \in HeaderMap /\ HeadersOK(headers')
  <2>1. CASE RemoveHeader(h)
    BY <2>1, DeleteType DEF RemoveHeader, IInv, TypeOK
  <2>2. ASSUME NEW v \in HeaderValue, SetHeader(h, v)
        PROVE  headers' \in HeaderMap /\ HeadersOK(headers')
    BY <1>1, <2>2, UpdateType DEF SetHeader, IInv, TypeOK
  <2>. QED BY <2>1, <2>2
<1>4. /\ Signed(headers') <=> Signed(headers)
      /\ Signed(headers) => headers'["sign"] = headers["sign"]
  BY <1>1 DEF RemoveHeader, SetHeader, UpdataHeaders, DeleteHeaders, Signed
<1>5. HeadersLeft'
  <2>1. Len(requests) \in Nat
    BY DEF IInv
  <2>. QED BY <1>2, <1>4, <2>1, LeftOther DEF IInv, HeadersLeft
<1>. QED BY <1>2, <1>3, <1>5 DEF IInv, TypeOK, OwnSignature
-----------------------------------------------------------------------------
\* The three ways to send a request.
LEMMA QueryKeeps ==
    ASSUME IInv, NEW p \in Parameters, Query(p)
    PROVE  IInv'
<1>. DEFINE r(h) == [kind |-> "query", params |-> p, headers |-> h,
                     answer |-> "none", promise |-> Pending]
<1>1. PICK h : h = ParametersEncrypt(p)
  OBVIOUS
<1>2. Send("query", p, h)
  BY <1>1 DEF Query
<1>3. h \in HeaderMap /\ HeadersOK(h)
  <2>1. CASE DOMAIN p = {}
    BY <1>1, <2>1 DEF ParametersEncrypt, IInv, TypeOK
  <2>2. CASE DOMAIN p # {}
    BY <1>1, <2>2, SignOfType, UpdateType DEF ParametersEncrypt, IInv, TypeOK
  <2>. QED BY <2>1, <2>2
<1>4. /\ Len(requests) \in Nat
      /\ \A j \in 1..Len(requests) : requests'[j] = requests[j]
      /\ requests'[Len(requests) + 1] = r(h)
  BY <1>2 DEF IInv, Send
<1>5. LeftBy(requests', Len(requests) + 1, h)
  <2>1. CASE DOMAIN p = {}
    <3>1. h = headers
      BY <1>1, <2>1 DEF ParametersEncrypt
    <3>2. LeftBy(requests', Len(requests), h)
      BY <1>4, <3>1, LeftKept DEF IInv, HeadersLeft
    <3>3. ~Signs(requests'[Len(requests) + 1]) /\ ~Clears(requests'[Len(requests) + 1])
      BY <1>4, <2>1 DEF Signs, Clears
    <3>. QED BY <1>4, <3>2, <3>3, LeftStays
  <2>2. CASE DOMAIN p # {}
    <3>1. Signed(h) /\ h["sign"] = SignOf(p)
      BY <1>1, <2>2 DEF ParametersEncrypt, UpdataHeaders, Signed
    <3>2. /\ Signs(requests'[Len(requests) + 1])
          /\ h["sign"] = SignOf(requests'[Len(requests) + 1].params)
      BY <1>4, <2>2, <3>1 DEF Signs
    <3>3. Len(requests) + 1 \in 1..(Len(requests) + 1)
      BY <1>4
    <3>4. \A k \in (Len(requests) + 1 + 1)..(Len(requests) + 1) : FALSE
      BY <1>4
    <3>. QED BY <3>1, <3>2, <3>3, <3>4 DEF LeftBy
  <2>. QED BY <2>1, <2>2
<1>6. DOMAIN p # {} => Signed(h)
  BY <1>1 DEF ParametersEncrypt, UpdataHeaders, Signed
<1>. QED BY <1>2, <1>3, <1>5, <1>6, SendKeeps

LEMMA BodyKeeps ==
    ASSUME IInv, Body
    PROVE  IInv'
<1>1. PICK h : h = ParamsEncrypt
  OBVIOUS
<1>2. Send("body", <<>>, h)
  BY <1>1 DEF Body
<1>3. h \in HeaderMap /\ HeadersOK(h)
  BY <1>1, DeleteType DEF ParamsEncrypt, IInv, TypeOK
<1>4. Len(requests) \in Nat /\ Clears(requests'[Len(requests) + 1])
  BY <1>2 DEF IInv, Send, Clears
<1>5. LeftBy(requests', Len(requests) + 1, h)
  <2>1. ~Signed(h)
    BY <1>1 DEF ParamsEncrypt, DeleteHeaders, Signed
  <2>. QED BY <2>1 DEF LeftBy
<1>6. <<>> \in Parameters
  BY DEF Parameters
<1>. QED BY <1>2, <1>3, <1>5, <1>6, SendKeeps

LEMMA UploadKeeps ==
    ASSUME IInv, Upload
    PROVE  IInv'
<1>1. PICK h : h = headers
  OBVIOUS
<1>2. Send("upload", <<>>, h)
  BY <1>1 DEF Upload
<1>3. h \in HeaderMap /\ HeadersOK(h)
  BY <1>1 DEF IInv, TypeOK
<1>4. /\ Len(requests) \in Nat
      /\ \A j \in 1..Len(requests) : requests'[j] = requests[j]
      /\ requests'[Len(requests) + 1].kind = "upload"
  BY <1>2 DEF IInv, Send
<1>5. LeftBy(requests', Len(requests), h)
  BY <1>1, <1>4, LeftKept DEF IInv, HeadersLeft
<1>6. LeftBy(requests', Len(requests) + 1, h)
  BY <1>4, <1>5, LeftStays DEF Signs, Clears
<1>7. <<>> \in Parameters
  BY DEF Parameters
<1>. QED BY <1>2, <1>3, <1>6, <1>7, SendKeeps

\* The inductive invariant holds in every state.
THEOREM Invariance == Spec => []IInv
<1>1. Init => IInv
  <2>1. SUFFICES ASSUME Init PROVE IInv
    OBVIOUS
  <2>2. requests = <<>> /\ headers = <<>> /\ DOMAIN headers = {}
    BY <2>1 DEF Init
  <2>3. headers \in [{} -> Signature \cup HeaderValue]
    BY <2>2
  <2>4. headers \in HeaderMap
    BY <2>3 DEF HeaderMap
  <2>5. HeadersOK(headers)
    BY <2>2 DEF HeadersOK, Signed
  <2>6. Len(requests) = 0 /\ DOMAIN requests = {} /\ requests \in Seq(Record)
    BY <2>2
  <2>7. HeadersLeft
    BY <2>2, <2>6 DEF HeadersLeft, LeftBy, Signed
  <2>. QED BY <2>4, <2>5, <2>6, <2>7 DEF IInv, TypeOK, OwnSignature
<1>2. IInv /\ [Next]_vars => IInv'
  <2>1. SUFFICES ASSUME IInv, [Next]_vars PROVE IInv'
    OBVIOUS
  <2>2. ASSUME NEW p \in Parameters, Query(p) PROVE IInv'
    BY <2>1, <2>2, QueryKeeps
  <2>3. CASE Body
    BY <2>1, <2>3, BodyKeeps
  <2>4. CASE Upload
    BY <2>1, <2>4, UploadKeeps
  <2>5. ASSUME NEW h \in Other,
               RemoveHeader(h) \/ \E v \in HeaderValue : SetHeader(h, v)
        PROVE  IInv'
    BY <2>1, <2>5, HeaderKeeps
  <2>6. ASSUME NEW i \in DOMAIN requests, Respond(i) PROVE IInv'
    BY <2>1, <2>6, RespondKeeps
  <2>7. CASE UNCHANGED vars
    BY <2>1, <2>7 DEF vars, IInv, TypeOK, HeadersLeft, OwnSignature
  <2>. QED BY <2>1, <2>2, <2>3, <2>4, <2>5, <2>6, <2>7 DEF Next
<1>. QED BY <1>1, <1>2, PTL DEF Spec

\* The header set and the requests of the client keep their types.
THEOREM TypeCorrect == Spec => []TypeOK
<1>1. IInv => TypeOK
  BY DEF IInv
<1>. QED BY <1>1, Invariance, PTL

\* A query with parameters carries their own signature and a request with a
\* body none, however many requests were sent before; a signature left in the
\* headers goes with the next body or query with parameters.
THEOREM SignatureCorrect == Spec => []OwnSignature
<1>1. IInv => OwnSignature
  BY DEF IInv
<1>. QED BY <1>1, Invariance, PTL
=============================================================================
