---------------------------- MODULE ReportsProofs ----------------------------
(***************************************************************************)
(* Proofs about Reports, for any number of tests, requests and results.    *)
(***************************************************************************)
EXTENDS Reports, TLAPS

(* A result is no state of a file, no error and not None. *)
Apart == /\ None \notin Requests /\ None \notin Results
         /\ Results \cap {"none", "empty", "part", "error"} = {}

-----------------------------------------------------------------------------
(* Where a request is in the call that makes the report.                   *)
Reading  == {"Candidate", "Narrative", "Render", "Open", "Write"}
Making   == {"GetTest", "GetResult"} \cup Reading
Calling  == {"ReadFile", "return"} \cup Making

(* A call belongs to the request the group knows for its test.             *)
OneCall ==
  \A r \in Requests : req[r].pc \in Calling => req[r].test \in Tests /\ flight[req[r].test] = r

HasTest == \A r \in Requests : req[r].pc # "idle" => req[r].test \in Tests

(* Who makes a report saw no whole file, and its result is known.          *)
MakesNew == \A r \in Requests : req[r].pc \in Making => pdf[req[r].test] \notin Results
ReadsResult ==
  \A r \in Requests : /\ req[r].pc = "GetResult" => latest[req[r].test] \in Results
                      /\ req[r].pc \in Reading => req[r].read \in Results

Calls == OneCall /\ HasTest /\ MakesNew /\ ReadsResult
IInv  == TypeOK /\ Calls

LEMMA InitIInv == ASSUME Init PROVE IInv
BY DEF Init, IInv, TypeOK, Calls, OneCall, HasTest, MakesNew, ReadsResult, Calling, Making,
       Reading, File, Request, Idle, PC

-----------------------------------------------------------------------------
(* Changed requests.                                                       *)

LEMMA Gone ==
  ASSUME TypeOK, NEW r \in Requests, NEW l \in PC, Goto(r, l)
  PROVE  \E c \in Request :
           /\ req' = [req EXCEPT ![r] = c]
           /\ c.pc = l /\ c.test = req[r].test /\ c.read = req[r].read
           /\ c.value = req[r].value /\ c.sent = req[r].sent /\ c.how = req[r].how
<1> DEFINE c == [req[r] EXCEPT !.pc = l]
<1>1. /\ c \in Request /\ c.pc = l /\ c.test = req[r].test /\ c.read = req[r].read
      /\ c.value = req[r].value /\ c.sent = req[r].sent /\ c.how = req[r].how
  BY DEF TypeOK, Request
<1>2. req' = [req EXCEPT ![r] = c]
  BY DEF Goto
<1> HIDE DEF c
<1> QED BY <1>1, <1>2

LEMMA Returned ==
  ASSUME TypeOK, NEW r \in Requests, NEW v \in File \cup {"error"}, Return(r, v)
  PROVE  \E c \in Request :
           /\ req' = [req EXCEPT ![r] = c]
           /\ c.pc = "return" /\ c.test = req[r].test /\ c.read = req[r].read
           /\ c.value = v /\ c.sent = req[r].sent /\ c.how = req[r].how
<1> DEFINE c == [req[r] EXCEPT !.pc = "return", !.value = v]
<1>1. /\ c \in Request /\ c.pc = "return" /\ c.test = req[r].test /\ c.read = req[r].read
      /\ c.value = v /\ c.sent = req[r].sent /\ c.how = req[r].how
  BY DEF TypeOK, Request, PC
<1>2. req' = [req EXCEPT ![r] = c]
  BY DEF Return
<1> HIDE DEF c
<1> QED BY <1>1, <1>2

(* A call goes on or returns, and writes at most the file of its own test, *)
(* which is not whole.                                                     *)
CallStep(r) ==
  \E c \in Request :
    /\ req' = [req EXCEPT ![r] = c]
    /\ c.pc \in Calling /\ c.test = req[r].test
    /\ c.pc = "GetResult" => latest[c.test] \in Results
    /\ c.pc \in Reading => c.read \in Results
    /\ c.pc \in Making => pdf'[c.test] \notin Results

LEMMA CallStepKeeps ==
  ASSUME Apart, IInv, NEW r \in Requests, req[r].pc \in Calling, CallStep(r),
         UNCHANGED <<latest, flight>>, pdf' \in [Tests -> File],
         \A t \in Tests : t # req[r].test => pdf'[t] = pdf[t]
  PROVE  IInv'
<1> USE DEF IInv
<1>1. PICK c \in Request :
        /\ req' = [req EXCEPT ![r] = c]
        /\ c.pc \in Calling /\ c.test = req[r].test
        /\ c.pc = "GetResult" => latest[c.test] \in Results
        /\ c.pc \in Reading => c.read \in Results
        /\ c.pc \in Making => pdf'[c.test] \notin Results
  BY DEF CallStep
<1>2. TypeOK'
  BY <1>1 DEF TypeOK
<1>3. req[r].test \in Tests /\ flight[req[r].test] = r
  BY DEF Calls, OneCall
<1>4. OneCall' /\ HasTest' /\ ReadsResult'
  BY <1>1, <1>3 DEF TypeOK, Calls, OneCall, HasTest, ReadsResult
<1>5. MakesNew'
  <2> SUFFICES ASSUME NEW x \in Requests, req'[x].pc \in Making
               PROVE  pdf'[req'[x].test] \notin Results
    BY DEF MakesNew
  <2>1. CASE x = r
    BY <1>1, <2>1 DEF TypeOK
  <2>2. CASE x # r
    <3>1. req'[x] = req[x]
      BY <1>1, <2>2 DEF TypeOK
    <3>2. req[x].test \in Tests /\ flight[req[x].test] = x
      BY <3>1 DEF Calls, OneCall, Calling
    <3> QED BY <1>3, <2>2, <3>1, <3>2 DEF Calls, MakesNew
  <2> QED BY <2>1, <2>2
<1> QED BY <1>2, <1>4, <1>5 DEF Calls

LEMMA GoesOnKeeps ==
  ASSUME Apart, IInv, NEW r \in Requests, NEW l \in Reading, NEW m \in Reading, GoesOn(r, l, m)
  PROVE  IInv'
<1> USE DEF IInv
<1>1. req[r].pc \in Calling /\ req[r].pc \in Making /\ req[r].pc \in Reading
  BY DEF GoesOn, At, Calling, Making
<1>2. CallStep(r)
  <2>1. CASE Goto(r, m)
    <3>1. m \in PC /\ m # "GetResult"
      BY DEF Reading, PC
    <3> QED BY <1>1, <2>1, <3>1, Gone
            DEF GoesOn, CallStep, Calls, MakesNew, ReadsResult, Calling, Making
  <2>2. CASE Return(r, "error")
    BY <2>2, Returned DEF CallStep, Calling, Making, Reading
  <2> QED BY <2>1, <2>2 DEF GoesOn, Fails
<1> QED BY <1>1, <1>2, CallStepKeeps DEF GoesOn, TypeOK

LEMMA GenerateKeeps ==
  ASSUME Apart, IInv, NEW r \in Requests,
         \/ ReadFile(r) \/ GetTest(r) \/ GetResult(r) \/ GetCandidate(r) \/ GenerateNarrative(r)
         \/ RenderPDF(r) \/ OpenFile(r) \/ WritePart(r) \/ WriteRest(r)
  PROVE  IInv'
<1> USE DEF IInv
<1>1. CASE ReadFile(r)
  <2>1. CASE Return(r, pdf[Test(r)])
    <3>1. req[r].pc \in Calling /\ Test(r) \in Tests
      BY <1>1 DEF ReadFile, At, Test, Calling, Calls, OneCall
    <3>2. CallStep(r)
      BY <2>1, <3>1, Returned DEF CallStep, TypeOK, Calling, Making, Reading
    <3> QED BY <1>1, <3>1, <3>2, CallStepKeeps DEF ReadFile, TypeOK
  <2>2. CASE ~Cached(Test(r)) /\ Goto(r, "GetTest")
    <3>1. req[r].pc \in Calling /\ Test(r) \in Tests /\ "GetTest" \in PC
      BY <1>1 DEF ReadFile, At, Test, Calling, Calls, OneCall, PC
    <3>2. pdf[Test(r)] \notin Results
      BY <2>2 DEF Cached, Apart
    <3>3. CallStep(r)
      BY <1>1, <2>2, <3>1, <3>2, Gone DEF ReadFile, CallStep, Test, Calling, Making, Reading
    <3> QED BY <1>1, <3>1, <3>3, CallStepKeeps DEF ReadFile, TypeOK
  <2> QED BY <1>1, <2>1, <2>2 DEF ReadFile
<1>2. CASE GetTest(r)
  <2>1. /\ req[r].pc = "GetTest" /\ req[r].pc \in Calling /\ req[r].pc \in Making
        /\ Test(r) \in Tests /\ "GetResult" \in PC
    BY <1>2 DEF GetTest, At, Test, Calling, Making, Calls, OneCall, PC
  <2>2. CASE latest[Test(r)] # None /\ Goto(r, "GetResult")
    <3>1. latest[Test(r)] \in Results
      BY <2>1, <2>2 DEF TypeOK
    <3>2. CallStep(r)
      BY <1>2, <2>1, <2>2, <3>1, Gone
      DEF GetTest, CallStep, Test, Calls, MakesNew, Calling, Making, Reading
    <3> QED BY <1>2, <2>1, <3>2, CallStepKeeps DEF GetTest, TypeOK
  <2>3. CASE Return(r, "error")
    <3>1. CallStep(r)
      BY <2>3, Returned DEF CallStep, Calling, Making, Reading
    <3> QED BY <1>2, <2>1, <3>1, CallStepKeeps DEF GetTest, TypeOK
  <2> QED BY <1>2, <2>2, <2>3 DEF GetTest, Fails
<1>3. CASE GetResult(r)
  <2>1. /\ req[r].pc = "GetResult" /\ req[r].pc \in Calling /\ req[r].pc \in Making
        /\ Test(r) \in Tests /\ latest[Test(r)] \in Results
    BY <1>3 DEF GetResult, At, Test, Calling, Making, Calls, OneCall, ReadsResult
  <2>2. CASE req' = [req EXCEPT ![r].pc = "Candidate", ![r].read = latest[Test(r)]]
    <3> DEFINE c == [req[r] EXCEPT !.pc = "Candidate", !.read = latest[Test(r)]]
    <3>1. c \in Request /\ c.pc = "Candidate" /\ c.test = req[r].test /\ c.read \in Results
      BY <2>1 DEF TypeOK, Request, PC
    <3>2. req' = [req EXCEPT ![r] = c]
      BY <2>2
    <3> HIDE DEF c
    <3>3. CallStep(r)
      BY <1>3, <2>1, <3>1, <3>2
      DEF GetResult, CallStep, Calls, MakesNew, Calling, Making, Reading
    <3> QED BY <1>3, <2>1, <3>3, CallStepKeeps DEF GetResult, TypeOK
  <2>3. CASE Return(r, "error")
    <3>1. CallStep(r)
      BY <2>3, Returned DEF CallStep, Calling, Making, Reading
    <3> QED BY <1>3, <2>1, <3>1, CallStepKeeps DEF GetResult, TypeOK
  <2> QED BY <1>3, <2>2, <2>3 DEF GetResult, Fails
<1>4. CASE GetCandidate(r) \/ GenerateNarrative(r) \/ RenderPDF(r)
  BY <1>4, GoesOnKeeps DEF GetCandidate, GenerateNarrative, RenderPDF, Reading
<1>5. CASE OpenFile(r)
  <2>1. /\ req[r].pc \in Calling /\ req[r].pc \in Making /\ req[r].pc \in Reading
        /\ Test(r) \in Tests /\ "Write" \in PC
    BY <1>5 DEF OpenFile, At, Test, Calling, Making, Reading, Calls, OneCall, PC
  <2>2. CASE pdf' = [pdf EXCEPT ![Test(r)] = "empty"] /\ Goto(r, "Write")
    <3>1. pdf' \in [Tests -> File] /\ pdf'[Test(r)] \notin Results
      BY <2>1, <2>2 DEF TypeOK, File, Apart
    <3>2. CallStep(r)
      BY <2>1, <2>2, <3>1, Gone
      DEF CallStep, Test, Calls, ReadsResult, Calling, Making, Reading
    <3> QED BY <1>5, <2>1, <2>2, <3>1, <3>2, CallStepKeeps DEF OpenFile, TypeOK, Test
  <2>3. CASE Return(r, "error") /\ UNCHANGED pdf
    <3>1. CallStep(r)
      BY <2>3, Returned DEF CallStep, Calling, Making, Reading
    <3> QED BY <1>5, <2>1, <2>3, <3>1, CallStepKeeps DEF OpenFile, TypeOK
  <2> QED BY <1>5, <2>2, <2>3 DEF OpenFile, Fails
<1>6. CASE WritePart(r)
  <2>1. /\ req[r].pc \in Calling /\ req[r].pc \in Making /\ req[r].pc \in Reading
        /\ Test(r) \in Tests /\ "Write" \in PC
    BY <1>6 DEF WritePart, At, Test, Calling, Making, Reading, Calls, OneCall, PC
  <2>2. pdf' \in [Tests -> File] /\ pdf'[Test(r)] \notin Results
    BY <1>6, <2>1 DEF WritePart, TypeOK, File, Apart
  <2>3. CallStep(r)
    <3>1. CASE Goto(r, "Write")
      BY <2>1, <2>2, <3>1, Gone
      DEF CallStep, Test, Calls, ReadsResult, Calling, Making, Reading
    <3>2. CASE Return(r, "error")
      BY <3>2, Returned DEF CallStep, Calling, Making, Reading
    <3> QED BY <1>6, <3>1, <3>2 DEF WritePart
  <2> QED BY <1>6, <2>1, <2>2, <2>3, CallStepKeeps DEF WritePart, TypeOK, Test
<1>7. CASE WriteRest(r)
  <2>1. /\ req[r].pc \in Calling /\ req[r].read \in Results /\ Test(r) \in Tests
    BY <1>7 DEF WriteRest, At, Test, Calling, Making, Reading, Calls, OneCall, ReadsResult
  <2>2. pdf' \in [Tests -> File]
    BY <1>7, <2>1 DEF WriteRest, TypeOK, File
  <2>3. CallStep(r)
    BY <1>7, <2>1, Returned DEF WriteRest, CallStep, File, Calling, Making, Reading
  <2> QED BY <1>7, <2>1, <2>2, <2>3, CallStepKeeps DEF WriteRest, TypeOK, Test
<1> QED BY <1>1, <1>2, <1>3, <1>4, <1>5, <1>6, <1>7

-----------------------------------------------------------------------------
(* The group, the handlers and the process.                                *)

(* A request outside a call takes the place of another one. *)
LEMMA OutsideKeeps ==
  ASSUME IInv, NEW r \in Requests, NEW c \in Request,
         c.pc \notin Calling, c.pc # "idle" => c.test \in Tests,
         req' = [req EXCEPT ![r] = c], UNCHANGED <<latest, pdf, flight>>
  PROVE  IInv'
<1>1. Making \subseteq Calling /\ Reading \subseteq Calling /\ "GetResult" \in Calling
  BY DEF Calling, Making
<1> QED BY <1>1 DEF IInv, TypeOK, Calls, OneCall, HasTest, MakesNew, ReadsResult

LEMMA IdleTyped == Idle \in Request /\ Idle.pc = "idle"
BY DEF Idle, Request, PC, File

LEMMA OutcomeTyped ==
  ASSUME TypeOK, NEW r \in Requests, NEW v \in File \cup {"error"}
  PROVE  /\ Outcome(r, v) \in Request
         /\ Outcome(r, v).pc \in {"serve", "answered"}
         /\ Outcome(r, v).test = req[r].test
         /\ Outcome(r, v).value = v
         /\ Outcome(r, v).sent = IF v = "error" THEN v ELSE req[r].sent
         /\ Outcome(r, v).pc = "serve" => v # "error"
<1>1. PICK l \in {"serve", "answered"} :
        /\ l = IF v # "error" /\ req[r].how = "get" THEN "serve" ELSE "answered"
  OBVIOUS
<1>2. PICK s \in File \cup {"error"} : s = IF v = "error" THEN v ELSE req[r].sent
  BY DEF TypeOK, Request
<1> DEFINE c == [req[r] EXCEPT !.value = v, !.pc = l, !.sent = s]
<1>3. c \in Request /\ c.pc = l /\ c.test = req[r].test /\ c.value = v /\ c.sent = s
  BY DEF TypeOK, Request, PC
<1>4. Outcome(r, v) = c
  BY <1>1, <1>2 DEF Outcome
<1> HIDE DEF c
<1> QED BY <1>1, <1>2, <1>3, <1>4

LEMMA GenerateReportKeeps ==
  ASSUME Apart, IInv, NEW r \in Requests, GenerateReport(r)
  PROVE  IInv'
<1> USE DEF IInv
<1>1. req[r].pc = "call" /\ req[r].test \in Tests
  BY DEF GenerateReport, At, Calls, HasTest
<1>2. CASE flight[Test(r)] # None /\ Goto(r, "wait")
  <2>1. "wait" \in PC /\ "wait" \notin Calling
    BY DEF PC, Calling, Making, Reading
  <2> QED BY <1>1, <1>2, <2>1, Gone, OutsideKeeps DEF GenerateReport
<1>3. CASE /\ flight[Test(r)] = None
           /\ flight' = [flight EXCEPT ![Test(r)] = r]
           /\ Goto(r, "ReadFile")
  <2>1. "ReadFile" \in PC /\ "ReadFile" \in Calling /\ "ReadFile" \notin Making
        /\ "ReadFile" # "GetResult" /\ "ReadFile" \notin Reading
    BY DEF PC, Calling, Making, Reading
  <2>2. PICK c \in Request : req' = [req EXCEPT ![r] = c] /\ c.pc = "ReadFile" /\ c.test = Test(r)
    BY <1>3, <2>1, Gone DEF Test
  <2>3. TypeOK'
    BY <1>1, <1>3, <2>2 DEF GenerateReport, TypeOK, Test
  <2>4. OneCall'
    BY <1>1, <1>3, <2>2 DEF GenerateReport, TypeOK, Test, Calls, OneCall, Apart
  <2>5. HasTest' /\ MakesNew' /\ ReadsResult'
    BY <1>1, <2>1, <2>2 DEF GenerateReport, TypeOK, Test, Calls, HasTest, MakesNew, ReadsResult
  <2> QED BY <2>3, <2>4, <2>5 DEF Calls
<1> QED BY <1>2, <1>3 DEF GenerateReport

(* Nobody else is in a call for the same test. *)
LEMMA EndCallKeeps ==
  ASSUME Apart, IInv, NEW r \in Requests, EndCall(r)
  PROVE  IInv'
<1> USE DEF IInv
<1>1. /\ req[r].pc = "return" /\ req[r].value \in File \cup {"error"}
      /\ req[r].test \in Tests /\ flight[req[r].test] = r
  BY DEF EndCall, At, TypeOK, Request, Calls, OneCall, Calling
<1> DEFINE v == req[r].value
           woken(q) == q = r \/ (At(q, "wait") /\ Test(q) = Test(r))
<1>2. req' \in [Requests -> Request]
      /\ \A q \in Requests : req'[q] = IF woken(q) THEN Outcome(q, v) ELSE req[q]
  <2>1. \A q \in Requests : Outcome(q, v) \in Request /\ req[q] \in Request
    BY <1>1, OutcomeTyped DEF TypeOK
  <2>2. req' = [q \in Requests |-> IF woken(q) THEN Outcome(q, v) ELSE req[q]]
    BY DEF EndCall
  <2> HIDE DEF v, woken
  <2> QED BY <2>1, <2>2
<1>3. \A q \in Requests : woken(q) => req'[q].pc \notin Calling /\ req'[q].test = req[q].test
                                      /\ req[q].pc # "idle"
  <2> SUFFICES ASSUME NEW q \in Requests, woken(q)
               PROVE  req'[q].pc \notin Calling /\ req'[q].test = req[q].test
                      /\ req[q].pc # "idle"
    OBVIOUS
  <2>1. Outcome(q, v).pc \in {"serve", "answered"} /\ Outcome(q, v).test = req[q].test
    BY <1>1, OutcomeTyped
  <2>2. req'[q] = Outcome(q, v)
    BY <1>2
  <2> QED BY <1>1, <2>1, <2>2 DEF Calling, Making, Reading, At
<1>4. \A q \in Requests : ~woken(q) => req'[q] = req[q]
  BY <1>2
<1>5. flight' = [flight EXCEPT ![req[r].test] = None] /\ UNCHANGED <<latest, pdf>>
  BY DEF EndCall, Test
<1>6. woken(r)
  OBVIOUS
<1> HIDE DEF v, woken
<1>7. TypeOK'
  BY <1>2, <1>5 DEF TypeOK
<1>8. OneCall'
  <2> SUFFICES ASSUME NEW q \in Requests, req'[q].pc \in Calling
               PROVE  req'[q].test \in Tests /\ flight'[req'[q].test] = q
    BY DEF OneCall
  <2>1. q # r /\ req'[q] = req[q]
    BY <1>3, <1>4, <1>6
  <2>2. req[q].test \in Tests /\ flight[req[q].test] = q
    BY <2>1 DEF Calls, OneCall
  <2> QED BY <1>1, <1>5, <2>1, <2>2 DEF TypeOK
<1>9. HasTest' /\ MakesNew' /\ ReadsResult'
  <2>1. Making \subseteq Calling /\ Reading \subseteq Calling /\ "GetResult" \in Calling
    BY DEF Calling, Making
  <2> QED BY <1>3, <1>4, <1>5, <2>1 DEF Calls, HasTest, MakesNew, ReadsResult
<1> QED BY <1>7, <1>8, <1>9 DEF Calls

LEMMA HandlerKeeps ==
  ASSUME Apart, IInv, NEW r \in Requests,
         \/ \E t \in Tests : PostGenerate(r, t) \/ GetReportPDF(r, t)
         \/ ServeFile(r) \/ Leaves(r)
  PROVE  IInv'
<1> USE DEF IInv
<1>1. {"call", "serve", "answered", "idle"} \cap Calling = {}
  BY DEF Calling, Making, Reading
<1>2. ASSUME NEW t \in Tests, NEW l \in {"call", "serve"}, NEW h \in {"post", "get"},
             req' = [req EXCEPT ![r] = [Idle EXCEPT !.pc = l, !.test = t, !.how = h]],
             UNCHANGED <<latest, pdf, flight>>
      PROVE  IInv'
  <2> DEFINE c == [Idle EXCEPT !.pc = l, !.test = t, !.how = h]
  <2>1. c \in Request /\ c.pc = l /\ c.test = t
    BY DEF Idle, Request, PC, File
  <2>2. req' = [req EXCEPT ![r] = c]
    BY <1>2
  <2> HIDE DEF c
  <2> QED BY <1>1, <1>2, <2>1, <2>2, OutsideKeeps
<1>3. ASSUME NEW t \in Tests, PostGenerate(r, t) PROVE IInv'
  BY <1>2, <1>3 DEF PostGenerate
<1>4. ASSUME NEW t \in Tests, GetReportPDF(r, t) PROVE IInv'
  <2>1. PICK l \in {"call", "serve"} :
          req' = [req EXCEPT ![r] = [Idle EXCEPT !.pc = l, !.test = t, !.how = "get"]]
    BY <1>4 DEF GetReportPDF
  <2> QED BY <1>2, <1>4, <2>1 DEF GetReportPDF
<1>5. CASE ServeFile(r)
  <2>1. req[r].test \in Tests
    BY <1>5 DEF ServeFile, At, Calls, HasTest
  <2> DEFINE c == [req[r] EXCEPT !.pc = "answered", !.sent = pdf[Test(r)]]
  <2>2. c \in Request /\ c.pc = "answered" /\ c.test = req[r].test
    BY <2>1 DEF TypeOK, Request, PC, Test
  <2>3. req' = [req EXCEPT ![r] = c]
    BY <1>5 DEF ServeFile
  <2> HIDE DEF c
  <2> QED BY <1>1, <1>5, <2>1, <2>2, <2>3, OutsideKeeps DEF ServeFile
<1>6. CASE Leaves(r)
  BY <1>1, <1>6, IdleTyped, OutsideKeeps DEF Leaves
<1> QED BY <1>3, <1>4, <1>5, <1>6

LEMMA NextIInv == ASSUME Apart, IInv, [Next]_vars PROVE IInv'
<1>1. CASE UNCHANGED vars
  BY <1>1 DEF vars, IInv, TypeOK, Calls, OneCall, HasTest, MakesNew, ReadsResult
<1>2. ASSUME NEW t \in Tests, ResultChanges(t) PROVE IInv'
  BY <1>2 DEF ResultChanges, IInv, TypeOK, Calls, OneCall, HasTest, MakesNew, ReadsResult
<1>3. CASE Crash
  <2>1. "idle" \notin Calling /\ "idle" \notin Making /\ "idle" \notin Reading
    BY DEF Calling, Making, Reading
  <2> QED
    BY <1>3, <2>1, IdleTyped DEF Crash, IInv, TypeOK, Calls, OneCall, HasTest, MakesNew, ReadsResult
<1>4. ASSUME NEW r \in Requests, Step(r) PROVE IInv'
  BY <1>4, GenerateKeeps, GenerateReportKeeps, EndCallKeeps, HandlerKeeps DEF Step
<1> QED BY <1>1, <1>2, <1>3, <1>4, HandlerKeeps DEF Next

LEMMA Invariant == ASSUME Apart PROVE Spec => []IInv
BY InitIInv, NextIInv, PTL DEF Spec

(* Files, calls and requests stay well typed, and what a file says is a    *)
(* result or a broken write (service.go:51-160).                           *)
THEOREM TypeCorrect == ASSUME Apart PROVE Spec => []TypeOK
<1>1. IInv => TypeOK
  BY DEF IInv
<1> QED BY <1>1, Invariant, PTL

-----------------------------------------------------------------------------
(* Reports that stay.                                                      *)

LEMMA ReportKept == ASSUME Apart, IInv, Next PROVE ReportIsKept
<1> USE DEF IInv
<1>1. ASSUME NEW r \in Requests, OpenFile(r) \/ WritePart(r) \/ WriteRest(r)
      PROVE  ReportIsKept
  <2>1. req[r].pc \in Making
    BY <1>1 DEF OpenFile, WritePart, WriteRest, At, Making, Reading
  <2>2. pdf[Test(r)] \notin Results
    BY <2>1 DEF Calls, MakesNew, Test
  <2> QED BY <1>1, <2>2 DEF OpenFile, WritePart, WriteRest, ReportIsKept, TypeOK
<1>2. CASE UNCHANGED pdf
  BY <1>2 DEF ReportIsKept
<1>3. ASSUME NEW r \in Requests, Step(r),
             ~(OpenFile(r) \/ WritePart(r) \/ WriteRest(r))
      PROVE  UNCHANGED pdf
  BY <1>3 DEF Step, GenerateReport, EndCall, ReadFile, GetTest, GetResult, GetCandidate,
              GenerateNarrative, RenderPDF, GoesOn, ServeFile
<1>4. CASE \/ \E t \in Tests : ResultChanges(t)
           \/ \E r \in Requests : \/ \E t \in Tests : PostGenerate(r, t) \/ GetReportPDF(r, t)
                                  \/ Leaves(r)
           \/ Crash
  BY <1>2, <1>4 DEF ResultChanges, PostGenerate, GetReportPDF, Leaves, Crash
<1> QED BY <1>1, <1>2, <1>3, <1>4 DEF Next

(* A report that was written is the report for good: no request, no        *)
(* failure and no restart writes over it, and none makes it again when the *)
(* result changed (service.go:64).                                         *)
THEOREM ReportsStay == ASSUME Apart PROVE Spec => ReportStays
<1>1. IInv /\ [Next]_vars => [ReportIsKept]_vars
  BY ReportKept
<1> QED BY <1>1, Invariant, PTL DEF Spec, ReportStays

-----------------------------------------------------------------------------
(* Whole reports, where no write breaks off.                               *)

(* What a request has is a whole report, an error or nothing yet.          *)
Good(q, p) ==
  /\ q.value \in Results \cup {"none", "error"}
  /\ q.sent \in {"empty", "part"} => q.value = "none" /\ q.pc = "answered"
  /\ q.pc = "return" => q.value # "none"
  /\ q.pc = "serve" => q.value # "error"
  /\ q.pc \in {"return", "serve"} /\ q.value \in Results => p[q.test] \in Results

AllGood == \A r \in Requests : Good(req[r], pdf)

(* A file half written is being written. *)
PartIsWritten ==
  \A t \in Tests : pdf[t] = "part" => \E r \in Requests : req[r].pc = "Write" /\ req[r].test = t

WInv == AllGood /\ PartIsWritten

LEMMA InitWInv == ASSUME Apart, Init PROVE WInv
BY DEF Init, Idle, WInv, AllGood, Good, PartIsWritten, Apart

LEMMA WInvWhole == ASSUME WInv PROVE WholeReport
BY DEF WInv, AllGood, Good, WholeReport

(* A step of one request leaves the others as good as they were. *)
LEMMA OneGood ==
  ASSUME Apart, IInv, WInv, ReportIsKept, NEW r \in Requests, NEW c \in Request,
         req' = [req EXCEPT ![r] = c], Good(c, pdf')
  PROVE  AllGood'
<1> USE DEF IInv, WInv
<1> SUFFICES ASSUME NEW q \in Requests PROVE Good(req'[q], pdf')
  BY DEF AllGood
<1>1. CASE q = r
  BY <1>1 DEF TypeOK
<1>2. CASE q # r
  <2>1. req'[q] = req[q] /\ Good(req[q], pdf)
    BY <1>2 DEF TypeOK, AllGood
  <2>2. req[q].pc \in {"return", "serve"} => req[q].test \in Tests
    BY DEF Calls, HasTest
  <2> QED BY <2>1, <2>2 DEF Good, ReportIsKept, Apart
<1> QED BY <1>1, <1>2

LEMMA WriterStays ==
  ASSUME Apart, IInv, WInv, NEW r \in Requests, NEW c \in Request,
         req' = [req EXCEPT ![r] = c], req[r].pc # "Write" \/ pdf'[req[r].test] # "part",
         \A t \in Tests : pdf'[t] = "part" => pdf[t] = "part"
  PROVE  PartIsWritten'
<1> USE DEF IInv, WInv
<1> SUFFICES ASSUME NEW t \in Tests, pdf'[t] = "part"
             PROVE  \E q \in Requests : req'[q].pc = "Write" /\ req'[q].test = t
  BY DEF PartIsWritten
<1>1. PICK q \in Requests : req[q].pc = "Write" /\ req[q].test = t
  BY DEF PartIsWritten
<1>2. q # r
  BY <1>1
<1> QED BY <1>1, <1>2 DEF TypeOK

(* Steps that do not write. *)
LEMMA OutsideWInv ==
  ASSUME Apart, IInv, WInv, NEW r \in Requests, NEW c \in Request,
         req' = [req EXCEPT ![r] = c], UNCHANGED pdf, req[r].pc # "Write", Good(c, pdf)
  PROVE  WInv'
<1>1. ReportIsKept
  BY DEF ReportIsKept
<1> QED BY <1>1, OneGood, WriterStays DEF WInv

LEMMA GotoWInv ==
  ASSUME Apart, IInv, WInv, NEW r \in Requests, NEW l \in PC \ {"return", "serve", "answered"},
         Goto(r, l), UNCHANGED pdf, req[r].pc \notin {"Write", "answered"}
  PROVE  WInv'
<1>1. PICK c \in Request :
        /\ req' = [req EXCEPT ![r] = c]
        /\ c.pc = l /\ c.test = req[r].test
        /\ c.value = req[r].value /\ c.sent = req[r].sent
  BY Gone DEF IInv
<1>2. Good(c, pdf)
  BY <1>1 DEF WInv, AllGood, Good
<1> QED BY <1>1, <1>2, OutsideWInv

LEMMA ReturnWInv ==
  ASSUME Apart, IInv, WInv, NEW r \in Requests, NEW v \in Results \cup {"error"},
         Return(r, v), UNCHANGED pdf, req[r].pc \notin {"Write", "answered"},
         v \in Results => pdf[req[r].test] = v
  PROVE  WInv'
<1>0. v \in File \cup {"error"}
  BY DEF File
<1>1. PICK c \in Request :
        /\ req' = [req EXCEPT ![r] = c]
        /\ c.pc = "return" /\ c.test = req[r].test /\ c.value = v /\ c.sent = req[r].sent
  BY <1>0, Returned DEF IInv
<1>2. Good(c, pdf)
  BY <1>1 DEF WInv, AllGood, Good, Apart
<1> QED BY <1>1, <1>2, OutsideWInv

LEMMA GenerateWInv ==
  ASSUME Apart, ~Breaks, IInv, WInv, NEW r \in Requests,
         \/ ReadFile(r) \/ GetTest(r) \/ GetResult(r) \/ GetCandidate(r) \/ GenerateNarrative(r)
         \/ RenderPDF(r)
  PROVE  WInv'
<1> USE DEF IInv
<1>1. UNCHANGED pdf /\ req[r].pc \in Calling /\ req[r].pc \notin {"Write", "answered"}
  BY DEF ReadFile, GetTest, GetResult, GetCandidate, GenerateNarrative, RenderPDF, GoesOn, At,
         Calling, Making, Reading
<1>2. CASE Return(r, "error")
  BY <1>1, <1>2, ReturnWInv DEF Apart
<1>3. ASSUME NEW l \in {"GetTest", "GetResult", "Narrative", "Render", "Open"}, Goto(r, l)
      PROVE  WInv'
  BY <1>1, <1>3, GotoWInv DEF PC
<1>4. CASE ReadFile(r)
  <2>1. CASE Cached(Test(r)) /\ Return(r, pdf[Test(r)])
    <3>1. req[r].pc = "ReadFile" /\ Test(r) \in Tests /\ flight[Test(r)] = r
      BY <1>4 DEF ReadFile, At, Test, Calling, Calls, OneCall
    <3>2. pdf[Test(r)] # "part"
      <4> SUFFICES ASSUME pdf[Test(r)] = "part" PROVE FALSE
        OBVIOUS
      <4>1. PICK q \in Requests : req[q].pc = "Write" /\ req[q].test = Test(r)
        BY <3>1 DEF WInv, PartIsWritten
      <4>2. flight[Test(r)] = q
        BY <4>1 DEF Calls, OneCall, Calling, Making, Reading
      <4> QED BY <3>1, <4>1, <4>2
    <3>3. pdf[Test(r)] \in Results
      BY <2>1, <3>1, <3>2 DEF Cached, TypeOK, File
    <3> QED BY <1>1, <2>1, <3>3, ReturnWInv DEF Test
  <2> QED BY <1>3, <1>4, <2>1 DEF ReadFile
<1>5. CASE req' = [req EXCEPT ![r].pc = "Candidate", ![r].read = latest[Test(r)]]
  <2>1. req[r].test \in Tests
    BY <1>1 DEF Calls, OneCall
  <2> DEFINE c == [req[r] EXCEPT !.pc = "Candidate", !.read = latest[Test(r)]]
  <2>2. /\ c \in Request /\ c.pc = "Candidate"
        /\ c.value = req[r].value /\ c.sent = req[r].sent
    BY <2>1 DEF TypeOK, Request, PC, Test
  <2>3. req' = [req EXCEPT ![r] = c]
    BY <1>5
  <2> HIDE DEF c
  <2>4. Good(c, pdf)
    BY <1>1, <2>2 DEF WInv, AllGood, Good
  <2> QED BY <1>1, <2>2, <2>3, <2>4, OutsideWInv
<1> QED
  BY <1>2, <1>3, <1>4, <1>5 DEF GetTest, GetResult, GetCandidate, GenerateNarrative, RenderPDF,
                                GoesOn, Fails

LEMMA WriteWInv ==
  ASSUME Apart, ~Breaks, IInv, WInv, NEW r \in Requests, Next,
         OpenFile(r) \/ WritePart(r) \/ WriteRest(r)
  PROVE  WInv'
<1> USE DEF IInv
<1>1. req[r].pc \in Reading /\ req[r].pc \in Calling /\ Test(r) \in Tests
  BY DEF OpenFile, WritePart, WriteRest, At, Test, Reading, Making, Calling, Calls, OneCall
<1>2. ReportIsKept
  BY ReportKept
<1>3. "Write" \in PC /\ req[r].pc # "answered"
  BY <1>1 DEF PC, Reading
<1>4. CASE OpenFile(r)
  <2>1. CASE Return(r, "error") /\ UNCHANGED pdf
    BY <1>3, <1>4, <2>1, ReturnWInv DEF OpenFile, At, Apart
  <2>2. CASE pdf' = [pdf EXCEPT ![Test(r)] = "empty"] /\ Goto(r, "Write")
    <3>1. PICK c \in Request :
            /\ req' = [req EXCEPT ![r] = c]
            /\ c.pc = "Write" /\ c.value = req[r].value /\ c.sent = req[r].sent
      BY <1>3, <2>2, Gone
    <3>2. Good(c, pdf')
      BY <1>3, <3>1 DEF WInv, AllGood, Good
    <3>3. req[r].pc # "Write" /\ \A t \in Tests : pdf'[t] = "part" => pdf[t] = "part"
      BY <1>4, <2>2 DEF OpenFile, At, TypeOK
    <3> QED BY <1>2, <3>1, <3>2, <3>3, OneGood, WriterStays DEF WInv
  <2> QED BY <1>4, <2>1, <2>2 DEF OpenFile, Fails
<1>5. CASE WritePart(r)
  <2>1. PICK c \in Request :
          /\ req' = [req EXCEPT ![r] = c]
          /\ c.pc = "Write" /\ c.test = Test(r) /\ c.value = req[r].value /\ c.sent = req[r].sent
    BY <1>3, <1>5, Gone DEF WritePart, Test
  <2>2. Good(c, pdf')
    BY <1>3, <2>1 DEF WInv, AllGood, Good
  <2>3. PartIsWritten'
    <3> SUFFICES ASSUME NEW t \in Tests, pdf'[t] = "part"
                 PROVE  \E q \in Requests : req'[q].pc = "Write" /\ req'[q].test = t
      BY DEF PartIsWritten
    <3>1. CASE t = Test(r)
      BY <2>1, <3>1 DEF TypeOK
    <3>2. CASE t # Test(r)
      <4>1. PICK q \in Requests : req[q].pc = "Write" /\ req[q].test = t
        BY <1>5, <3>2 DEF WritePart, TypeOK, WInv, PartIsWritten
      <4> QED BY <2>1, <3>2, <4>1 DEF TypeOK, Test
    <3> QED BY <3>1, <3>2
  <2> QED BY <1>2, <2>1, <2>2, <2>3, OneGood DEF WInv
<1>6. CASE WriteRest(r)
  <2>1. req[r].read \in Results /\ req[r].read \in File \cup {"error"}
    BY <1>1 DEF Calls, ReadsResult, File
  <2>2. PICK c \in Request :
          /\ req' = [req EXCEPT ![r] = c]
          /\ c.pc = "return" /\ c.test = Test(r) /\ c.value = req[r].read
          /\ c.sent = req[r].sent
    BY <1>6, <2>1, Returned DEF WriteRest, Test
  <2>3. pdf'[Test(r)] \in Results /\ \A t \in Tests : pdf'[t] = "part" => pdf[t] = "part"
    BY <1>1, <1>6, <2>1 DEF WriteRest, TypeOK, Apart
  <2>4. Good(c, pdf')
    BY <1>3, <2>1, <2>2, <2>3 DEF WInv, AllGood, Good, Apart
  <2>5. pdf'[req[r].test] # "part"
    BY <2>3 DEF Test, Apart
  <2> QED BY <1>2, <2>2, <2>3, <2>4, <2>5, OneGood, WriterStays DEF WInv
<1> QED BY <1>4, <1>5, <1>6

LEMMA EndCallWInv ==
  ASSUME Apart, IInv, WInv, NEW r \in Requests, EndCall(r)
  PROVE  WInv'
<1> USE DEF IInv
<1>1. /\ req[r].pc = "return" /\ req[r].test \in Tests /\ UNCHANGED pdf
      /\ req[r].value \in Results \cup {"error"}
      /\ req[r].value \in Results => pdf[req[r].test] \in Results
  BY DEF EndCall, At, Calls, OneCall, Calling, WInv, AllGood, Good
<1> DEFINE v == req[r].value
           woken(q) == q = r \/ (At(q, "wait") /\ Test(q) = Test(r))
<1>2. \A q \in Requests : req'[q] = IF woken(q) THEN Outcome(q, v) ELSE req[q]
  <2>1. req' = [q \in Requests |-> IF woken(q) THEN Outcome(q, v) ELSE req[q]]
    BY DEF EndCall
  <2> HIDE DEF v, woken
  <2> QED BY <2>1
<1>3. AllGood'
  <2> SUFFICES ASSUME NEW q \in Requests PROVE Good(req'[q], pdf)
    BY <1>1 DEF AllGood
  <2>1. CASE woken(q)
    <3>1. v \in File \cup {"error"} /\ req[q].test = req[r].test
      BY <1>1, <2>1 DEF File, Test
    <3>2. Good(req[q], pdf) /\ req[q].pc # "answered"
      BY <1>1, <2>1 DEF WInv, AllGood, At
    <3>3. /\ Outcome(q, v).pc \in {"serve", "answered"}
          /\ Outcome(q, v).test = req[q].test
          /\ Outcome(q, v).value = v
          /\ Outcome(q, v).sent = IF v = "error" THEN v ELSE req[q].sent
          /\ Outcome(q, v).pc = "serve" => v # "error"
      BY <3>1, OutcomeTyped
    <3>4. req'[q] = Outcome(q, v)
      BY <1>2, <2>1
    <3> HIDE DEF woken
    <3> QED BY <1>1, <3>1, <3>2, <3>3, <3>4 DEF Good, Apart
  <2>2. CASE ~woken(q)
    BY <1>2, <2>2 DEF WInv, AllGood
  <2> QED BY <2>1, <2>2
<1>4. PartIsWritten'
  <2>1. \A q \in Requests : req[q].pc = "Write" => req'[q] = req[q]
    BY <1>1, <1>2 DEF At
  <2> QED BY <1>1, <2>1 DEF WInv, PartIsWritten
<1> QED BY <1>3, <1>4 DEF WInv

LEMMA HandlerWInv ==
  ASSUME Apart, IInv, WInv, NEW r \in Requests,
         \/ \E t \in Tests : PostGenerate(r, t) \/ GetReportPDF(r, t)
         \/ GenerateReport(r) \/ ServeFile(r) \/ Leaves(r)
  PROVE  WInv'
<1> USE DEF IInv
<1>1. ASSUME NEW t \in Tests, NEW l \in {"call", "serve"}, NEW h \in {"post", "get"},
             req' = [req EXCEPT ![r] = [Idle EXCEPT !.pc = l, !.test = t, !.how = h]],
             req[r].pc = "idle", UNCHANGED pdf
      PROVE  WInv'
  <2> DEFINE c == [Idle EXCEPT !.pc = l, !.test = t, !.how = h]
  <2>1. c \in Request /\ c.pc = l /\ c.value = "none" /\ c.sent = "none"
    BY DEF Idle, Request, PC, File
  <2>2. req' = [req EXCEPT ![r] = c]
    BY <1>1
  <2> HIDE DEF c
  <2>3. Good(c, pdf)
    BY <2>1 DEF Good, Apart
  <2> QED BY <1>1, <2>1, <2>2, <2>3, OutsideWInv
<1>2. ASSUME NEW t \in Tests, PostGenerate(r, t) PROVE WInv'
  BY <1>1, <1>2 DEF PostGenerate, At
<1>3. ASSUME NEW t \in Tests, GetReportPDF(r, t) PROVE WInv'
  <2>1. PICK l \in {"call", "serve"} :
          req' = [req EXCEPT ![r] = [Idle EXCEPT !.pc = l, !.test = t, !.how = "get"]]
    BY <1>3 DEF GetReportPDF
  <2> QED BY <1>1, <1>3, <2>1 DEF GetReportPDF, At
<1>4. CASE GenerateReport(r)
  BY <1>4, GotoWInv DEF GenerateReport, At, PC
<1>5. CASE ServeFile(r)
  <2>1. req[r].pc = "serve" /\ req[r].test \in Tests
    BY <1>5 DEF ServeFile, At, Calls, HasTest
  <2> DEFINE c == [req[r] EXCEPT !.pc = "answered", !.sent = pdf[Test(r)]]
  <2>2. c \in Request /\ c.pc = "answered" /\ c.value = req[r].value /\ c.sent = pdf[req[r].test]
    BY <2>1 DEF TypeOK, Request, PC, Test
  <2>3. req' = [req EXCEPT ![r] = c]
    BY <1>5 DEF ServeFile
  <2> HIDE DEF c
  <2>4. Good(c, pdf)
    BY <2>1, <2>2 DEF WInv, AllGood, Good, Apart
  <2> QED BY <1>5, <2>1, <2>2, <2>3, <2>4, OutsideWInv DEF ServeFile
<1>6. CASE Leaves(r)
  <2>1. Good(Idle, pdf)
    BY DEF Idle, Good, Apart
  <2> QED BY <1>6, <2>1, IdleTyped, OutsideWInv DEF Leaves, At
<1> QED BY <1>2, <1>3, <1>4, <1>5, <1>6

LEMMA NextWInv == ASSUME Apart, ~Breaks, IInv, WInv, [Next]_vars PROVE WInv'
<1>1. CASE UNCHANGED vars
  BY <1>1 DEF vars, WInv, AllGood, Good, PartIsWritten
<1>2. ASSUME NEW t \in Tests, ResultChanges(t) PROVE WInv'
  BY <1>2 DEF ResultChanges, WInv, AllGood, Good, PartIsWritten
<1>3. ASSUME NEW r \in Requests, Step(r), Next PROVE WInv'
  BY <1>3, GenerateWInv, WriteWInv, EndCallWInv, HandlerWInv DEF Step
<1>4. ~Crash
  BY DEF Crash
<1> QED BY <1>1, <1>2, <1>3, <1>4, HandlerWInv DEF Next

(* Where no write breaks off, whoever has a report made gets a whole one,  *)
(* for any number of clients at once (service.go:51-160).                  *)
THEOREM ReportsAreWhole == ASSUME Apart, ~Breaks PROVE Spec => []WholeReport
BY Invariant, InitWInv, NextWInv, WInvWhole, PTL DEF Spec
-----------------------------------------------------------------------------
(* The requests that share a call.                                         *)

(* A call the group knows is being made, by a request for that test, and   *)
(* who waits waits for one.                                                *)
CallIsMade ==
  \A t \in Tests : flight[t] # None =>
    req[flight[t]].pc \in Calling /\ req[flight[t]].test = t
WaitersHaveCall == \A r \in Requests : At(r, "wait") => flight[Test(r)] # None

Joined == CallIsMade /\ WaitersHaveCall

(* Where a step leads a request that makes a call. *)
After == [l \in Calling \ {"return"} |->
  CASE l = "ReadFile"  -> {"GetTest", "return"}
    [] l = "GetTest"   -> {"GetResult", "return"}
    [] l = "GetResult" -> {"Candidate", "return"}
    [] l = "Candidate" -> {"Narrative", "return"}
    [] l = "Narrative" -> {"Render", "return"}
    [] l = "Render"    -> {"Open", "return"}
    [] l = "Open"      -> {"Write", "return"}
    [] l = "Write"     -> {"Write", "return"}]

Moves(r, A) ==
  /\ flight' = flight
  /\ req'[r].pc \in A /\ req'[r].test = req[r].test
  /\ \A q \in Requests \ {r} : req'[q] = req[q]

LEMMA GotoMoves ==
  ASSUME TypeOK, NEW r \in Requests, NEW l, Goto(r, l), flight' = flight
  PROVE  Moves(r, {l})
BY DEF Goto, Moves, TypeOK, Request

LEMMA ReturnMoves ==
  ASSUME TypeOK, NEW r \in Requests, NEW v, Return(r, v), flight' = flight
  PROVE  Moves(r, {"return"})
BY DEF Return, Moves, TypeOK, Request

LEMMA StepWhere ==
  ASSUME NEW r \in Requests, Step(r)
  PROVE  \/ At(r, "call") /\ GenerateReport(r)
         \/ At(r, "return") /\ EndCall(r)
         \/ At(r, "serve") /\ ServeFile(r)
         \/ At(r, "ReadFile") /\ ReadFile(r)
         \/ At(r, "GetTest") /\ GetTest(r)
         \/ At(r, "GetResult") /\ GetResult(r)
         \/ At(r, "Candidate") /\ GetCandidate(r)
         \/ At(r, "Narrative") /\ GenerateNarrative(r)
         \/ At(r, "Render") /\ RenderPDF(r)
         \/ At(r, "Open") /\ OpenFile(r)
         \/ At(r, "Write") /\ (WritePart(r) \/ WriteRest(r))
BY DEF Step, GenerateReport, EndCall, ServeFile, ReadFile, GetTest, GetResult, GetCandidate,
       GenerateNarrative, RenderPDF, GoesOn, OpenFile, WritePart, WriteRest

LEMMA CallMoves ==
  ASSUME TypeOK, NEW r \in Requests, Step(r), req[r].pc \in Calling \ {"return"}
  PROVE  Moves(r, After[req[r].pc])
<1> DEFINE l == req[r].pc
<1>1. ASSUME At(r, "GetResult"), GetResult(r)
      PROVE  Moves(r, {"Candidate", "return"})
  <2>1. CASE req' = [req EXCEPT ![r].pc = "Candidate", ![r].read = latest[Test(r)]]
    BY <1>1, <2>1 DEF GetResult, Moves, TypeOK, Request
  <2>2. CASE Fails(r)
    BY <1>1, <2>2, ReturnMoves DEF GetResult, Fails, Moves
  <2> QED BY <1>1, <2>1, <2>2 DEF GetResult
<1>2. ASSUME At(r, "GetTest"), GetTest(r)
      PROVE  Moves(r, {"GetResult", "return"})
  BY <1>2, GotoMoves, ReturnMoves DEF GetTest, Fails, Moves
<1>3. ASSUME NEW m, GoesOn(r, l, m)
      PROVE  Moves(r, {m, "return"})
  BY <1>3, GotoMoves, ReturnMoves DEF GoesOn, Fails, Moves
<1>4. ASSUME At(r, "ReadFile"), ReadFile(r)
      PROVE  Moves(r, {"GetTest", "return"})
  BY <1>4, GotoMoves, ReturnMoves DEF ReadFile, Moves
<1>5. ASSUME At(r, "Open"), OpenFile(r)
      PROVE  Moves(r, {"Write", "return"})
  BY <1>5, GotoMoves, ReturnMoves DEF OpenFile, Fails, Moves
<1>6. ASSUME WritePart(r) \/ WriteRest(r)
      PROVE  Moves(r, {"Write", "return"})
  BY <1>6, GotoMoves, ReturnMoves DEF WritePart, WriteRest, Moves
<1>7. ASSUME At(r, "Candidate"), GetCandidate(r)
      PROVE  Moves(r, {"Narrative", "return"})
  BY <1>3, <1>7 DEF GetCandidate, At
<1>8. ASSUME At(r, "Narrative"), GenerateNarrative(r)
      PROVE  Moves(r, {"Render", "return"})
  BY <1>3, <1>8 DEF GenerateNarrative, At
<1>9. ASSUME At(r, "Render"), RenderPDF(r)
      PROVE  Moves(r, {"Open", "return"})
  BY <1>3, <1>9 DEF RenderPDF, At
<1> QED BY <1>1, <1>2, <1>4, <1>5, <1>6, <1>7, <1>8, <1>9, StepWhere
        DEF At, After, Calling, Making, Reading

LEMMA MovesJoined ==
  ASSUME IInv, Joined, NEW r \in Requests, NEW A, Moves(r, A), "wait" \notin A,
         req[r].pc \in Calling => A \subseteq Calling
  PROVE  Joined'
<1>1. CallIsMade'
  BY DEF Joined, CallIsMade, Moves, IInv, TypeOK
<1>2. WaitersHaveCall'
  BY DEF Joined, WaitersHaveCall, Moves, At, Test
<1> QED BY <1>1, <1>2 DEF Joined

LEMMA HandlerMoves ==
  ASSUME TypeOK, NEW r \in Requests,
         Leaves(r) \/ \E t \in Tests : PostGenerate(r, t) \/ GetReportPDF(r, t)
  PROVE  /\ flight' = flight
         /\ req[r].pc \in {"idle", "answered"} /\ req'[r].pc \in {"idle", "call", "serve"}
         /\ req[r].pc = "idle" \/ req'[r].pc = "idle"
         /\ \A q \in Requests \ {r} : req'[q] = req[q]
<1>1. CASE Leaves(r)
  BY <1>1 DEF Leaves, Idle, At, TypeOK
<1>2. ASSUME NEW t \in Tests, PostGenerate(r, t) \/ GetReportPDF(r, t)
      PROVE  /\ flight' = flight /\ req[r].pc = "idle" /\ req'[r].pc \in {"call", "serve"}
             /\ \A q \in Requests \ {r} : req'[q] = req[q]
  <2>1. CASE PostGenerate(r, t)
    BY <2>1 DEF PostGenerate, Idle, At, TypeOK
  <2>2. CASE GetReportPDF(r, t)
    BY <2>2 DEF GetReportPDF, Idle, At, TypeOK
  <2> QED BY <1>2, <2>1, <2>2
<1> QED BY <1>1, <1>2

LEMMA HandlerJoined ==
  ASSUME IInv, Joined, NEW r \in Requests, flight' = flight, req[r].pc \notin Calling,
         req'[r].pc # "wait", \A q \in Requests \ {r} : req'[q] = req[q]
  PROVE  Joined'
<1>1. CallIsMade'
  BY DEF Joined, CallIsMade, IInv, TypeOK
<1>2. WaitersHaveCall'
  BY DEF Joined, WaitersHaveCall, At, Test
<1> QED BY <1>1, <1>2 DEF Joined

LEMMA GenerateJoined ==
  ASSUME Apart, IInv, Joined, NEW r \in Requests, GenerateReport(r)
  PROVE  Joined'
<1>1. Test(r) \in Tests /\ req[r].pc = "call"
  BY DEF IInv, Calls, HasTest, GenerateReport, At, Test
<1>2. CASE /\ flight[Test(r)] = None /\ flight' = [flight EXCEPT ![Test(r)] = r]
           /\ Goto(r, "ReadFile")
  <2>1. req'[r].pc = "ReadFile" /\ req'[r].test = Test(r)
        /\ \A q \in Requests \ {r} : req'[q] = req[q]
    BY <1>2 DEF Goto, Test, IInv, TypeOK, Request
  <2>2. \A t \in Tests \ {Test(r)} : flight'[t] = flight[t]
    BY <1>2 DEF IInv, TypeOK
  <2>3. flight'[Test(r)] = r /\ r # None
    BY <1>1, <1>2 DEF IInv, TypeOK, Apart
  <2>4. CallIsMade'
    <3> SUFFICES ASSUME NEW t \in Tests, flight'[t] # None
                 PROVE  req'[flight'[t]].pc \in Calling /\ req'[flight'[t]].test = t
      BY DEF CallIsMade
    <3>1. CASE t = Test(r)
      BY <2>1, <2>3, <3>1 DEF Calling
    <3>2. CASE t # Test(r)
      <4>1. flight'[t] = flight[t] /\ req[flight[t]].pc \in Calling /\ flight[t] \in Requests
            /\ req[flight[t]].test = t
        BY <2>2, <3>2 DEF Joined, CallIsMade, IInv, TypeOK
      <4>2. flight[t] # r
        BY <1>1, <4>1 DEF Calling, Making, Reading
      <4> QED BY <2>1, <4>1, <4>2
    <3> QED BY <3>1, <3>2
  <2>5. WaitersHaveCall'
    <3> SUFFICES ASSUME NEW q \in Requests, req'[q].pc = "wait"
                 PROVE  flight'[req'[q].test] # None
      BY DEF WaitersHaveCall, At, Test
    <3>1. q # r /\ req'[q] = req[q] /\ flight[req[q].test] # None /\ req[q].test \in Tests
      BY <2>1 DEF Joined, WaitersHaveCall, At, Test, IInv, Calls, HasTest
    <3> QED BY <2>2, <2>3, <3>1
  <2> QED BY <2>4, <2>5 DEF Joined
<1>3. CASE flight[Test(r)] # None /\ Goto(r, "wait") /\ UNCHANGED flight
  <2>1. req'[r].pc = "wait" /\ req'[r].test = Test(r)
        /\ \A q \in Requests \ {r} : req'[q] = req[q]
    BY <1>3 DEF Goto, Test, IInv, TypeOK, Request
  <2>2. req[r].pc \notin Calling
    BY <1>1 DEF Calling, Making, Reading
  <2>3. CallIsMade'
    BY <1>3, <2>1, <2>2 DEF Joined, CallIsMade, IInv, TypeOK
  <2>4. WaitersHaveCall'
    BY <1>3, <2>1 DEF Joined, WaitersHaveCall, At, Test
  <2> QED BY <2>3, <2>4 DEF Joined
<1> QED BY <1>2, <1>3 DEF GenerateReport

(* The maker of a call and all who wait for it go on together. *)
LEMMA EndCallMoves ==
  ASSUME IInv, NEW r \in Requests, EndCall(r), NEW q \in Requests
  PROVE  IF q = r \/ (At(q, "wait") /\ Test(q) = Test(r))
           THEN req'[q].pc \in {"serve", "answered"}
           ELSE req'[q] = req[q]
BY DEF EndCall, Outcome, IInv, TypeOK, Request

LEMMA EndCallJoined ==
  ASSUME Apart, IInv, Joined, NEW r \in Requests, EndCall(r)
  PROVE  Joined'
<1>1. Test(r) \in Tests /\ req[r].pc \in Calling
  BY DEF IInv, Calls, HasTest, EndCall, At, Test, Calling
<1>2. flight'[Test(r)] = None /\ \A t \in Tests \ {Test(r)} : flight'[t] = flight[t]
  BY <1>1 DEF EndCall, IInv, TypeOK
<1>3. CallIsMade'
  <2> SUFFICES ASSUME NEW t \in Tests, flight'[t] # None
               PROVE  req'[flight'[t]].pc \in Calling /\ req'[flight'[t]].test = t
    BY DEF CallIsMade
  <2>1. t # Test(r) /\ flight'[t] = flight[t] /\ flight[t] \in Requests
        /\ req[flight[t]].pc \in Calling /\ req[flight[t]].test = t
    BY <1>2 DEF Joined, CallIsMade, IInv, TypeOK
  <2>2. flight[t] # r /\ ~At(flight[t], "wait")
    BY <2>1 DEF Test, At, Calling, Making, Reading
  <2>3. req'[flight[t]] = req[flight[t]]
    BY <2>1, <2>2, EndCallMoves
  <2> QED BY <2>1, <2>3
<1>4. WaitersHaveCall'
  <2> SUFFICES ASSUME NEW q \in Requests, req'[q].pc = "wait"
               PROVE  flight'[req'[q].test] # None
    BY DEF WaitersHaveCall, At, Test
  <2>1. q # r /\ ~(At(q, "wait") /\ Test(q) = Test(r)) /\ req'[q] = req[q]
    BY EndCallMoves
  <2>2. req[q].test \in Tests \ {Test(r)} /\ flight[req[q].test] # None
    BY <2>1 DEF Joined, WaitersHaveCall, At, Test, IInv, Calls, HasTest
  <2> QED BY <1>2, <2>1, <2>2
<1> QED BY <1>3, <1>4 DEF Joined

LEMMA NextJoined == ASSUME Apart, IInv, Joined, [Next]_vars PROVE Joined'
<1>1. CASE UNCHANGED vars \/ \E t \in Tests : ResultChanges(t)
  BY <1>1 DEF vars, ResultChanges, Joined, CallIsMade, WaitersHaveCall, At, Test
<1>2. CASE Crash
  BY <1>2 DEF Crash, Joined, CallIsMade, WaitersHaveCall, At, Test, Idle
<1>3. ASSUME NEW r \in Requests, Step(r)
      PROVE  Joined'
  <2>1. CASE req[r].pc \in Calling \ {"return"}
    <3>1. Moves(r, After[req[r].pc])
      BY <1>3, <2>1, CallMoves DEF IInv
    <3>2. After[req[r].pc] \subseteq Calling /\ "wait" \notin After[req[r].pc]
      BY <2>1 DEF After, Calling, Making, Reading
    <3> QED BY <3>1, <3>2, MovesJoined
  <2>2. CASE ServeFile(r)
    <3>1. /\ flight' = flight /\ req[r].pc \notin Calling /\ req'[r].pc # "wait"
          /\ \A q \in Requests \ {r} : req'[q] = req[q]
      BY <2>2 DEF ServeFile, At, Calling, Making, Reading, IInv, TypeOK, Request
    <3> QED BY <3>1, HandlerJoined
  <2> QED BY <1>3, <2>1, <2>2, StepWhere, GenerateJoined, EndCallJoined
          DEF At, Calling, Making, Reading
<1>4. ASSUME NEW r \in Requests, Leaves(r) \/ \E t \in Tests : PostGenerate(r, t) \/ GetReportPDF(r, t)
      PROVE  Joined'
  <2>1. /\ flight' = flight /\ req[r].pc \notin Calling /\ req'[r].pc # "wait"
        /\ \A q \in Requests \ {r} : req'[q] = req[q]
    BY <1>4, HandlerMoves DEF At, Calling, Making, Reading, IInv
  <2> QED BY <2>1, HandlerJoined
<1> QED BY <1>1, <1>2, <1>3, <1>4 DEF Next

LEMMA JoinedHolds == ASSUME Apart PROVE Spec => [](IInv /\ Joined)
<1>1. Init => Joined
  BY DEF Init, Joined, CallIsMade, WaitersHaveCall, At, Idle
<1> QED BY <1>1, Invariant, NextJoined, PTL DEF Spec

(* No request waits for a call that nobody makes, however requests join,   *)
(* fail and stop: whoever waits does so while another one is in the call   *)
(* for its test (service.go:52).                                           *)
THEOREM NobodyWaitsInVain == ASSUME Apart PROVE Spec => []Joined
BY JoinedHolds, PTL
-----------------------------------------------------------------------------
(* What fairness adds.  The provers know nothing of ENABLED: that a request *)
(* can take its next step, unless it waits, is a hypothesis here.           *)

Fair(r) == WF_vars(Step(r))
Can(r)  == ENABLED <<Step(r)>>_vars

CanGoOn == \A r \in Requests : req[r].pc \notin {"idle", "wait", "answered"} => Can(r)

LEMMA FairRequests == Fairness <=> \A r \in Requests : Fair(r)
BY PTL DEF Fairness, Fair

(* The call of q, which r makes itself or waits for, has come to l.        *)
InCall(r, q, l) == At(q, l) /\ (q = r \/ (At(r, "wait") /\ Test(r) = Test(q)))
Called(r)       == req[r].pc \in {"serve", "answered", "idle"}

LEMMA OthersStay ==
  ASSUME IInv, [Next]_vars, NEW r \in Requests, NEW q \in Requests, NEW l \in Calling,
         InCall(r, q, l)
  PROVE  \/ Called(r)' \/ Step(q)
         \/ req'[q] = req[q] /\ req'[r] = req[r] /\ pdf'[Test(q)] = pdf[Test(q)]
<1>1. req[q].pc \in Calling /\ req[r].pc \in Calling \cup {"wait"} /\ Test(q) \in Tests
  BY DEF InCall, At, IInv, Calls, OneCall, Test
<1>2. CASE UNCHANGED vars \/ \E t \in Tests : ResultChanges(t)
  BY <1>2 DEF vars, ResultChanges
<1>3. CASE Crash
  BY <1>3 DEF Crash, Called, Idle
<1>4. ASSUME NEW x \in Requests, Leaves(x) \/ \E t \in Tests : PostGenerate(x, t) \/ GetReportPDF(x, t)
      PROVE  req'[q] = req[q] /\ req'[r] = req[r] /\ pdf' = pdf
  <2>1. x # q /\ x # r
    BY <1>1, <1>4 DEF Leaves, PostGenerate, GetReportPDF, At, Calling, Making, Reading
  <2>2. pdf' = pdf
    BY <1>4 DEF Leaves, PostGenerate, GetReportPDF
  <2> QED BY <1>4, <2>1, <2>2, HandlerMoves DEF IInv
<1>5. ASSUME NEW x \in Requests, Step(x), x # q
      PROVE  req'[q] = req[q] /\ req'[r] = req[r] /\ pdf'[Test(q)] = pdf[Test(q)]
  <2>1. ~At(x, "wait")
    BY <1>5, StepWhere DEF At
  <2>2. x # r
    BY <1>5, <2>1 DEF InCall
  <2>3. req[x].pc \in Calling => Test(x) # Test(q)
    BY <1>1, <1>5 DEF IInv, Calls, OneCall, Test
  <2>4. CASE req[x].pc \in Calling \ {"return"}
    <3>1. req'[q] = req[q] /\ req'[r] = req[r]
      BY <1>5, <2>2, <2>4, CallMoves DEF Moves, IInv
    <3>2. pdf'[Test(q)] = pdf[Test(q)]
      BY <1>1, <1>5, <2>3, <2>4 DEF Step, GenerateReport, EndCall, ServeFile, ReadFile, GetTest,
         GetResult, GetCandidate, GenerateNarrative, RenderPDF, GoesOn, OpenFile, WritePart,
         WriteRest, IInv, TypeOK
    <3> QED BY <3>1, <3>2
  <2>5. CASE At(x, "return") /\ EndCall(x)
    <3>1. ~(At(q, "wait") /\ Test(q) = Test(x)) /\ ~(At(r, "wait") /\ Test(r) = Test(x))
      BY <1>1, <2>3, <2>5 DEF InCall, At, Calling, Making, Reading
    <3> QED BY <1>5, <2>2, <2>5, <3>1, EndCallMoves DEF EndCall
  <2>6. CASE GenerateReport(x) \/ ServeFile(x)
    BY <1>5, <2>2, <2>6 DEF GenerateReport, ServeFile, Goto, IInv, TypeOK
  <2> QED BY <1>5, <2>4, <2>5, <2>6, StepWhere DEF At, Calling, Making, Reading
<1> QED BY <1>2, <1>3, <1>4, <1>5 DEF Next

LEMMA InCallSteps ==
  ASSUME IInv, [Next]_vars, NEW r \in Requests, NEW q \in Requests,
         NEW l \in Calling \ {"return"}, InCall(r, q, l)
  PROVE  /\ InCall(r, q, l)' \/ Called(r)' \/ \E m \in After[l] : InCall(r, q, m)'
         /\ <<Step(q)>>_vars => \E m \in After[l] : InCall(r, q, m)'
<1>1. ASSUME Step(q)
      PROVE  \E m \in After[l] : InCall(r, q, m)'
  <2>1. Moves(q, After[l])
    BY <1>1, CallMoves DEF InCall, At, IInv
  <2>2. q # r => req'[r] = req[r]
    BY <2>1 DEF Moves
  <2>3. PICK m \in After[l] : req'[q].pc = m
    BY <2>1 DEF Moves
  <2>4. InCall(r, q, m)'
    BY <2>1, <2>2, <2>3 DEF Moves, InCall, At, Test
  <2> QED BY <2>4
<1>2. req'[q] = req[q] /\ req'[r] = req[r] => InCall(r, q, l)'
  BY DEF InCall, At, Test
<1> QED BY <1>1, <1>2, OthersStay

(* In the middle of the file a call may make one step more. *)
LEMMA WriteSteps ==
  ASSUME IInv, [Next]_vars, NEW r \in Requests, NEW q \in Requests, InCall(r, q, "Write")
  PROVE  /\ \/ Called(r)' \/ InCall(r, q, "return")'
            \/ InCall(r, q, "Write")' /\ (pdf[Test(q)] # "empty" => (pdf[Test(q)] # "empty")')
         /\ <<Step(q)>>_vars =>
              \/ InCall(r, q, "return")'
              \/ pdf[Test(q)] = "empty" /\ InCall(r, q, "Write")' /\ (pdf[Test(q)] # "empty")'
<1>1. ASSUME Step(q)
      PROVE  \/ InCall(r, q, "return")'
             \/ pdf[Test(q)] = "empty" /\ InCall(r, q, "Write")' /\ (pdf[Test(q)] # "empty")'
  <2>1. Moves(q, {"Write", "return"})
    <3>1. req[q].pc = "Write" /\ "Write" \in Calling \ {"return"}
      BY DEF InCall, At, Calling, Making, Reading
    <3>2. After["Write"] = {"Write", "return"}
      BY <3>1 DEF After
    <3> QED BY <1>1, <3>1, <3>2, CallMoves DEF IInv
  <2>2. InCall(r, q, "return")' \/ InCall(r, q, "Write")'
    <3>1. q # r => req'[r] = req[r]
      BY <2>1 DEF Moves
    <3> QED BY <2>1, <3>1 DEF Moves, InCall, At, Test
  <2>3. Test(q) \in Tests /\ req'[q].test = req[q].test
    BY <2>1 DEF Moves, InCall, At, IInv, Calls, HasTest, Test
  <2>4. CASE WritePart(q)
    BY <2>2, <2>3, <2>4 DEF WritePart, Test, IInv, TypeOK
  <2>5. CASE WriteRest(q)
    <3>1. req'[q].pc = "return"
      BY <2>5 DEF WriteRest, Return, IInv, TypeOK, Request
    <3> QED BY <2>2, <3>1 DEF InCall, At
  <2> QED BY <1>1, <2>4, <2>5, StepWhere DEF InCall, At
<1>2. req'[q] = req[q] /\ req'[r] = req[r] /\ pdf'[Test(q)] = pdf[Test(q)] =>
        InCall(r, q, "Write")' /\ (pdf[Test(q)] # "empty" => (pdf[Test(q)] # "empty")')
  BY DEF InCall, At, Test
<1>3. "Write" \in Calling
  BY DEF Calling, Making, Reading
<1> QED BY <1>1, <1>2, <1>3, OthersStay

LEMMA ReturnSteps ==
  ASSUME IInv, [Next]_vars, NEW r \in Requests, NEW q \in Requests, InCall(r, q, "return")
  PROVE  /\ Called(r)' \/ InCall(r, q, "return")'
         /\ <<Step(q)>>_vars => Called(r)'
<1>1. Step(q) => Called(r)'
  <2>1. Step(q) => EndCall(q)
    BY StepWhere DEF InCall, At
  <2> QED BY <2>1, EndCallMoves DEF InCall, Called
<1>2. req'[q] = req[q] /\ req'[r] = req[r] => InCall(r, q, "return")'
  BY DEF InCall, At, Test
<1>3. "return" \in Calling
  BY DEF Calling
<1> QED BY <1>1, <1>2, <1>3, OthersStay

(* What follows l is m, or the end of the call. *)
LEMMA StepGoesOn ==
  ASSUME NEW r \in Requests, NEW q \in Requests, NEW l \in Calling \ {"return"}, NEW m,
         After[l] = {m, "return"}
  PROVE  /\ IInv /\ [Next]_vars /\ InCall(r, q, l) =>
              InCall(r, q, l)' \/ InCall(r, q, m)' \/ InCall(r, q, "return")' \/ Called(r)'
         /\ IInv /\ [Next]_vars /\ InCall(r, q, l) /\ <<Step(q)>>_vars =>
              InCall(r, q, m)' \/ InCall(r, q, "return")'
BY InCallSteps

LEMMA CallerGoesOn ==
  ASSUME NEW r \in Requests, NEW q \in Requests, NEW l \in Calling, InCall(r, q, l), CanGoOn
  PROVE  Can(q)
<1>1. req[q].pc \notin {"idle", "wait", "answered"}
  BY DEF InCall, At, Calling, Making, Reading
<1> QED BY <1>1 DEF CanGoOn

(* A call that is being made returns, to its maker and to all who wait.    *)
LEMMA CallEnds ==
  ASSUME Apart, NEW r \in Requests, NEW q \in Requests
  PROVE  Spec /\ Fairness /\ []CanGoOn =>
           []((\E l \in Calling : InCall(r, q, l)) => <>Called(r))
<1> DEFINE E1 == InCall(r, q, "Write") /\ pdf[Test(q)] = "empty"
           E2 == InCall(r, q, "Write") /\ pdf[Test(q)] # "empty"
           End == InCall(r, q, "return")
           Live == Spec /\ Fairness /\ []CanGoOn
<1>1. IInv /\ [Next]_vars /\ End => End' \/ Called(r)'
  BY ReturnSteps
<1>2. IInv /\ [Next]_vars /\ End /\ <<Step(q)>>_vars => Called(r)'
  BY ReturnSteps
<1>3. IInv /\ [Next]_vars /\ E2 => E2' \/ End' \/ Called(r)'
  BY WriteSteps
<1>4. IInv /\ [Next]_vars /\ E2 /\ <<Step(q)>>_vars => End'
  BY WriteSteps
<1>5. IInv /\ [Next]_vars /\ E1 => E1' \/ E2' \/ End' \/ Called(r)'
  BY WriteSteps
<1>6. IInv /\ [Next]_vars /\ E1 /\ <<Step(q)>>_vars => E2' \/ End'
  BY WriteSteps
<1>7. CanGoOn /\ (E1 \/ E2 \/ End) => Can(q)
  <2>1. "Write" \in Calling /\ "return" \in Calling
    BY DEF Calling, Making, Reading
  <2> QED BY <2>1, CallerGoesOn
<1>8. Fairness => Fair(q)
  BY FairRequests
<1>9. InCall(r, q, "Write") <=> E1 \/ E2
  OBVIOUS
<1> HIDE DEF E1, E2, End
<1>10. Live => [](End => <>Called(r))
  BY <1>1, <1>2, <1>7, <1>8, Invariant, PTL DEF Spec, Fair, Can
<1>11. Live => [](E2 => <>Called(r))
  BY <1>3, <1>4, <1>7, <1>8, <1>10, Invariant, PTL DEF Spec, Fair, Can
<1>12. Live => [](InCall(r, q, "Write") => <>Called(r))
  BY <1>5, <1>6, <1>7, <1>8, <1>9, <1>10, <1>11, Invariant, PTL DEF Spec, Fair, Can
<1>13. /\ After["Open"] = {"Write", "return"} /\ After["Render"] = {"Open", "return"}
       /\ After["Narrative"] = {"Render", "return"} /\ After["Candidate"] = {"Narrative", "return"}
       /\ After["GetResult"] = {"Candidate", "return"} /\ After["GetTest"] = {"GetResult", "return"}
       /\ After["ReadFile"] = {"GetTest", "return"}
  BY DEF After, Calling, Making, Reading
<1>14. Calling = {"ReadFile", "GetTest", "GetResult", "Candidate", "Narrative", "Render", "Open",
                  "Write", "return"}
  BY DEF Calling, Making, Reading
<1>15. Live => [](InCall(r, q, "Open") => <>Called(r))
  <2> DEFINE L == InCall(r, q, "Open")
             M == InCall(r, q, "Write")
  <2>1. /\ IInv /\ [Next]_vars /\ L => L' \/ M' \/ End' \/ Called(r)'
        /\ IInv /\ [Next]_vars /\ L /\ <<Step(q)>>_vars => M' \/ End'
    BY <1>13, <1>14, StepGoesOn DEF End
  <2>2. CanGoOn /\ L => Can(q)
    BY <1>14, CallerGoesOn
  <2> HIDE DEF L, M
  <2>3. Live => [](M => <>Called(r))
    BY <1>12 DEF M
  <2>4. Live => [](L => <>Called(r))
    BY <1>8, <1>10, <2>1, <2>2, <2>3, Invariant, PTL DEF Spec, Fair, Can
  <2> QED BY <2>4 DEF L
<1>16. Live => [](InCall(r, q, "Render") => <>Called(r))
  <2> DEFINE L == InCall(r, q, "Render")
             M == InCall(r, q, "Open")
  <2>1. /\ IInv /\ [Next]_vars /\ L => L' \/ M' \/ End' \/ Called(r)'
        /\ IInv /\ [Next]_vars /\ L /\ <<Step(q)>>_vars => M' \/ End'
    BY <1>13, <1>14, StepGoesOn DEF End
  <2>2. CanGoOn /\ L => Can(q)
    BY <1>14, CallerGoesOn
  <2> HIDE DEF L, M
  <2>3. Live => [](M => <>Called(r))
    BY <1>15 DEF M
  <2>4. Live => [](L => <>Called(r))
    BY <1>8, <1>10, <2>1, <2>2, <2>3, Invariant, PTL DEF Spec, Fair, Can
  <2> QED BY <2>4 DEF L
<1>17. Live => [](InCall(r, q, "Narrative") => <>Called(r))
  <2> DEFINE L == InCall(r, q, "Narrative")
             M == InCall(r, q, "Render")
  <2>1. /\ IInv /\ [Next]_vars /\ L => L' \/ M' \/ End' \/ Called(r)'
        /\ IInv /\ [Next]_vars /\ L /\ <<Step(q)>>_vars => M' \/ End'
    BY <1>13, <1>14, StepGoesOn DEF End
  <2>2. CanGoOn /\ L => Can(q)
    BY <1>14, CallerGoesOn
  <2> HIDE DEF L, M
  <2>3. Live => [](M => <>Called(r))
    BY <1>16 DEF M
  <2>4. Live => [](L => <>Called(r))
    BY <1>8, <1>10, <2>1, <2>2, <2>3, Invariant, PTL DEF Spec, Fair, Can
  <2> QED BY <2>4 DEF L
<1>18. Live => [](InCall(r, q, "Candidate") => <>Called(r))
  <2> DEFINE L == InCall(r, q, "Candidate")
             M == InCall(r, q, "Narrative")
  <2>1. /\ IInv /\ [Next]_vars /\ L => L' \/ M' \/ End' \/ Called(r)'
        /\ IInv /\ [Next]_vars /\ L /\ <<Step(q)>>_vars => M' \/ End'
    BY <1>13, <1>14, StepGoesOn DEF End
  <2>2. CanGoOn /\ L => Can(q)
    BY <1>14, CallerGoesOn
  <2> HIDE DEF L, M
  <2>3. Live => [](M => <>Called(r))
    BY <1>17 DEF M
  <2>4. Live => [](L => <>Called(r))
    BY <1>8, <1>10, <2>1, <2>2, <2>3, Invariant, PTL DEF Spec, Fair, Can
  <2> QED BY <2>4 DEF L
<1>19. Live => [](InCall(r, q, "GetResult") => <>Called(r))
  <2> DEFINE L == InCall(r, q, "GetResult")
             M == InCall(r, q, "Candidate")
  <2>1. /\ IInv /\ [Next]_vars /\ L => L' \/ M' \/ End' \/ Called(r)'
        /\ IInv /\ [Next]_vars /\ L /\ <<Step(q)>>_vars => M' \/ End'
    BY <1>13, <1>14, StepGoesOn DEF End
  <2>2. CanGoOn /\ L => Can(q)
    BY <1>14, CallerGoesOn
  <2> HIDE DEF L, M
  <2>3. Live => [](M => <>Called(r))
    BY <1>18 DEF M
  <2>4. Live => [](L => <>Called(r))
    BY <1>8, <1>10, <2>1, <2>2, <2>3, Invariant, PTL DEF Spec, Fair, Can
  <2> QED BY <2>4 DEF L
<1>20. Live => [](InCall(r, q, "GetTest") => <>Called(r))
  <2> DEFINE L == InCall(r, q, "GetTest")
             M == InCall(r, q, "GetResult")
  <2>1. /\ IInv /\ [Next]_vars /\ L => L' \/ M' \/ End' \/ Called(r)'
        /\ IInv /\ [Next]_vars /\ L /\ <<Step(q)>>_vars => M' \/ End'
    BY <1>13, <1>14, StepGoesOn DEF End
  <2>2. CanGoOn /\ L => Can(q)
    BY <1>14, CallerGoesOn
  <2> HIDE DEF L, M
  <2>3. Live => [](M => <>Called(r))
    BY <1>19 DEF M
  <2>4. Live => [](L => <>Called(r))
    BY <1>8, <1>10, <2>1, <2>2, <2>3, Invariant, PTL DEF Spec, Fair, Can
  <2> QED BY <2>4 DEF L
<1>21. Live => [](InCall(r, q, "ReadFile") => <>Called(r))
  <2> DEFINE L == InCall(r, q, "ReadFile")
             M == InCall(r, q, "GetTest")
  <2>1. /\ IInv /\ [Next]_vars /\ L => L' \/ M' \/ End' \/ Called(r)'
        /\ IInv /\ [Next]_vars /\ L /\ <<Step(q)>>_vars => M' \/ End'
    BY <1>13, <1>14, StepGoesOn DEF End
  <2>2. CanGoOn /\ L => Can(q)
    BY <1>14, CallerGoesOn
  <2> HIDE DEF L, M
  <2>3. Live => [](M => <>Called(r))
    BY <1>20 DEF M
  <2>4. Live => [](L => <>Called(r))
    BY <1>8, <1>10, <2>1, <2>2, <2>3, Invariant, PTL DEF Spec, Fair, Can
  <2> QED BY <2>4 DEF L
<1>22. (\E l \in Calling : InCall(r, q, l)) =>
         \/ InCall(r, q, "ReadFile") \/ InCall(r, q, "GetTest") \/ InCall(r, q, "GetResult")
         \/ InCall(r, q, "Candidate") \/ InCall(r, q, "Narrative") \/ InCall(r, q, "Render")
         \/ InCall(r, q, "Open") \/ InCall(r, q, "Write") \/ End
  BY <1>14 DEF End
<1> HIDE DEF Live
<1>23. Live => []((\E l \in Calling : InCall(r, q, l)) => <>Called(r))
  BY <1>10, <1>12, <1>15, <1>16, <1>17, <1>18, <1>19, <1>20, <1>21, <1>22, PTL
<1> QED BY <1>23 DEF Live

LEMMA AskingSteps ==
  ASSUME IInv, [Next]_vars, NEW r \in Requests
  PROVE  /\ At(r, "call") =>
              /\ At(r, "call")' \/ At(r, "wait")' \/ InCall(r, r, "ReadFile")' \/ Called(r)'
              /\ <<Step(r)>>_vars => At(r, "wait")' \/ InCall(r, r, "ReadFile")'
         /\ At(r, "serve") =>
              /\ At(r, "serve")' \/ req'[r].pc \in {"answered", "idle"}
              /\ <<Step(r)>>_vars => req'[r].pc \in {"answered", "idle"}
<1>1. ASSUME At(r, "call"), Step(r)
      PROVE  At(r, "wait")' \/ InCall(r, r, "ReadFile")'
  <2>1. GenerateReport(r)
    BY <1>1, StepWhere DEF At
  <2> QED BY <2>1 DEF GenerateReport, Goto, At, InCall, IInv, TypeOK, Request
<1>2. ASSUME At(r, "serve"), Step(r)
      PROVE  req'[r].pc = "answered"
  <2>1. ServeFile(r)
    BY <1>2, StepWhere DEF At
  <2> QED BY <2>1 DEF ServeFile, IInv, TypeOK, Request
<1>3. ASSUME req[r].pc \in {"call", "serve"}, ~Step(r)
      PROVE  req'[r] = req[r] \/ req'[r].pc = "idle"
  <2>1. CASE UNCHANGED vars \/ \E t \in Tests : ResultChanges(t)
    BY <2>1 DEF vars, ResultChanges
  <2>2. CASE Crash
    BY <2>2 DEF Crash, Idle
  <2>3. ASSUME NEW x \in Requests, Leaves(x) \/ \E t \in Tests : PostGenerate(x, t) \/ GetReportPDF(x, t)
        PROVE  req'[r] = req[r]
    BY <1>3, <2>3, HandlerMoves DEF IInv
  <2>4. ASSUME NEW x \in Requests, Step(x), x # r
        PROVE  req'[r] = req[r]
    <3>1. CASE req[x].pc \in Calling \ {"return"}
      BY <2>4, <3>1, CallMoves DEF Moves, IInv
    <3>2. CASE EndCall(x)
      BY <1>3, <2>4, <3>2, EndCallMoves DEF At
    <3>3. CASE GenerateReport(x) \/ ServeFile(x)
      BY <2>4, <3>3 DEF GenerateReport, ServeFile, Goto, IInv, TypeOK
    <3> QED BY <2>4, <3>1, <3>2, <3>3, StepWhere DEF At, Calling, Making, Reading
  <2> QED BY <1>3, <2>1, <2>2, <2>3, <2>4 DEF Next
<1> QED BY <1>1, <1>2, <1>3 DEF At, Called

(* A request that asks for a report is answered, whatever becomes of the   *)
(* call it waits for, unless the process stops (service.go:52).            *)
THEOREM RequestsAnswered ==
  ASSUME Apart
  PROVE  Spec /\ Fairness /\ []CanGoOn => RequestAnswered
<1> DEFINE Live == Spec /\ Fairness /\ []CanGoOn
<1>1. ASSUME NEW r \in Requests
      PROVE  Live => (At(r, "call") ~> At(r, "answered") \/ At(r, "idle"))
  <2> DEFINE Call   == At(r, "call")
             Wait   == At(r, "wait")
             Own    == InCall(r, r, "ReadFile")
             Serve  == At(r, "serve")
             Answer == At(r, "answered") \/ At(r, "idle")
             Join(q) == \E l \in Calling : InCall(r, q, l)
  <2>1. IInv /\ [Next]_vars /\ Call => Call' \/ Wait' \/ Own' \/ Serve' \/ Answer'
    BY AskingSteps DEF Called, At
  <2>2. IInv /\ [Next]_vars /\ Call /\ <<Step(r)>>_vars => Wait' \/ Own'
    BY AskingSteps
  <2>3. IInv /\ [Next]_vars /\ Serve => Serve' \/ Answer'
    BY AskingSteps DEF At
  <2>4. IInv /\ [Next]_vars /\ Serve /\ <<Step(r)>>_vars => Answer'
    BY AskingSteps DEF At
  <2>5. CanGoOn /\ (Call \/ Serve) => Can(r)
    BY DEF CanGoOn, At
  <2>6. Called(r) => Serve \/ Answer
    BY DEF Called, At
  <2>7. Fairness => Fair(r)
    BY FairRequests
  <2>8. IInv /\ Joined /\ Wait => \E q \in Requests : Join(q)
    <3> SUFFICES ASSUME IInv, Joined, Wait
                 PROVE  \E q \in Requests : Join(q)
      OBVIOUS
    <3>1. Test(r) \in Tests /\ flight[Test(r)] # None
      BY DEF Joined, WaitersHaveCall, IInv, Calls, HasTest, At, Test
    <3>2. flight[Test(r)] \in Requests
      BY <3>1 DEF IInv, TypeOK
    <3>3. /\ req[flight[Test(r)]].pc \in Calling
          /\ req[flight[Test(r)]].test = Test(r)
      BY <3>1 DEF Joined, CallIsMade
    <3> QED BY <3>2, <3>3 DEF InCall, At, Test
  <2>9. Own => \E q \in Requests : Join(q)
    BY DEF Calling
  <2>10. \A q \in Requests : (Live => [](Join(q) => <>Called(r)))
    BY CallEnds
  <2>11. Live => [](\A q \in Requests : (Join(q) => <>Called(r)))
    BY <2>10
  <2>12. (\A q \in Requests : (Join(q) => <>Called(r))) =>
           ((\E q \in Requests : Join(q)) => <>Called(r))
    OBVIOUS
  <2> HIDE DEF Call, Wait, Own, Serve, Answer, Join
  <2>13. Live => [](Wait \/ Own => <>Called(r))
    BY <2>8, <2>9, <2>11, <2>12, JoinedHolds, PTL
  <2>14. Live => [](Serve => <>Answer)
    BY <2>3, <2>4, <2>5, <2>7, Invariant, PTL DEF Spec, Fair, Can
  <2>15. Live => (Call ~> Answer)
    BY <2>1, <2>2, <2>5, <2>6, <2>7, <2>13, <2>14, Invariant, PTL DEF Spec, Fair, Can
  <2> QED BY <2>15 DEF Call, Answer
<1> QED BY <1>1 DEF RequestAnswered
=============================================================================
