------------------------------- MODULE Reports ------------------------------
(***************************************************************************)
(* The report of a test (internal/reporting): requests for one test share  *)
(* one call of generate by a singleflight group; generate answers from the *)
(* file report.pdf or makes it from what the other services say.           *)
(*                                                                         *)
(* A file is read and written in steps, so a request that only looks       *)
(* whether it is there, a call that breaks off and a process that stops    *)
(* meet a file half written.                                               *)
(***************************************************************************)
EXTENDS Naturals

CONSTANTS
  Tests,      \* identifiers of tests
  Requests,   \* requests that may be in progress
  Results,    \* what the testing core may say of a completed test, one
              \* after the other: an appeal changes it
  Faults,     \* TRUE: services may fail, clients hang up
  Breaks,     \* TRUE: a write may break off, the process may stop
  None

VARIABLES
  latest,  \* what the testing core says, None if the test is not completed
  pdf,     \* the file report.pdf of each test
  flight,  \* group: the request that makes the call for a test
  req      \* the requests

vars == <<latest, pdf, flight, req>>

-----------------------------------------------------------------------------
(* The content of a file is the result that it reports, when it is whole.  *)
File == {"none", "empty", "part"} \cup Results

PC == {"idle", "call", "wait", "ReadFile", "GetTest", "GetResult", "Candidate", "Narrative",
       "Render", "Open", "Write", "return", "serve", "answered"}

(* how: the route.  value: what GenerateReport returned.  sent: what the   *)
(* client was sent.                                                        *)
Request == [pc : PC, test : Tests \cup {None}, how : {"post", "get", "none"},
            read : Results \cup {None}, value : File \cup {"error"}, sent : File \cup {"error"}]
Idle == [pc |-> "idle", test |-> None, how |-> "none", read |-> None,
         value |-> "none", sent |-> "none"]

At(r, l)   == req[r].pc = l
Goto(r, l) == req' = [req EXCEPT ![r].pc = l]
Test(r)    == req[r].test

(* A step of generate goes on or, when it fails, makes the call return. *)
Return(r, v)    == req' = [req EXCEPT ![r].pc = "return", ![r].value = v]
Fails(r)        == Faults /\ Return(r, "error")
GoesOn(r, l, m) == At(r, l) /\ (Goto(r, m) \/ Fails(r)) /\ UNCHANGED <<latest, pdf, flight>>

Init ==
  /\ latest = [t \in Tests |-> None]
  /\ pdf    = [t \in Tests |-> "none"]
  /\ flight = [t \in Tests |-> None]
  /\ req    = [r \in Requests |-> Idle]

-----------------------------------------------------------------------------
(* The testing core and identity, over HTTP.                               *)

(* The test is completed, or its result changes. *)
ResultChanges(t) ==
  /\ \E v \in Results : latest' = [latest EXCEPT ![t] = v]
  /\ UNCHANGED <<pdf, flight, req>>

(* A test that is not completed is an error. *)
GetTest(r) ==
  /\ At(r, "GetTest")
  /\ \/ latest[Test(r)] # None /\ Goto(r, "GetResult")
     \/ latest[Test(r)] = None /\ Return(r, "error")
     \/ Fails(r)
  /\ UNCHANGED <<latest, pdf, flight>>

GetResult(r) ==
  /\ At(r, "GetResult")
  /\ \/ req' = [req EXCEPT ![r].pc = "Candidate", ![r].read = latest[Test(r)]]
     \/ Fails(r)
  /\ UNCHANGED <<latest, pdf, flight>>

GetCandidate(r)      == GoesOn(r, "Candidate", "Narrative")
GenerateNarrative(r) == GoesOn(r, "Narrative", "Render")
RenderPDF(r)         == GoesOn(r, "Render", "Open")

-----------------------------------------------------------------------------
(* The singleflight group.                                                 *)

(* Mutation: no group, each request makes its own call. *)
CallAlone(r) ==
  /\ At(r, "call")
  /\ Goto(r, "ReadFile")
  /\ UNCHANGED <<latest, pdf, flight>>

(* The first request makes the call, the others wait for it. *)
GenerateReport(r) ==
  /\ At(r, "call")
  /\ \/ /\ flight[Test(r)] = None
        /\ flight' = [flight EXCEPT ![Test(r)] = r]
        /\ Goto(r, "ReadFile")
     \/ flight[Test(r)] # None /\ Goto(r, "wait") /\ UNCHANGED flight
  /\ UNCHANGED <<latest, pdf>>

(* What a call returned is everybody's, the error of a client that hung up *)
(* included; generateReport answers, getReportPDF serves the file next.    *)
Outcome(r, v) ==
  [req[r] EXCEPT !.value = v,
                 !.pc   = IF v # "error" /\ req[r].how = "get" THEN "serve" ELSE "answered",
                 !.sent = IF v = "error" THEN v ELSE @]

(* Mutation: who waits is not woken by an error. *)
EndCallOrFail(r) ==
  /\ At(r, "return")
  /\ req' = [q \in Requests |->
       IF q = r \/ (At(q, "wait") /\ Test(q) = Test(r) /\ req[r].value # "error")
       THEN Outcome(q, req[r].value) ELSE req[q]]
  /\ flight' = [flight EXCEPT ![Test(r)] = None]
  /\ UNCHANGED <<latest, pdf>>

EndCall(r) ==
  /\ At(r, "return")
  /\ req' = [q \in Requests |->
       IF q = r \/ (At(q, "wait") /\ Test(q) = Test(r))
       THEN Outcome(q, req[r].value) ELSE req[q]]
  /\ flight' = [flight EXCEPT ![Test(r)] = None]
  /\ UNCHANGED <<latest, pdf>>

-----------------------------------------------------------------------------
(* generate: the file.                                                     *)

(* Mutation: a report is made each time. *)
NotCached(t) == FALSE

Cached(t) == pdf[t] \notin {"none", "empty"}

ReadFile(r) ==
  /\ At(r, "ReadFile")
  /\ \/ Cached(Test(r)) /\ Return(r, pdf[Test(r)])
     \/ ~Cached(Test(r)) /\ Goto(r, "GetTest")
  /\ UNCHANGED <<latest, pdf, flight>>

(* os.WriteFile: the file is truncated first. *)
OpenFile(r) ==
  /\ At(r, "Open")
  /\ \/ pdf' = [pdf EXCEPT ![Test(r)] = "empty"] /\ Goto(r, "Write")
     \/ Fails(r) /\ UNCHANGED pdf
  /\ UNCHANGED <<latest, flight>>

WritePart(r) ==
  /\ At(r, "Write")
  /\ pdf[Test(r)] = "empty"
  /\ pdf' = [pdf EXCEPT ![Test(r)] = "part"]
  /\ Goto(r, "Write") \/ (Breaks /\ Return(r, "error"))
  /\ UNCHANGED <<latest, flight>>

WriteRest(r) ==
  /\ At(r, "Write")
  /\ pdf' = [pdf EXCEPT ![Test(r)] = req[r].read]
  /\ Return(r, req[r].read)
  /\ UNCHANGED <<latest, flight>>

-----------------------------------------------------------------------------
(* The handlers.                                                           *)

PostGenerate(r, t) ==
  /\ At(r, "idle")
  /\ req' = [req EXCEPT ![r] = [Idle EXCEPT !.pc = "call", !.test = t, !.how = "post"]]
  /\ UNCHANGED <<latest, pdf, flight>>

(* getReportPDF only looks whether there is a file. *)
GetReportPDF(r, t) ==
  /\ At(r, "idle")
  /\ req' = [req EXCEPT ![r] = [Idle EXCEPT !.pc = IF pdf[t] = "none" THEN "call" ELSE "serve",
                                            !.test = t, !.how = "get"]]
  /\ UNCHANGED <<latest, pdf, flight>>

ServeFile(r) ==
  /\ At(r, "serve")
  /\ req' = [req EXCEPT ![r].pc = "answered", ![r].sent = pdf[Test(r)]]
  /\ UNCHANGED <<latest, pdf, flight>>

(* A client is done and another one may come. *)
Leaves(r) ==
  /\ At(r, "answered")
  /\ req' = [req EXCEPT ![r] = Idle]
  /\ UNCHANGED <<latest, pdf, flight>>

Crash ==
  /\ Breaks
  /\ flight' = [t \in Tests |-> None]
  /\ req' = [r \in Requests |-> Idle]
  /\ UNCHANGED <<latest, pdf>>

Step(r) ==
  \/ GenerateReport(r) \/ EndCall(r)
  \/ ReadFile(r) \/ GetTest(r) \/ GetResult(r) \/ GetCandidate(r) \/ GenerateNarrative(r)
  \/ RenderPDF(r) \/ OpenFile(r) \/ WritePart(r) \/ WriteRest(r)
  \/ ServeFile(r)

Next ==
  \/ \E t \in Tests : ResultChanges(t)
  \/ \E r \in Requests :
       \/ \E t \in Tests : PostGenerate(r, t) \/ GetReportPDF(r, t)
       \/ Step(r) \/ Leaves(r)
  \/ Crash

Spec == Init /\ [][Next]_vars

(* Each goroutine runs on; the calls have time limits. *)
Fairness == \A r \in Requests : WF_vars(Step(r))

-----------------------------------------------------------------------------
(* Properties.                                                             *)

TypeOK ==
  /\ latest \in [Tests -> Results \cup {None}]
  /\ pdf    \in [Tests -> File]
  /\ flight \in [Tests -> Requests \cup {None}]
  /\ req    \in [Requests -> Request]

(* Where no write breaks off, whoever has the report made gets a whole one *)
(* and is sent a whole file, however many ask at once: no call reads the   *)
(* file another one is writing (service.go:51, 64, 143, handler.go:49).    *)
WholeReport ==
  \A r \in Requests : req[r].value # "none" =>
    /\ req[r].value \in Results \cup {"error"}
    /\ req[r].sent \notin {"empty", "part"}

(* A report that was once written is the report for good: no request, no   *)
(* failure and no restart writes over it (service.go:64).  That holds also *)
(* when the result has changed since.                                      *)
ReportIsKept == \A t \in Tests : pdf[t] \in Results => pdf'[t] = pdf[t]
ReportStays  == [][ReportIsKept]_vars

(* A request that asks for the report to be made is answered, whatever     *)
(* becomes of the call it waits for, unless the process stops              *)
(* (service.go:52).                                                        *)
RequestAnswered ==
  \A r \in Requests : At(r, "call") ~> At(r, "answered") \/ At(r, "idle")
=============================================================================
