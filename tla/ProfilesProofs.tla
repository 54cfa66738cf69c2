--------------------------- MODULE ProfilesProofs ---------------------------
(***************************************************************************)
(* Proofs about Profiles, for any number of accounts, files and requests,  *)
(* with failing steps and names of images that clients send.               *)
(***************************************************************************)
EXTENDS Profiles, TLAPS

(* Neither a file nor an account is the empty string. *)
Apart == None \notin Paths /\ None \notin Accounts

-----------------------------------------------------------------------------
(* What a row or a request names was uploaded for the account, or a client *)
(* sent the name; what a request has saved, it has saved for its account.  *)
RowsNameOwn ==
  \A a \in Accounts : row[a].image # None => Named(a, row[a].image)

OldIsOwn == \A r \in Requests : req[r].old # None => Named(req[r].a, req[r].old)
NewIsOwn == \A r \in Requests : req[r].new # None => made[req[r].new] = req[r].a
Known    == \A r \in Requests : req[r] = Idle \/ req[r].a \in Accounts

(* Without a PATCH of images nobody has sent a name. *)
NothingSent == ~Patches => \A p \in Paths : sent[p] = {}

Own == RowsNameOwn /\ OldIsOwn /\ NewIsOwn /\ Known /\ NothingSent

IInv == TypeOK /\ Own

LEMMA InitIInv == ASSUME Apart, Init PROVE IInv
BY DEF Apart, Init, IInv, TypeOK, Own, RowsNameOwn, OldIsOwn, NewIsOwn, Known,
       NothingSent, Row, Status, Request, Idle, PC

LEMMA IdleFields ==
  Idle \in Request /\ Idle.pc = "idle" /\ Idle.old = None /\ Idle.new = None
BY DEF Idle, Request, PC

-----------------------------------------------------------------------------
(* The statements.                                                         *)

(* Changed requests, field by field. *)
LEMMA ChangedPc ==
  ASSUME NEW q \in Request, NEW l \in PC
  PROVE  LET c == [q EXCEPT !.pc = l]  IN
         c \in Request /\ c.pc = l /\ c.a = q.a /\ c.old = q.old /\ c.new = q.new
BY DEF Request

LEMMA ImageSet ==
  ASSUME TypeOK, NEW a \in Accounts, NEW p \in Paths \cup {None}, SetImage(a, p)
  PROVE  /\ row' \in [Accounts -> Row]
         /\ \A b \in Accounts : row'[b].image = row[b].image \/ (b = a /\ row'[b].image = p)
         /\ \A b \in Accounts : row'[b].status = row[b].status
         /\ Exists(a) => row'[a].image = p
<1> DEFINE q == IF Exists(a) THEN p ELSE row[a].image
<1>1. q \in Paths \cup {None}
  BY DEF TypeOK, Row
<1>2. row' = [row EXCEPT ![a].image = q]
  BY DEF SetImage
<1>3. (q = p \/ q = row[a].image) /\ (Exists(a) => q = p)
  OBVIOUS
<1> HIDE DEF q
<1> QED BY <1>1, <1>2, <1>3 DEF TypeOK, Row

LEMMA StatusSet ==
  ASSUME TypeOK, NEW a \in Accounts, NEW s \in Status, SetStatus(a, s)
  PROVE  /\ row' \in [Accounts -> Row]
         /\ \A b \in Accounts : /\ row'[b].image = row[b].image
                                /\ row[b].status = "gone" => row'[b].status = "gone"
<1> DEFINE q == IF Exists(a) THEN s ELSE row[a].status
<1>1. q \in Status
  BY DEF TypeOK, Row
<1>2. row' = [row EXCEPT ![a].status = q]
  BY DEF SetStatus
<1>3. row[a].status = "gone" => q = "gone"
  BY DEF Exists
<1> HIDE DEF q
<1> QED BY <1>1, <1>2, <1>3 DEF TypeOK, Row

LEMMA Finished ==
  ASSUME Apart, IInv, NEW r \in Requests, Finish(r)
  PROVE  /\ req' \in [Requests -> Request]
         /\ UNCHANGED <<made, sent>> => OldIsOwn' /\ NewIsOwn' /\ Known'
BY DEF Named, Finish, Idle, IInv, TypeOK, Own, OldIsOwn, NewIsOwn, Known, Request, PC

LEMMA Gone ==
  ASSUME Apart, IInv, NEW r \in Requests, req[r].pc # "idle", NEW l \in PC, Goto(r, l)
  PROVE  /\ req' \in [Requests -> Request]
         /\ UNCHANGED <<made, sent>> => OldIsOwn' /\ NewIsOwn' /\ Known'
<1> DEFINE c == [req[r] EXCEPT !.pc = l]
<1>1. req[r] \in Request /\ req[r].a \in Accounts
  BY IdleFields DEF IInv, TypeOK, Own, Known
<1>2. req' = [req EXCEPT ![r] = c]
  BY DEF Goto
<1>3. c \in Request /\ c.a = req[r].a /\ c.old = req[r].old /\ c.new = req[r].new
  BY <1>1, ChangedPc
<1> HIDE DEF c
<1> QED BY <1>1, <1>2, <1>3 DEF IInv, TypeOK, Own, OldIsOwn, NewIsOwn, Known, Named

-----------------------------------------------------------------------------
(* The steps of an upload.                                                 *)

LEMMA ReadOldKeeps ==
  ASSUME Apart, IInv, NEW r \in Requests, NEW a \in Accounts, ReadOld(r, a)
  PROVE  IInv'
<1> USE DEF IInv
<1>1. PICK q : /\ req' = [req EXCEPT ![r] = q]
               /\ q \in Request /\ q.a = a /\ q.new = None
               /\ q.old # None => q.old = row[a].image
  <2>1. CASE req' = [req EXCEPT ![r] = [Idle EXCEPT !.pc = "save", !.a = a]]
    <3> DEFINE c == [Idle EXCEPT !.pc = "save", !.a = a]
    <3>1. c \in Request /\ c.a = a /\ c.old = None /\ c.new = None
      BY IdleFields DEF Request, PC
    <3>2. req' = [req EXCEPT ![r] = c]
      BY <2>1
    <3> HIDE DEF c
    <3> QED BY <3>1, <3>2
  <2>2. CASE req' = [req EXCEPT ![r] = [Idle EXCEPT !.pc = "save", !.a = a,
                                          !.old = IF Reads(a) THEN row[a].image ELSE None]]
    <3>1. PICK o \in Paths \cup {None} :
            /\ o # None => o = row[a].image
            /\ req' = [req EXCEPT ![r] = [Idle EXCEPT !.pc = "save", !.a = a, !.old = o]]
      BY <2>2 DEF TypeOK, Row
    <3> DEFINE z == Idle
               l == "save"
               c == [z EXCEPT !.pc = l, !.a = a, !.old = o]
    <3>2. c \in Request /\ c.a = a /\ c.old = o /\ c.new = None
      <4>1. z \in Request /\ z.new = None /\ l \in PC
        BY IdleFields DEF PC
      <4> HIDE DEF z, l
      <4>2. o \in Paths \cup {None}
        BY <3>1
      <4> QED BY <4>1, <4>2 DEF Request
    <3>3. req' = [req EXCEPT ![r] = c]
      BY <3>1
    <3> HIDE DEF c
    <3> QED BY <3>1, <3>2, <3>3
  <2> QED BY <2>1, <2>2 DEF ReadOld, Enter
<1>2. TypeOK'
  BY <1>1 DEF ReadOld, TypeOK
<1>3. Own'
  BY <1>1 DEF ReadOld, TypeOK, Own, RowsNameOwn, OldIsOwn, NewIsOwn, Known, NothingSent, Named
<1> QED BY <1>2, <1>3

LEMMA SaveFileKeeps ==
  ASSUME Apart, IInv, NEW r \in Requests, NEW p \in Paths, SaveFile(r, p)
  PROVE  IInv'
<1> USE DEF IInv
<1> DEFINE q == req[r]
<1>1. q \in Request /\ q.a \in Accounts /\ q.pc = "save"
  BY IdleFields DEF SaveFile, At, TypeOK, Own, Known
<1>2. made[p] = None /\ made' = [made EXCEPT ![p] = q.a] /\ row' = row /\ sent' = sent
  BY DEF SaveFile
<1>3. made' \in [Paths -> Accounts \cup {None}]
  BY <1>1, <1>2 DEF TypeOK
<1>4. file' \in [Paths -> {"none", "part", "whole"}]
  BY DEF SaveFile, TypeOK
<1>5. \A x \in Paths : made[x] \in Accounts => made'[x] = made[x]
  BY <1>2 DEF Apart, TypeOK
<1>6. RowsNameOwn'
  BY <1>2, <1>5 DEF TypeOK, Row, Own, RowsNameOwn, Named
<1>7. \A x \in Requests : /\ req[x].old # None => \/ made'[req[x].old] = req[x].a
                                                  \/ req[x].a \in sent'[req[x].old]
                          /\ req[x].new # None => made'[req[x].new] = req[x].a
  <2> SUFFICES ASSUME NEW x \in Requests
               PROVE  /\ req[x].old # None => \/ made'[req[x].old] = req[x].a
                                              \/ req[x].a \in sent'[req[x].old]
                      /\ req[x].new # None => made'[req[x].new] = req[x].a
    OBVIOUS
  <2>1. CASE req[x].a \in Accounts
    BY <2>1, <1>2, <1>5 DEF TypeOK, Request, Own, OldIsOwn, NewIsOwn, Named
  <2>2. CASE req[x] = Idle
    BY <2>2, IdleFields
  <2> QED BY <2>1, <2>2 DEF Own, Known
<1>8. PICK s : /\ req' = [req EXCEPT ![r] = s]
               /\ s \in Request /\ (s = Idle \/ s.a = q.a)
               /\ s.old # None => s.old = q.old
               /\ s.new # None => s.new = p
  <2>1. CASE Finish(r)
    BY <2>1, IdleFields DEF Finish
  <2>2. CASE Enter(r, [q EXCEPT !.pc = IF q.old # None THEN "remove" ELSE "update", !.new = p])
    <3>1. PICK l \in {"remove", "update"} : Enter(r, [q EXCEPT !.pc = l, !.new = p])
      BY <2>2
    <3> DEFINE c == [q EXCEPT !.pc = l, !.new = p]
    <3>2. c \in Request /\ c.a = q.a /\ c.old = q.old /\ c.new = p
      <4>1. l \in PC /\ q \in Request
        BY <1>1 DEF PC
      <4> HIDE DEF q
      <4> QED BY <4>1 DEF Request
    <3>3. req' = [req EXCEPT ![r] = c]
      BY <3>1 DEF Enter
    <3> HIDE DEF c, q
    <3> QED BY <3>2, <3>3
  <2> QED BY <2>1, <2>2 DEF SaveFile
<1> HIDE DEF q
<1>9. TypeOK'
  BY <1>2, <1>3, <1>4, <1>8 DEF TypeOK
<1>10. OldIsOwn' /\ NewIsOwn'
  <2>1. made'[p] = req[r].a
    BY <1>2 DEF TypeOK, q
  <2> SUFFICES ASSUME NEW x \in Requests
               PROVE  /\ req'[x].old # None => \/ made'[req'[x].old] = req'[x].a
                                               \/ req'[x].a \in sent'[req'[x].old]
                      /\ req'[x].new # None => made'[req'[x].new] = req'[x].a
    BY DEF OldIsOwn, NewIsOwn, Named
  <2>2. CASE x # r
    BY <2>2, <1>7, <1>8 DEF TypeOK, Named
  <2>3. CASE x = r
    BY <2>1, <2>3, <1>7, <1>8, IdleFields DEF TypeOK, q, Named
  <2> QED BY <2>2, <2>3
<1>11. Known'
  BY <1>1, <1>8 DEF Own, Known, TypeOK
<1>12. NothingSent'
  BY <1>2 DEF Own, NothingSent
<1> QED BY <1>6, <1>9, <1>10, <1>11, <1>12 DEF Own

(* The steps after the file is saved; row and req only, or file and req. *)
LEMMA StepKeeps ==
  ASSUME Apart, IInv, NEW r \in Requests,
         \/ RefuseFile(r) \/ RemoveOld(r) \/ UpdateImage(r) \/ UndoSave(r)
         \/ DeleteSuperAdminRow(r) \/ RequestDies(r)
  PROVE  IInv'
<1> USE DEF IInv
<1>1. made' = made /\ sent' = sent /\ req[r].pc # "idle"
  BY DEF RefuseFile, RemoveOld, UpdateImage, UndoSave, DeleteSuperAdminRow, RequestDies, At
<1>2. req[r] \in Request /\ req[r].a \in Accounts
  BY <1>1, IdleFields DEF Own, Known, TypeOK
<1>3. req' \in [Requests -> Request] /\ OldIsOwn' /\ NewIsOwn' /\ Known'
  <2>1. CASE Finish(r)
    BY <1>1, <2>1, Finished
  <2>2. ASSUME NEW l \in PC, Goto(r, l) PROVE <1>3!:
    BY <1>1, <2>2, Gone
  <2> QED
    BY <2>1, <2>2 DEF RefuseFile, RemoveOld, UpdateImage, UndoSave, DeleteSuperAdminRow,
                      RequestDies, PC
<1>4. file' \in [Paths -> {"none", "part", "whole"}]
  BY DEF RefuseFile, RemoveOld, UpdateImage, UndoSave, DeleteSuperAdminRow, RequestDies,
         RemoveFile, TypeOK
<1>5. row' \in [Accounts -> Row] /\ RowsNameOwn'
  <2>1. CASE SetImage(req[r].a, req[r].new)
    BY <1>1, <1>2, <2>1, ImageSet DEF Request, Own, RowsNameOwn, NewIsOwn, Named
  <2>2. CASE SetStatus(req[r].a, "gone")
    BY <1>1, <1>2, <2>2, StatusSet DEF Status, Own, RowsNameOwn, Named
  <2>3. CASE UNCHANGED row
    BY <1>1, <2>3 DEF TypeOK, Own, RowsNameOwn, Named
  <2> QED
    BY <2>1, <2>2, <2>3 DEF RefuseFile, RemoveOld, UpdateImage, UndoSave, DeleteSuperAdminRow,
                            RequestDies
<1> QED BY <1>1, <1>3, <1>4, <1>5 DEF TypeOK, Own, NothingSent

LEMMA DeleteSuperAdminKeeps ==
  ASSUME Apart, IInv, NEW r \in Requests, NEW s \in Accounts, NEW a \in Accounts,
         DeleteSuperAdmin(r, s, a)
  PROVE  IInv'
<1> USE DEF IInv
<1>1. PICK q : /\ req' = [req EXCEPT ![r] = q]
               /\ q \in Request /\ q.a = a /\ q.new = None /\ q.old = None
  <2> DEFINE c == [Idle EXCEPT !.pc = "delete", !.a = a]
  <2>1. c \in Request /\ c.a = a /\ c.old = None /\ c.new = None
    BY IdleFields DEF Request, PC
  <2>2. req' = [req EXCEPT ![r] = c]
    BY DEF DeleteSuperAdmin, Enter
  <2> HIDE DEF c
  <2> QED BY <2>1, <2>2
<1>2. TypeOK'
  BY <1>1 DEF DeleteSuperAdmin, TypeOK
<1>3. Own'
  BY <1>1 DEF DeleteSuperAdmin, TypeOK, Own, RowsNameOwn, OldIsOwn, NewIsOwn, Known,
              NothingSent, Named
<1> QED BY <1>2, <1>3

(* The handlers of one statement. *)
LEMMA HandlerKeeps ==
  ASSUME Apart, IInv, NEW a \in Accounts,
         Candidate(a) \/ Expert(a) \/ Institute(a) \/ Authority(a) \/ Admin(a)
  PROVE  IInv' /\ UNCHANGED file
<1> USE DEF IInv
<1>1. UNCHANGED <<file, made, req>>
  BY DEF Candidate, Expert, Institute, Authority, Admin, PatchImage, PutStatus, DeleteRow
<1>2. CASE PatchImage(a)
  <2>1. PICK p \in {None} \cup {x \in Paths : made[x] # None} :
          /\ SetImage(a, p)
          /\ sent' = [x \in Paths |-> IF x = p THEN sent[x] \cup ({a} \ {made[x]}) ELSE sent[x]]
    BY <1>2 DEF PatchImage
  <2>2. p \in Paths \cup {None} /\ (p # None => Named(a, p)')
    BY <1>1, <2>1 DEF Named
  <2>3. sent' \in [Paths -> SUBSET Accounts] /\ \A x \in Paths : sent[x] \subseteq sent'[x]
    BY <2>1 DEF TypeOK
  <2>4. row' \in [Accounts -> Row] /\ RowsNameOwn'
    BY <1>1, <2>1, <2>2, <2>3, ImageSet DEF TypeOK, Row, Own, RowsNameOwn, Named
  <2>5. OldIsOwn' /\ NewIsOwn' /\ Known'
    BY <1>1, <2>3 DEF TypeOK, Request, Own, OldIsOwn, NewIsOwn, Known, Named
  <2>6. NothingSent'
    BY <1>2 DEF PatchImage, NothingSent
  <2> QED BY <1>1, <2>3, <2>4, <2>5, <2>6 DEF TypeOK, Own
<1>3. CASE PutStatus(a) \/ DeleteRow(a)
  <2>1. UNCHANGED sent
    BY <1>3 DEF PutStatus, DeleteRow
  <2>2. row' \in [Accounts -> Row] /\ RowsNameOwn'
    <3>1. CASE PutStatus(a)
      BY <1>1, <2>1, <3>1, StatusSet DEF PutStatus, Status, Own, RowsNameOwn, Named
    <3>2. CASE DeleteRow(a)
      BY <1>1, <2>1, <3>2 DEF DeleteRow, Status, Row, TypeOK, Own, RowsNameOwn, Named
    <3> QED BY <1>3, <3>1, <3>2
  <2> QED BY <1>1, <2>1, <2>2 DEF TypeOK, Own, OldIsOwn, NewIsOwn, Known, NothingSent, Named
<1> QED BY <1>1, <1>2, <1>3 DEF Candidate, Expert, Institute, Authority, Admin

LEMMA NextIInv == ASSUME Apart, IInv, [Next]_vars PROVE IInv'
<1>1. CASE UNCHANGED vars
  BY <1>1 DEF vars, IInv, TypeOK, Own, RowsNameOwn, OldIsOwn, NewIsOwn, Known, NothingSent, Named
<1>2. ASSUME NEW r \in Requests, Begin(r) PROVE IInv'
  BY <1>2, ReadOldKeeps, DeleteSuperAdminKeeps DEF Begin
<1>3. ASSUME NEW r \in Requests, Continue(r) PROVE IInv'
  BY <1>3, SaveFileKeeps, StepKeeps DEF Continue
<1> QED BY <1>1, <1>2, <1>3, HandlerKeeps DEF Next

LEMMA Invariant == ASSUME Apart PROVE Spec => []IInv
BY InitIInv, NextIInv, PTL DEF Spec

(* Rows, files and what each upload keeps between its steps stay well      *)
(* typed (handler.go:1268-1324).                                           *)
THEOREM TypeCorrect == ASSUME Apart PROVE Spec => []TypeOK
<1>1. IInv => TypeOK
  BY DEF IInv
<1> QED BY <1>1, Invariant, PTL

-----------------------------------------------------------------------------
(* Deleted files.                                                          *)

LEMMA OwnRemoved == ASSUME Apart, IInv, Next PROVE OwnFileRemoved
<1> USE DEF IInv
<1> SUFFICES ASSUME NEW p \in Paths, file[p] # "none", file'[p] = "none"
             PROVE  \E r \in Requests : req'[r] # req[r] /\ Named(req[r].a, p)
  BY DEF OwnFileRemoved
<1>1. PICK r \in Requests :
        \/ RemoveOld(r) /\ RemoveFile(req[r].old)
        \/ UndoSave(r) /\ RemoveFile(req[r].new)
  <2>1. ASSUME NEW r \in Requests, NEW x \in Paths, SaveFile(r, x) PROVE FALSE
    BY <2>1 DEF SaveFile, TypeOK
  <2>2. ASSUME NEW r \in Requests, UpdateImage(r) \/ RefuseFile(r) \/ DeleteSuperAdminRow(r)
                                    \/ RequestDies(r) \/ Begin(r)
        PROVE  FALSE
    BY <2>2 DEF UpdateImage, RefuseFile, DeleteSuperAdminRow, RequestDies, Begin, ReadOld,
                DeleteSuperAdmin
  <2>3. ASSUME NEW a \in Accounts,
               Candidate(a) \/ Expert(a) \/ Institute(a) \/ Authority(a) \/ Admin(a)
        PROVE  FALSE
    BY <2>3, HandlerKeeps
  <2>4. ASSUME NEW r \in Requests, RemoveOld(r) \/ UndoSave(r)
        PROVE  \/ RemoveOld(r) /\ RemoveFile(req[r].old)
               \/ UndoSave(r) /\ RemoveFile(req[r].new)
    BY <2>4 DEF RemoveOld, UndoSave
  <2>5. \E r \in Requests : RemoveOld(r) \/ UndoSave(r)
    BY <2>1, <2>2, <2>3 DEF Next, Continue
  <2> QED BY <2>4, <2>5
<1>2. p = req[r].old \/ p = req[r].new
  BY <1>1 DEF RemoveFile, TypeOK
<1>3. p # None
  BY DEF Apart
<1>4. Named(req[r].a, p)
  BY <1>2, <1>3 DEF Own, OldIsOwn, NewIsOwn, Named
<1>5. req'[r].pc # req[r].pc
  <2>1. CASE RemoveOld(r)
    BY <2>1 DEF RemoveOld, Goto, At, TypeOK, Request
  <2>2. CASE UndoSave(r)
    BY <2>2, IdleFields DEF UndoSave, Finish, At, TypeOK
  <2> QED BY <1>1, <2>1, <2>2
<1> QED BY <1>4, <1>5

(* However uploads cross, fail and are undone, a file is deleted only by   *)
(* an upload for the account it was uploaded for, or for one whose client  *)
(* has sent its name (handler.go:1151, 1297, media.go:122).                *)
THEOREM OthersFilesKept == ASSUME Apart PROVE Spec => UploadKeepsOthersFiles
<1>1. IInv /\ [Next]_vars => [OwnFileRemoved]_vars
  BY OwnRemoved
<1> QED BY <1>1, Invariant, PTL DEF Spec, UploadKeepsOthersFiles

-----------------------------------------------------------------------------
(* The files that rows name, while nothing fails and no name is sent.      *)

(* What a request has read and saved, by where it stands. *)
Steady ==
  \A r \in Requests :
    /\ req[r].pc # "undo"
    /\ req[r].old # None => req[r].pc \in {"save", "remove", "update"}
    /\ req[r].new # None <=> req[r].pc \in {"remove", "update"}
    /\ req[r].pc = "remove" => req[r].old # None

(* A saved file is whole, and nobody else knows its name. *)
NewIsApart ==
  \A r \in Requests : req[r].new # None =>
    /\ file[req[r].new] = "whole"
    /\ \A a \in Accounts : row[a].image # req[r].new
    /\ \A x \in Requests : req[x].old # req[r].new /\ (x # r => req[x].new # req[r].new)

(* What a row names is there, or an upload for it has just removed it. *)
ImageIsThere ==
  \A a \in Accounts : Exists(a) /\ row[a].image # None =>
    \/ file[row[a].image] = "whole"
    \/ \E r \in Requests : At(r, "update") /\ req[r].a = a /\ req[r].old = row[a].image

Files == Steady /\ NewIsApart /\ ImageIsThere

(* No statement fails, and no client sends the name of an image. *)
Smooth == ~Faults /\ ~Patches

Others(r) == \A x \in Requests : x # r => req'[x] = req[x]

(* The changes of a request that the steps make. *)
LEMMA FinishDoes ==
  ASSUME TypeOK, NEW r \in Requests, Finish(r)
  PROVE  Others(r) /\ req'[r] = Idle
BY DEF TypeOK, Finish, Others

LEMMA GotoDoes ==
  ASSUME TypeOK, NEW r \in Requests, NEW l \in PC, Goto(r, l)
  PROVE  /\ Others(r)
         /\ req'[r].pc = l /\ req'[r].a = req[r].a
         /\ req'[r].old = req[r].old /\ req'[r].new = req[r].new
<1> DEFINE c == [req[r] EXCEPT !.pc = l]
<1>1. req' = [req EXCEPT ![r] = c]
  BY DEF Goto
<1>2. c.pc = l /\ c.a = req[r].a /\ c.old = req[r].old /\ c.new = req[r].new
  BY ChangedPc DEF TypeOK
<1> HIDE DEF c
<1> QED BY <1>1, <1>2 DEF TypeOK, Others

LEMMA ReadOldDoes ==
  ASSUME Smooth, TypeOK, NEW r \in Requests, NEW a \in Accounts, ReadOld(r, a)
  PROVE  /\ Others(r)
         /\ req'[r].pc = "save" /\ req'[r].a = a /\ req'[r].new = None
         /\ req'[r].old = IF Reads(a) THEN row[a].image ELSE None
<1> DEFINE o == IF Reads(a) THEN row[a].image ELSE None
           c == [Idle EXCEPT !.pc = "save", !.a = a, !.old = o]
<1>1. req' = [req EXCEPT ![r] = c]
  BY DEF ReadOld, Enter, Smooth
<1>2. c.pc = "save" /\ c.a = a /\ c.old = o /\ c.new = None
  <2> HIDE DEF o
  <2> QED BY DEF Idle
<1> HIDE DEF c
<1> QED BY <1>1, <1>2 DEF TypeOK, Others

LEMMA SaveFileDoes ==
  ASSUME Smooth, TypeOK, NEW r \in Requests, NEW p \in Paths, SaveFile(r, p)
  PROVE  /\ Others(r)
         /\ req'[r].pc = IF req[r].old # None THEN "remove" ELSE "update"
         /\ req'[r].a = req[r].a /\ req'[r].old = req[r].old /\ req'[r].new = p
<1> DEFINE l == IF req[r].old # None THEN "remove" ELSE "update"
           c == [req[r] EXCEPT !.pc = l, !.new = p]
<1>1. req' = [req EXCEPT ![r] = c]
  BY DEF SaveFile, Enter, Smooth
<1>2. c.pc = l /\ c.a = req[r].a /\ c.old = req[r].old /\ c.new = p
  <2> HIDE DEF l
  <2> QED BY DEF TypeOK, Request
<1> HIDE DEF c
<1> QED BY <1>1, <1>2 DEF TypeOK, Others

LEMMA DeleteSuperAdminDoes ==
  ASSUME TypeOK, NEW r \in Requests, NEW s \in Accounts, NEW a \in Accounts,
         DeleteSuperAdmin(r, s, a)
  PROVE  Others(r) /\ req'[r].pc = "delete" /\ req'[r].old = None /\ req'[r].new = None
<1> DEFINE c == [Idle EXCEPT !.pc = "delete", !.a = a]
<1>1. req' = [req EXCEPT ![r] = c]
  BY DEF DeleteSuperAdmin, Enter
<1>2. c.pc = "delete" /\ c.old = None /\ c.new = None
  BY DEF Idle
<1> HIDE DEF c
<1> QED BY <1>1, <1>2 DEF TypeOK, Others

LEMMA InitFiles == ASSUME Init PROVE Files
BY DEF Init, Files, Steady, NewIsApart, ImageIsThere, Idle

LEMMA ReadOldFiles ==
  ASSUME Apart, Smooth, IInv, Files, NEW r \in Requests, NEW a \in Accounts, ReadOld(r, a)
  PROVE  Files'
<1> USE DEF IInv, Files
<1>1. UNCHANGED <<row, file>> /\ req[r].pc = "idle"
  BY DEF ReadOld, At
<1>2. Steady'
  BY ReadOldDoes DEF Steady, Others
<1>3. NewIsApart'
  BY <1>1, ReadOldDoes DEF NewIsApart, Others
<1>4. ImageIsThere'
  BY <1>1, ReadOldDoes DEF ImageIsThere, Exists, At, Others
<1> QED BY <1>2, <1>3, <1>4

LEMMA SaveFileFiles ==
  ASSUME Apart, Smooth, IInv, Files, NEW r \in Requests, NEW p \in Paths, SaveFile(r, p)
  PROVE  Files'
<1> USE DEF IInv, Files
<1>1. /\ row' = row /\ req[r].pc = "save" /\ req[r].new = None
      /\ file[p] = "none" /\ made[p] = None
  BY DEF SaveFile, At, Steady
<1>2. file' = [file EXCEPT ![p] = "whole"]
  BY DEF SaveFile, Smooth
<1>3. p # None /\ (\A a \in Accounts : a # None)
  BY DEF Apart
<1>4. \A a \in Accounts : row[a].image # p
  BY <1>1, <1>3 DEF Own, RowsNameOwn, NothingSent, Smooth, Named
<1>5. \A x \in Requests : req[x].old # p /\ req[x].new # p
  BY <1>1, <1>3, IdleFields DEF Own, OldIsOwn, NewIsOwn, Known, NothingSent, Smooth, Named
<1>6. Steady'
  BY <1>1, <1>3, SaveFileDoes DEF Steady, Others
<1>7. NewIsApart'
  <2> SUFFICES ASSUME NEW z \in Requests, req'[z].new # None
               PROVE  /\ file'[req'[z].new] = "whole"
                      /\ \A a \in Accounts : row'[a].image # req'[z].new
                      /\ \A x \in Requests : /\ req'[x].old # req'[z].new
                                             /\ x # z => req'[x].new # req'[z].new
    BY DEF NewIsApart
  <2>1. CASE z = r
    BY <2>1, <1>1, <1>2, <1>4, <1>5, SaveFileDoes DEF Others, TypeOK
  <2>2. CASE z # r
    <3>1. req'[z] = req[z]
      BY <2>2, SaveFileDoes DEF Others
    <3>2. req[z].new \in Paths /\ file[req[z].new] = "whole"
      BY <3>1 DEF NewIsApart, TypeOK, Request
    <3>3. file'[req[z].new] = "whole"
      BY <3>2, <1>2 DEF TypeOK
    <3>4. \A a \in Accounts : row'[a].image # req[z].new
      BY <3>1, <1>1 DEF NewIsApart
    <3>5. \A x \in Requests : req'[x].old = req[x].old
      BY SaveFileDoes DEF Others
    <3>6. \A x \in Requests : req'[x].new = req[x].new \/ req'[x].new = p
      BY SaveFileDoes DEF Others
    <3> QED BY <3>1, <3>3, <3>4, <3>5, <3>6, <1>5 DEF NewIsApart
  <2> QED BY <2>1, <2>2
<1>8. ImageIsThere'
  <2> SUFFICES ASSUME NEW a \in Accounts, Exists(a), row[a].image # None
               PROVE  \/ file'[row[a].image] = "whole"
                      \/ \E x \in Requests : /\ req'[x].pc = "update" /\ req'[x].a = a
                                             /\ req'[x].old = row[a].image
    BY <1>1 DEF ImageIsThere, Exists, At
  <2>1. CASE file[row[a].image] = "whole"
    BY <2>1, <1>2 DEF TypeOK, Row
  <2>2. CASE \E x \in Requests : At(x, "update") /\ req[x].a = a /\ req[x].old = row[a].image
    <3>1. PICK x \in Requests : req[x].pc = "update" /\ req[x].a = a /\ req[x].old = row[a].image
      BY <2>2 DEF At
    <3>2. req'[x] = req[x]
      BY <3>1, <1>1, SaveFileDoes DEF Others
    <3> QED BY <3>1, <3>2
  <2> QED BY <2>1, <2>2 DEF ImageIsThere
<1> QED BY <1>6, <1>7, <1>8

LEMMA RemoveOldFiles ==
  ASSUME Apart, Smooth, IInv, Files, NEW r \in Requests, RemoveOld(r)
  PROVE  Files'
<1> USE DEF IInv, Files
<1> DEFINE p == req[r].old
<1>1. /\ UNCHANGED <<row, made>> /\ req[r].pc = "remove"
      /\ p \in Paths /\ p # None /\ made[p] = req[r].a
  BY DEF RemoveOld, At, Steady, TypeOK, Request, Own, OldIsOwn, NothingSent, Smooth, Named
<1>2. file' = [file EXCEPT ![p] = "none"]
  BY DEF RemoveOld, RemoveFile, Smooth
<1>3. /\ Others(r) /\ req'[r].pc = "update" /\ req'[r].a = req[r].a
      /\ req'[r].old = p /\ req'[r].new = req[r].new
  BY GotoDoes DEF RemoveOld, PC
<1> HIDE DEF p
<1>4. Steady'
  BY <1>1, <1>3 DEF Steady, Others
<1>5. \A x \in Requests : req[x].new # p
  BY <1>1 DEF NewIsApart, p
<1>6. \A x \in Requests : req'[x].old = req[x].old /\ req'[x].new = req[x].new
  BY <1>3 DEF Others, p
<1>7. \A q \in Paths : q # p => file'[q] = file[q]
  BY <1>2 DEF TypeOK
<1>8. NewIsApart'
  <2> SUFFICES ASSUME NEW z \in Requests, req[z].new # None
               PROVE  file'[req[z].new] = "whole"
    BY <1>1, <1>6 DEF NewIsApart
  <2> QED BY <1>5, <1>7 DEF NewIsApart, TypeOK, Request
<1>9. ImageIsThere'
  <2> SUFFICES ASSUME NEW a \in Accounts, Exists(a), row[a].image # None
               PROVE  \/ file'[row[a].image] = "whole"
                      \/ \E x \in Requests : /\ req'[x].pc = "update" /\ req'[x].a = a
                                             /\ req'[x].old = row[a].image
    BY <1>1 DEF ImageIsThere, Exists, At
  <2>1. CASE row[a].image = p
    <3>1. req[r].a = a
      BY <2>1, <1>1 DEF Own, RowsNameOwn, NothingSent, Smooth, Named
    <3> QED BY <2>1, <3>1, <1>3
  <2>2. CASE row[a].image # p /\ file[row[a].image] = "whole"
    BY <2>2, <1>7 DEF TypeOK, Row
  <2>3. CASE \E x \in Requests : At(x, "update") /\ req[x].a = a /\ req[x].old = row[a].image
    <3>1. PICK x \in Requests : req[x].pc = "update" /\ req[x].a = a /\ req[x].old = row[a].image
      BY <2>3 DEF At
    <3>2. req'[x] = req[x]
      BY <3>1, <1>1, <1>3 DEF Others
    <3> QED BY <3>1, <3>2
  <2> QED BY <2>1, <2>2, <2>3 DEF ImageIsThere
<1> QED BY <1>4, <1>8, <1>9

LEMMA UpdateImageFiles ==
  ASSUME Apart, Smooth, IInv, Files, NEW r \in Requests, UpdateImage(r)
  PROVE  Files'
<1> USE DEF IInv, Files
<1> DEFINE p == req[r].new
<1>1. /\ UNCHANGED <<file, made>> /\ req[r].pc = "update"
      /\ SetImage(req[r].a, p) /\ Finish(r)
  BY DEF UpdateImage, At, Smooth
<1>2. p \in Paths /\ p # None /\ req[r].a \in Accounts /\ file[p] = "whole"
  BY <1>1, IdleFields DEF Steady, NewIsApart, TypeOK, Request, Own, Known
<1>3. Others(r) /\ req'[r].pc = "idle" /\ req'[r].old = None /\ req'[r].new = None
  BY <1>1, FinishDoes, IdleFields
<1>4. /\ \A b \in Accounts : /\ row'[b].image = row[b].image \/ (b = req[r].a /\ row'[b].image = p)
                             /\ row'[b].status = row[b].status
      /\ Exists(req[r].a) => row'[req[r].a].image = p
  BY <1>1, <1>2, ImageSet
<1>5. Steady'
  BY <1>3 DEF Steady, Others
<1>6. \A x \in Requests : x # r => req[x].new # p \/ req[x].new = None
  BY <1>2 DEF NewIsApart
<1>7. NewIsApart'
  BY <1>1, <1>3, <1>4, <1>6 DEF NewIsApart, Others
<1>8. ImageIsThere'
  <2> SUFFICES ASSUME NEW a \in Accounts, Exists(a)', row'[a].image # None
               PROVE  \/ file'[row'[a].image] = "whole"
                      \/ \E x \in Requests : /\ req'[x].pc = "update" /\ req'[x].a = a
                                             /\ req'[x].old = row'[a].image
    BY DEF ImageIsThere, At
  <2>1. Exists(a)
    BY <1>4 DEF Exists
  <2>2. CASE a = req[r].a
    BY <2>1, <2>2, <1>1, <1>2, <1>4
  <2>3. CASE a # req[r].a
    <3>1. row'[a].image = row[a].image
      BY <2>3, <1>4
    <3>2. CASE file[row[a].image] = "whole"
      BY <3>1, <3>2, <1>1
    <3>3. CASE \E x \in Requests : At(x, "update") /\ req[x].a = a /\ req[x].old = row[a].image
      <4>1. PICK x \in Requests : req[x].pc = "update" /\ req[x].a = a /\ req[x].old = row[a].image
        BY <3>3 DEF At
      <4>2. req'[x] = req[x]
        BY <4>1, <2>3, <1>3 DEF Others
      <4> QED BY <3>1, <4>1, <4>2
    <3> QED BY <2>1, <3>1, <3>2, <3>3 DEF ImageIsThere
  <2> QED BY <2>2, <2>3
<1> QED BY <1>5, <1>7, <1>8

(* Rows are written, and no image: statuses only, or a request that names  *)
(* no file begins or ends.                                                 *)
LEMMA StatusFiles ==
  ASSUME Files, UNCHANGED file, Steady',
         \A a \in Accounts : row'[a].image = row[a].image /\ (Exists(a)' => Exists(a)),
         \A x \in Requests : req'[x] = req[x]
                             \/ (req'[x].old = None /\ req'[x].new = None
                                 /\ req[x].pc # "update")
  PROVE  Files'
<1> USE DEF Files
<1>1. \A x \in Requests : /\ req'[x].old = req[x].old \/ req'[x].old = None
                          /\ req'[x].new = req[x].new \/ req'[x].new = None
  OBVIOUS
<1>2. NewIsApart'
  BY <1>1 DEF NewIsApart
<1>3. ImageIsThere'
  <2> SUFFICES ASSUME NEW a \in Accounts, Exists(a), row[a].image # None
               PROVE  \/ file[row[a].image] = "whole"
                      \/ \E x \in Requests : /\ req'[x].pc = "update" /\ req'[x].a = a
                                             /\ req'[x].old = row[a].image
    BY DEF ImageIsThere, At
  <2>1. CASE file[row[a].image] = "whole"
    BY <2>1
  <2>2. CASE \E x \in Requests : At(x, "update") /\ req[x].a = a /\ req[x].old = row[a].image
    <3>1. PICK x \in Requests : req[x].pc = "update" /\ req[x].a = a /\ req[x].old = row[a].image
      BY <2>2 DEF At
    <3>2. req'[x] = req[x]
      BY <3>1
    <3> QED BY <3>1, <3>2
  <2> QED BY <2>1, <2>2 DEF ImageIsThere
<1> QED BY <1>2, <1>3

LEMMA RequestStatus ==
  ASSUME Apart, Smooth, IInv, Files, NEW r \in Requests,
         \/ RefuseFile(r) \/ UndoSave(r) \/ DeleteSuperAdminRow(r) \/ RequestDies(r)
         \/ \E s, a \in Accounts : DeleteSuperAdmin(r, s, a)
  PROVE  \A a \in Accounts : row'[a].image = row[a].image /\ (Exists(a)' => Exists(a))
<1> USE DEF IInv
<1>1. CASE UNCHANGED row
  BY <1>1 DEF Exists
<1>2. CASE SetStatus(req[r].a, "gone") /\ req[r].a \in Accounts
  BY <1>2, StatusSet DEF Exists, Status
<1>3. At(r, "delete") => req[r].a \in Accounts
  BY IdleFields DEF At, Own, Known
<1> QED BY <1>1, <1>2, <1>3 DEF RefuseFile, UndoSave, DeleteSuperAdminRow, RequestDies,
                                DeleteSuperAdmin, Smooth, Files, Steady, At

LEMMA RequestFiles ==
  ASSUME Apart, Smooth, IInv, Files, NEW r \in Requests,
         \/ RefuseFile(r) \/ UndoSave(r) \/ DeleteSuperAdminRow(r) \/ RequestDies(r)
         \/ \E s, a \in Accounts : DeleteSuperAdmin(r, s, a)
  PROVE  Files'
<1> USE DEF IInv
<1>1. /\ UNCHANGED file /\ req[r].pc \notin {"update", "undo"}
      /\ Others(r) /\ req'[r].old = None /\ req'[r].new = None
      /\ req'[r].pc \in {"idle", "delete"}
  BY FinishDoes, DeleteSuperAdminDoes, IdleFields
     DEF RefuseFile, UndoSave, DeleteSuperAdminRow, RequestDies, DeleteSuperAdmin, At, Smooth,
         Files, Steady
<1>2. \A a \in Accounts : row'[a].image = row[a].image /\ (Exists(a)' => Exists(a))
  BY RequestStatus
<1>3. Steady'
  BY <1>1 DEF Files, Steady, Others
<1> QED BY <1>1, <1>2, <1>3, StatusFiles DEF Others

LEMMA HandlerStatus ==
  ASSUME Smooth, TypeOK, NEW a \in Accounts,
         Candidate(a) \/ Expert(a) \/ Institute(a) \/ Authority(a) \/ Admin(a)
  PROVE  /\ UNCHANGED <<file, made, req>>
         /\ \A b \in Accounts : row'[b].image = row[b].image /\ (Exists(b)' => Exists(b))
<1>1. ~PatchImage(a)
  BY DEF PatchImage, Smooth
<1>2. CASE PutStatus(a)
  BY <1>2, StatusSet DEF PutStatus, Status, Exists
<1>3. CASE DeleteRow(a)
  BY <1>3 DEF DeleteRow, TypeOK, Row, Exists
<1> QED BY <1>1, <1>2, <1>3 DEF Candidate, Expert, Institute, Authority, Admin

LEMMA HandlerFiles ==
  ASSUME Smooth, TypeOK, Files, NEW a \in Accounts,
         Candidate(a) \/ Expert(a) \/ Institute(a) \/ Authority(a) \/ Admin(a)
  PROVE  Files'
<1>1. Steady'
  BY HandlerStatus DEF Files, Steady
<1> QED BY <1>1, HandlerStatus, StatusFiles

LEMMA NextFiles == ASSUME Apart, Smooth, IInv, Files, [Next]_vars PROVE Files'
<1>1. CASE UNCHANGED vars
  BY <1>1 DEF vars, Files, Steady, NewIsApart, ImageIsThere, Exists, At
<1>2. ASSUME NEW r \in Requests, Begin(r) PROVE Files'
  BY <1>2, ReadOldFiles, RequestFiles DEF Begin
<1>3. ASSUME NEW r \in Requests, Continue(r) PROVE Files'
  BY <1>3, SaveFileFiles, RemoveOldFiles, UpdateImageFiles, RequestFiles DEF Continue
<1>4. TypeOK
  BY DEF IInv
<1> QED BY <1>1, <1>2, <1>3, <1>4, HandlerFiles DEF Next

LEMMA FilesInvariant == ASSUME Apart, Smooth PROVE Spec => [](IInv /\ Files)
<1>1. Init => IInv /\ Files
  BY InitIInv, InitFiles
<1>2. IInv /\ Files /\ [Next]_vars => IInv' /\ Files'
  BY NextIInv, NextFiles
<1> QED BY <1>1, <1>2, PTL DEF Spec

(* However many uploads for an account cross each other, its row names a   *)
(* file that is there, except between the removal of the old file and the  *)
(* update of the row (handler.go:1275-1321, media.go:122-131).  With       *)
(* failures it is false: Replace removes the old file first.               *)
THEOREM RowsNameFiles == ASSUME Apart, Smooth PROVE Spec => []RowNamesFile
<1>1. IInv /\ Files => RowNamesFile
  BY DEF Files, ImageIsThere, RowNamesFile, Replacing, At
<1> QED BY <1>1, FilesInvariant, PTL

-----------------------------------------------------------------------------
(* No file is left behind, while there is one upload at a time.            *)

OneRequest == \A r, x \in Requests : r = x

(* What the upload read is what the row still names, and it is gone when   *)
(* the row is about to be updated.                                         *)
OldIsCurrent ==
  \A r \in Requests :
    req[r].pc \in {"save", "remove", "update"} /\ Reads(req[r].a) => req[r].old = row[req[r].a].image

OldIsGone ==
  \A r \in Requests : At(r, "update") /\ req[r].old # None => file[req[r].old] # "whole"

NoOrphanOf(a) ==
  \A p \in Paths : file[p] = "whole" /\ made[p] = a /\ Reads(a)
    => row[a].image = p \/ \E r \in Requests : req[r].new = p \/ req[r].old = p

Tidy == OldIsCurrent /\ OldIsGone /\ \A a \in Accounts : NoOrphanOf(a)

LEMMA InitTidy == ASSUME Apart, Init PROVE Tidy
BY DEF Init, Tidy, OldIsCurrent, OldIsGone, NoOrphanOf, Apart, Idle, At

(* A file that is not named by a request any more is named by its row. *)
LEMMA OrphanNot ==
  ASSUME Apart, Smooth, IInv, Steady, OneRequest, Tidy, NEW r \in Requests,
         req[r].pc \notin {"remove", "update"},
         NEW a \in Accounts, NEW p \in Paths, file[p] = "whole", made[p] = a, Reads(a)
  PROVE  row[a].image = p
<1> USE DEF IInv
<1>1. \A x \in Requests : req[x].new = None
  BY DEF OneRequest, Steady
<1>2. p # None
  BY DEF Apart
<1>3. SUFFICES ASSUME NEW x \in Requests, req[x].old = p
               PROVE  row[a].image = p
  BY <1>1, <1>2 DEF Tidy, NoOrphanOf
<1>4. x = r /\ req[x].pc = "save" /\ req[x].a = a
  BY <1>2, <1>3 DEF OneRequest, Steady, Own, OldIsOwn, NothingSent, Smooth, Named
<1> QED BY <1>3, <1>4 DEF Tidy, OldIsCurrent

LEMMA ReadOldTidy ==
  ASSUME Apart, Smooth, IInv, Files, OneRequest, Tidy,
         NEW r \in Requests, NEW a \in Accounts, ReadOld(r, a)
  PROVE  Tidy'
<1>1. UNCHANGED <<row, file, made>> /\ req[r].pc = "idle" /\ TypeOK
  BY DEF ReadOld, At, IInv
<1>2. \A x \in Requests : x = r
  BY DEF OneRequest
<1>3. OldIsCurrent' /\ OldIsGone'
  BY <1>1, <1>2, ReadOldDoes DEF OldIsCurrent, OldIsGone, At, Reads, PersonReads, OrgReads, Exists
<1>4. \A b \in Accounts : NoOrphanOf(b)'
  <2> SUFFICES ASSUME NEW b \in Accounts, NEW p \in Paths, file[p] = "whole", made[p] = b,
                      Reads(b)'
               PROVE  row[b].image = p
    BY <1>1 DEF NoOrphanOf
  <2>1. Reads(b)
    BY <1>1 DEF Reads, PersonReads, OrgReads, Exists
  <2> QED BY <1>1, <2>1, OrphanNot DEF Files
<1> QED BY <1>3, <1>4 DEF Tidy

LEMMA SaveFileTidy ==
  ASSUME Apart, Smooth, IInv, Files, OneRequest, Tidy,
         NEW r \in Requests, NEW q \in Paths, SaveFile(r, q)
  PROVE  Tidy'
<1>1. row' = row /\ req[r].pc = "save" /\ TypeOK /\ file' = [file EXCEPT ![q] = "whole"]
      /\ made' = [made EXCEPT ![q] = req[r].a]
  BY DEF SaveFile, At, IInv, Smooth
<1>2. \A x \in Requests : x = r
  BY DEF OneRequest
<1>3. OldIsCurrent'
  BY <1>1, <1>2, SaveFileDoes
     DEF Tidy, OldIsCurrent, Reads, PersonReads, OrgReads, Exists
<1>4. OldIsGone'
  BY <1>1, <1>2, SaveFileDoes DEF OldIsGone, At
<1>5. \A a \in Accounts : NoOrphanOf(a)'
  <2> SUFFICES ASSUME NEW a \in Accounts, NEW p \in Paths, file'[p] = "whole", made'[p] = a,
                      Reads(a)'
               PROVE  row[a].image = p \/ req'[r].new = p
    BY <1>1 DEF NoOrphanOf
  <2>1. CASE p = q
    BY <1>1, <2>1, SaveFileDoes
  <2>2. CASE p # q
    <3>1. file[p] = "whole" /\ made[p] = a
      BY <2>2, <1>1 DEF TypeOK
    <3>2. Reads(a)
      BY <1>1 DEF Reads, PersonReads, OrgReads, Exists
    <3> QED BY <1>1, <3>1, <3>2, OrphanNot DEF Files
  <2> QED BY <2>1, <2>2
<1> QED BY <1>3, <1>4, <1>5 DEF Tidy

LEMMA RemoveOldTidy ==
  ASSUME Apart, Smooth, IInv, Files, OneRequest, Tidy, NEW r \in Requests, RemoveOld(r)
  PROVE  Tidy'
<1>1. /\ UNCHANGED <<row, made>> /\ req[r].pc = "remove" /\ TypeOK
      /\ file' = [file EXCEPT ![req[r].old] = "none"]
  BY DEF RemoveOld, RemoveFile, At, IInv, Smooth
<1>2. \A x \in Requests : x = r
  BY DEF OneRequest
<1>3. req'[r].pc = "update" /\ req'[r].a = req[r].a /\ req'[r].old = req[r].old
      /\ req'[r].new = req[r].new
  BY <1>1, GotoDoes DEF RemoveOld, PC
<1>4. OldIsCurrent'
  BY <1>1, <1>2, <1>3 DEF Tidy, OldIsCurrent, Reads, PersonReads, OrgReads, Exists
<1>5. OldIsGone'
  BY <1>1, <1>2, <1>3 DEF OldIsGone, At, TypeOK, Request
<1>6. \A a \in Accounts : NoOrphanOf(a)'
  <2> SUFFICES ASSUME NEW a \in Accounts, NEW p \in Paths, file'[p] = "whole", made[p] = a,
                      Reads(a)'
               PROVE  row[a].image = p \/ req[r].new = p \/ req[r].old = p
    BY <1>1, <1>3 DEF NoOrphanOf
  <2>1. file[p] = "whole"
    BY <1>1 DEF TypeOK
  <2>2. Reads(a)
    BY <1>1 DEF Reads, PersonReads, OrgReads, Exists
  <2> QED BY <1>2, <2>1, <2>2 DEF Tidy, NoOrphanOf
<1> QED BY <1>4, <1>5, <1>6 DEF Tidy

LEMMA UpdateImageTidy ==
  ASSUME Apart, Smooth, IInv, Files, OneRequest, Tidy, NEW r \in Requests, UpdateImage(r)
  PROVE  Tidy'
<1> USE DEF IInv
<1> DEFINE b == req[r].a
<1>1. /\ UNCHANGED <<file, made>> /\ req[r].pc = "update"
      /\ SetImage(b, req[r].new) /\ Finish(r)
  BY DEF UpdateImage, At, Smooth
<1>2. b \in Accounts /\ req[r].new \in Paths /\ req[r].new # None
  BY <1>1, IdleFields DEF Files, Steady, TypeOK, Request, Own, Known
<1>3. \A x \in Requests : x = r
  BY DEF OneRequest
<1>4. req'[r] = Idle
  BY <1>1, FinishDoes
<1>5. /\ \A a \in Accounts : /\ a # b => row'[a].image = row[a].image
                             /\ row'[a].status = row[a].status
      /\ Exists(b) => row'[b].image = req[r].new
  BY <1>1, <1>2, ImageSet
<1>6. OldIsCurrent' /\ OldIsGone'
  BY <1>3, <1>4, IdleFields DEF OldIsCurrent, OldIsGone, At
<1>7. \A a \in Accounts : NoOrphanOf(a)'
  <2> SUFFICES ASSUME NEW a \in Accounts, NEW p \in Paths, file[p] = "whole", made[p] = a,
                      Reads(a)'
               PROVE  row'[a].image = p
    BY <1>1 DEF NoOrphanOf
  <2>1. p # None
    BY DEF Apart
  <2>2. Reads(a) /\ Exists(a)
    BY <1>5 DEF Reads, PersonReads, OrgReads, Exists
  <2>3. req[r].old # p
    BY <1>1, <2>1 DEF Tidy, OldIsGone, At
  <2>4. CASE row[a].image = p
    <3>1. a # b
      BY <2>2, <2>3, <2>4, <1>1 DEF Tidy, OldIsCurrent
    <3> QED BY <3>1, <2>4, <1>5
  <2>5. CASE req[r].new = p
    <3>1. a = b
      BY <2>5, <2>1 DEF Own, NewIsOwn
    <3> QED BY <3>1, <2>2, <2>5, <1>5
  <2> QED BY <1>3, <2>2, <2>3, <2>4, <2>5 DEF Tidy, NoOrphanOf
<1> QED BY <1>6, <1>7 DEF Tidy

(* Requests that save nothing. *)
LEMMA RequestTidy ==
  ASSUME Apart, Smooth, IInv, Files, OneRequest, Tidy, NEW r \in Requests,
         \/ RefuseFile(r) \/ UndoSave(r) \/ DeleteSuperAdminRow(r) \/ RequestDies(r)
         \/ \E s, a \in Accounts : DeleteSuperAdmin(r, s, a)
  PROVE  Tidy'
<1>1. /\ UNCHANGED <<file, made>> /\ req[r].pc \notin {"remove", "update"}
      /\ req'[r].pc \in {"idle", "delete"} /\ TypeOK
  BY FinishDoes, DeleteSuperAdminDoes, IdleFields
     DEF RefuseFile, UndoSave, DeleteSuperAdminRow, RequestDies, DeleteSuperAdmin, At, Smooth,
         Files, Steady, IInv
<1>2. \A a \in Accounts : row'[a].image = row[a].image /\ (Exists(a)' => Exists(a))
  BY RequestStatus
<1>3. \A x \in Requests : x = r
  BY DEF OneRequest
<1>4. OldIsCurrent' /\ OldIsGone'
  BY <1>1, <1>3 DEF OldIsCurrent, OldIsGone, At
<1>5. \A a \in Accounts : NoOrphanOf(a)'
  <2> SUFFICES ASSUME NEW a \in Accounts, NEW p \in Paths, file[p] = "whole", made[p] = a,
                      Reads(a)'
               PROVE  row'[a].image = p
    BY <1>1 DEF NoOrphanOf
  <2>1. Reads(a)
    BY <1>2 DEF Reads, PersonReads, OrgReads, Exists
  <2> QED BY <1>1, <1>2, <2>1, OrphanNot DEF Files
<1> QED BY <1>4, <1>5 DEF Tidy

LEMMA HandlerTidy ==
  ASSUME Smooth, IInv, Tidy, NEW a \in Accounts,
         Candidate(a) \/ Expert(a) \/ Institute(a) \/ Authority(a) \/ Admin(a)
  PROVE  Tidy'
<1>1. /\ UNCHANGED <<file, made, req>> /\ TypeOK
      /\ \A b \in Accounts : row'[b].image = row[b].image /\ (Exists(b)' => Exists(b))
  BY HandlerStatus DEF IInv
<1>2. \A b \in Accounts : Reads(b)' => Reads(b)
  BY <1>1 DEF Reads, PersonReads, OrgReads, Exists
<1>3. \A r \in Requests : req[r].pc # "idle" => req[r].a \in Accounts
  BY IdleFields DEF IInv, Own, Known
<1>4. OldIsCurrent' /\ OldIsGone'
  <2> SUFFICES ASSUME NEW r \in Requests, req[r].pc \in {"save", "remove", "update"}
               PROVE  /\ Reads(req[r].a)' => req[r].old = row'[req[r].a].image
                      /\ At(r, "update") /\ req[r].old # None => file[req[r].old] # "whole"
    BY <1>1 DEF OldIsCurrent, OldIsGone, At
  <2>1. req[r].a \in Accounts
    BY <1>3
  <2>2. Reads(req[r].a)' => Reads(req[r].a)
    BY <1>1, <2>1 DEF Reads, PersonReads, OrgReads, Exists
  <2> QED BY <1>1, <2>1, <2>2 DEF Tidy, OldIsCurrent, OldIsGone
<1>5. \A b \in Accounts : NoOrphanOf(b)'
  BY <1>1, <1>2 DEF Tidy, NoOrphanOf
<1> QED BY <1>4, <1>5 DEF Tidy

LEMMA NextTidy ==
  ASSUME Apart, Smooth, IInv, Files, OneRequest, Tidy, [Next]_vars
  PROVE  Tidy'
<1>1. CASE UNCHANGED vars
  BY <1>1 DEF vars, Tidy, OldIsCurrent, OldIsGone, NoOrphanOf, Reads, PersonReads, OrgReads,
              Exists, At
<1>2. ASSUME NEW r \in Requests, Begin(r) PROVE Tidy'
  BY <1>2, ReadOldTidy, RequestTidy DEF Begin
<1>3. ASSUME NEW r \in Requests, Continue(r) PROVE Tidy'
  BY <1>3, SaveFileTidy, RemoveOldTidy, UpdateImageTidy, RequestTidy DEF Continue
<1> QED BY <1>1, <1>2, <1>3, HandlerTidy DEF Next

(* With one upload at a time, every file of an account that can be read is *)
(* named by its row or by the upload in progress: uploads leave nothing    *)
(* behind (handler.go:1291-1320).                                          *)
THEOREM NothingIsLeft == ASSUME Apart, Smooth, OneRequest PROVE Spec => []NoOrphan
<1>1. Init => Tidy
  BY InitTidy
<1>2. IInv /\ Files /\ Tidy /\ [Next]_vars => Tidy'
  BY NextTidy
<1>3. IInv /\ Tidy => NoOrphan
  BY DEF IInv, TypeOK, Tidy, NoOrphanOf, NoOrphan
<1> QED BY <1>1, <1>2, <1>3, FilesInvariant, PTL DEF Spec
=============================================================================
