------------------------------ MODULE Profiles ------------------------------
(***************************************************************************)
(* The profiles of the six account tables and the image each of the first  *)
(* four may name (internal/identity/handler.go, repository.go), together   *)
(* with the media engine that keeps the images on disk                     *)
(* (internal/platform/media).                                              *)
(*                                                                         *)
(* An upload reads the row, saves the new file, deletes the file the row   *)
(* named and updates the row: four steps on two stores with no transaction *)
(* over them, so each is an action and other requests come in between.     *)
(* The handlers of one statement are actions without a request.  Columns   *)
(* other than the image and the status are left out: no statement relates  *)
(* them to anything.                                                       *)
(***************************************************************************)
EXTENDS Naturals

CONSTANTS
  Accounts,   \* identifiers of rows in the six account tables
  KindOf,     \* the table of each
  Invited,    \* rows of experts that came about by an invitation
  Root,       \* the super admin with the address SUPER_ADMIN_EMAIL
  Paths,      \* names of files; an upload draws one that is new (uuid)
  Requests,   \* requests of several steps that may be in progress
  Patches,    \* TRUE: clients send names of images in a PATCH
  Faults,     \* TRUE: statements and file operations may fail, requests may die
  None        \* the empty string or NULL

VARIABLES
  row,    \* the account tables
  file,   \* the directory UPLOADS_DIR
  made,   \* history: the account each file was uploaded for
  sent,   \* history: the other accounts a client has sent a file's name for
  req     \* the uploads and deletions of super admins in progress

vars == <<row, file, made, sent, req>>

-----------------------------------------------------------------------------
Pictured == {"candidate", "expert", "institute", "transport_authority"}

(* "off" stands for every status but active; "gone" is a deleted row.      *)
Status == {"active", "off", "gone"}
Row    == [status : Status, image : Paths \cup {None}]

Exists(a) == row[a].status # "gone"

(* scanExpert reads birth_date and gender into fields that cannot be NULL, *)
(* and an invited expert has neither: each read of such a row fails.       *)
PersonReads(a) == Exists(a) /\ a \notin Invited

(* scanInstitute, scanAuthority, scanAdmin and scanSuperAdmin take a NULL  *)
(* in every column that may hold one.                                      *)
OrgReads(a) == Exists(a)

Reads(a) == IF KindOf[a] \in {"candidate", "expert"} THEN PersonReads(a) ELSE OrgReads(a)

PC == {"idle", "save", "remove", "update", "undo", "delete"}

(* a: the account, old: the file its row named, new: the file saved.       *)
Request == [pc : PC, a : Accounts \cup {None}, old : Paths \cup {None},
            new : Paths \cup {None}]
Idle    == [pc |-> "idle", a |-> None, old |-> None, new |-> None]

At(r, l)    == req[r].pc = l
Goto(r, l)  == req' = [req EXCEPT ![r].pc = l]
Enter(r, q) == req' = [req EXCEPT ![r] = q]
Finish(r)   == req' = [req EXCEPT ![r] = Idle]

(* UPDATE <table> SET <column> WHERE id: no row, no effect and no error. *)
SetImage(a, p)  == row' = [row EXCEPT ![a].image = IF Exists(a) THEN p ELSE @]
SetStatus(a, s) == row' = [row EXCEPT ![a].status = IF Exists(a) THEN s ELSE @]

Init ==
  /\ row  = [a \in Accounts |-> [status |-> "active", image |-> None]]
  /\ file = [p \in Paths |-> "none"]
  /\ made = [p \in Paths |-> None]
  /\ sent = [p \in Paths |-> {}]
  /\ req  = [r \in Requests |-> Idle]

-----------------------------------------------------------------------------
(* Uploads.                                                                *)

(* Mutation: the admin's handler reads the row of somebody else. *)
ReadOldOfAny(r, a) ==
  /\ At(r, "idle")
  /\ KindOf[a] \in Pictured
  /\ \E b \in Accounts : Enter(r, [Idle EXCEPT !.pc = "save", !.a = a, !.old = row[b].image])
  /\ UNCHANGED <<row, file, made, sent>>

(* The handlers upload...Me and upload...Admin read the row first and drop *)
(* the error of a read that fails.                                         *)
ReadOld(r, a) ==
  /\ At(r, "idle")
  /\ KindOf[a] \in Pictured
  /\ \/ Enter(r, [Idle EXCEPT !.pc = "save", !.a = a,
                              !.old = IF Reads(a) THEN row[a].image ELSE None])
     \/ Faults /\ Enter(r, [Idle EXCEPT !.pc = "save", !.a = a])
  /\ UNCHANGED <<row, file, made, sent>>

(* Save: a file of the wrong size or type is refused; a copy that fails    *)
(* leaves what it wrote.                                                   *)
SaveFile(r, p) ==
  LET q == req[r]  IN
  /\ At(r, "save")
  /\ file[p] = "none" /\ made[p] = None
  /\ made' = [made EXCEPT ![p] = q.a]
  /\ \/ /\ file' = [file EXCEPT ![p] = "whole"]
        /\ Enter(r, [q EXCEPT !.pc = IF q.old # None THEN "remove" ELSE "update", !.new = p])
     \/ /\ Faults
        /\ file' = [file EXCEPT ![p] = "part"]
        /\ Finish(r)
  /\ UNCHANGED <<row, sent>>

RefuseFile(r) ==
  /\ At(r, "save")
  /\ Finish(r)
  /\ UNCHANGED <<row, file, made, sent>>

(* Delete: a file that is not there is no error. *)
RemoveFile(p) == file' = [file EXCEPT ![p] = "none"]

(* Mutation: Replace deletes the file it has saved. *)
RemoveNew(r) ==
  /\ At(r, "remove")
  /\ RemoveFile(req[r].new)
  /\ Goto(r, "update")
  /\ UNCHANGED <<row, made, sent>>

(* Mutation: Replace keeps the old file. *)
KeepOld(r) ==
  /\ At(r, "remove")
  /\ Goto(r, "update")
  /\ UNCHANGED <<row, file, made, sent>>

(* Replace deletes the old file before the row names the new one, and      *)
(* drops the error.                                                        *)
RemoveOld(r) ==
  /\ At(r, "remove")
  /\ \/ RemoveFile(req[r].old)
     \/ Faults /\ UNCHANGED file
  /\ Goto(r, "update")
  /\ UNCHANGED <<row, made, sent>>

UpdateImage(r) ==
  /\ At(r, "update")
  /\ \/ SetImage(req[r].a, req[r].new) /\ Finish(r)
     \/ Faults /\ Goto(r, "undo") /\ UNCHANGED row
  /\ UNCHANGED <<file, made, sent>>

(* The new file goes; the old one is gone already. *)
UndoSave(r) ==
  /\ At(r, "undo")
  /\ RemoveFile(req[r].new) \/ UNCHANGED file
  /\ Finish(r)
  /\ UNCHANGED <<row, made, sent>>

RequestDies(r) ==
  /\ Faults
  /\ ~At(r, "idle")
  /\ Finish(r)
  /\ UNCHANGED <<row, file, made, sent>>

-----------------------------------------------------------------------------
(* The other handlers that write a row, table by table.                    *)

(* PATCH with photo_url or logo_url: the client sends any text, and nobody *)
(* looks at it: none, or the name of any file, whose ever it is.  The name *)
(* of a removed file stands for a text that names no file; the name of a   *)
(* file not saved yet is a new uuid, which no client can send.             *)
PatchImage(a) ==
  /\ Patches
  /\ \E p \in {None} \cup {x \in Paths : made[x] # None} :
       /\ SetImage(a, p)
       /\ sent' = [x \in Paths |-> IF x = p THEN sent[x] \cup ({a} \ {made[x]}) ELSE sent[x]]
  /\ UNCHANGED <<file, made, req>>

(* PATCH .../status, and the deletions that only deactivate. *)
PutStatus(a) ==
  /\ \E s \in {"active", "off"} : SetStatus(a, s)
  /\ UNCHANGED <<file, made, sent, req>>

(* DELETE FROM <table>: nobody looks for the image. *)
DeleteRow(a) ==
  /\ row' = [row EXCEPT ![a].status = "gone"]
  /\ UNCHANGED <<file, made, sent, req>>

Candidate(a) == KindOf[a] = "candidate" /\ (PatchImage(a) \/ PutStatus(a))
Expert(a)    == KindOf[a] = "expert" /\ (PatchImage(a) \/ PutStatus(a) \/ DeleteRow(a))
Institute(a) == KindOf[a] = "institute" /\ (PatchImage(a) \/ PutStatus(a))

(* UpdateAuthoritySelfRequest has no logo_url. *)
Authority(a) == KindOf[a] = "transport_authority" /\ PutStatus(a)
Admin(a)     == KindOf[a] = "admin" /\ (PutStatus(a) \/ DeleteRow(a))

(* deleteSuperAdmin refuses the signed-in account and, when it can read    *)
(* the row, the root.                                                      *)
DeleteSuperAdmin(r, s, a) ==
  /\ At(r, "idle")
  /\ KindOf[s] = "super_admin" /\ KindOf[a] = "super_admin" /\ s # a
  /\ a # Root \/ Faults
  /\ Enter(r, [Idle EXCEPT !.pc = "delete", !.a = a])
  /\ UNCHANGED <<row, file, made, sent>>

DeleteSuperAdminRow(r) ==
  /\ At(r, "delete")
  /\ SetStatus(req[r].a, "gone")
  /\ Finish(r)
  /\ UNCHANGED <<file, made, sent>>

Begin(r) == \/ \E a \in Accounts : ReadOld(r, a)
            \/ \E s, a \in Accounts : DeleteSuperAdmin(r, s, a)

Continue(r) ==
  \/ \E p \in Paths : SaveFile(r, p)
  \/ RefuseFile(r) \/ RemoveOld(r) \/ UpdateImage(r) \/ UndoSave(r)
  \/ DeleteSuperAdminRow(r) \/ RequestDies(r)

Next ==
  \/ \E r \in Requests : Begin(r) \/ Continue(r)
  \/ \E a \in Accounts : Candidate(a) \/ Expert(a) \/ Institute(a) \/ Authority(a) \/ Admin(a)

Spec == Init /\ [][Next]_vars

-----------------------------------------------------------------------------
(* Properties.                                                             *)

TypeOK ==
  /\ row  \in [Accounts -> Row]
  /\ file \in [Paths -> {"none", "part", "whole"}]
  /\ made \in [Paths -> Accounts \cup {None}]
  /\ sent \in [Paths -> SUBSET Accounts]
  /\ req  \in [Requests -> Request]

(* Some upload for a has deleted the old file and not yet updated the row. *)
Replacing(a) == \E r \in Requests : At(r, "update") /\ req[r].a = a /\ req[r].old # None

(* As long as no statement fails and no client sends the name of an image, *)
(* a row names a file that is there, however many uploads for it cross each  *)
(* other, except while one of them is replacing it                         *)
(* (handler.go:1275-1321, media.go:122-131).                               *)
RowNamesFile ==
  \A a \in Accounts :
    Exists(a) /\ row[a].image # None /\ ~Replacing(a) => file[row[a].image] = "whole"

(* One upload at a time leaves no file behind that neither a row nor an    *)
(* upload in progress names, for rows that exist and can be read           *)
(* (handler.go:1291-1320).                                                 *)
NoOrphan ==
  \A p \in Paths :
    file[p] = "whole" /\ made[p] # None /\ Reads(made[p])
      => row[made[p]].image = p \/ \E r \in Requests : req[r].new = p \/ req[r].old = p

(* The files an upload for account a may delete: those uploaded for a, and *)
(* those whose name a client put into the row of a, whose ever they are.   *)
Named(a, p) == made[p] = a \/ a \in sent[p]

(* However uploads cross, fail and are undone, the one that deletes a file *)
(* is for the account the file was uploaded for, or for one whose client   *)
(* has sent its name (handler.go:1151, 1297): no upload deletes a file of  *)
(* another account of its own accord.                                      *)
OwnFileRemoved ==
  \A p \in Paths : file[p] # "none" /\ file'[p] = "none"
    => \E r \in Requests : req'[r] # req[r] /\ Named(req[r].a, p)

UploadKeepsOthersFiles == [][OwnFileRemoved]_vars
=============================================================================
