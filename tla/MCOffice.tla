------------------------------ MODULE MCOffice ------------------------------
(* What runs beside booking and testing, for TLC: profiles, listings,      *)
(* appeals, reports and their analysis, test plans.  They share no state,  *)
(* so one behaviour moves one part, the one that OfficeInit picks.  Appeals *)
(* is extended, so that its properties are checked as they are proved, and  *)
(* stays as it begins in the other parts; the variables of the others are   *)
(* None where they do not move.                                             *)
EXTENDS Appeals, Integers, TLC

CONSTANTS c1, x1, x2, x3, e1, i1, a1, ad1, root, sa, p1, p2, p3, r0, r1, r2,
          t1, t2, s1, k1, k2, w1, w2, w3

(* None is neither a model value nor one of the strings used as one. *)
ASSUME OfficeValues ==
  None \notin {c1, x1, e1, i1, a1, ad1, root, sa, p1, p2, p3, r0, r1, r2, t1, t2, k1, k2,
               "seeded", "as graded", "as appealed"}

VARIABLES part,
  row, file, made, sent, preq,
  list, rank, page, total, pc, given, stayed, left, came, dropped,
  latest, pdf, flight, rreq,
  mean, stored, author, raised,
  plan, mapping, test, treq, late

profiles   == <<row, file, made, sent, preq>>
listings   == <<list, rank, page, total, pc, given, stayed, left, came, dropped>>
reports    == <<latest, pdf, flight, rreq>>
analysis   == <<mean, stored, author, raised>>
plans      == <<plan, mapping, test, treq, late>>
officeVars == <<part, profiles, listings, vars, reports, analysis, plans>>

-----------------------------------------------------------------------------
KindOf == (c1 :> "candidate") @@ (x1 :> "expert") @@ (e1 :> "expert")
          @@ (i1 :> "institute") @@ (ad1 :> "admin") @@ (a1 :> "transport_authority")
          @@ (root :> "super_admin") @@ (sa :> "super_admin")

(* One upload at a time, nothing fails and no image name is sent. *)
P == INSTANCE Profiles WITH
  Accounts <- {c1, x1, ad1, root, sa}, Invited <- {x1}, Root <- root, Paths <- {p1, p2, p3},
  Requests <- {r0}, Patches <- FALSE, Faults <- FALSE, req <- preq

(* Two uploads that cross each other. *)
Q == INSTANCE Profiles WITH
  Accounts <- {e1, i1, a1}, Invited <- {}, Root <- None, Paths <- {p1, p2, p3},
  Requests <- {r1, r2}, Patches <- FALSE, Faults <- FALSE, req <- preq

(* Two uploads, failing steps and names of any file sent, for one of two    *)
(* accounts: an authority's PATCH has no image.                            *)
R == INSTANCE Profiles WITH
  Accounts <- {c1, a1}, Invited <- {}, Root <- None, Paths <- {p1, p2, p3},
  Requests <- {r1, r2}, Patches <- TRUE, Faults <- TRUE, req <- preq

L == INSTANCE Listings WITH
  Rows <- {w1, w2, w3}, Fixed <- {1}, Asked <- {1, 2}, MaxRank <- 3, MaxChanges <- 2,
  Faults <- TRUE, row <- rank

(* Appeals: the session is about the booking of the first test. *)
SessionBooking == (t1 :> "b1") @@ (t2 :> "b2") @@ (s1 :> "b1")

(* Services fail and clients hang up; broken writes are in MCPromises. *)
D == INSTANCE Reports WITH
  Tests <- {t1}, Requests <- {r0, r1, r2}, Results <- {"as graded", "as appealed"},
  Faults <- TRUE, Breaks <- FALSE, req <- rreq

(* The mean is in thousandths: 59.6, the edge of 60.00, and a mean above. *)
GradedMeans  == {0, 59600, 59994, 59995, 59996, 60000, 85000}
PostedScores == {5999, 6000}
N == INSTANCE Analysis WITH
  Unit <- 10, PassThreshold <- 6000, Means <- GradedMeans, Posted <- PostedScores

(* No result is called None. *)
ASSUME OfficeResults == None \notin N!Result

T == INSTANCE Plans WITH
  Plans <- {k1, k2, "seeded"}, Seeded <- "seeded", Levels <- {"b"}, Tests <- {t1, t2},
  Requests <- {p1, p2, p3}, req <- treq

-----------------------------------------------------------------------------
NoProfiles == row = None /\ file = None /\ made = None /\ sent = None /\ preq = None
NoListings == /\ list = None /\ rank = None /\ page = None /\ total = None /\ pc = None
              /\ given = None /\ stayed = None /\ left = None /\ came = None /\ dropped = None
NoReports  == latest = None /\ pdf = None /\ flight = None /\ rreq = None
NoAnalysis == mean = None /\ stored = None /\ author = None /\ raised = None
NoPlans    == plan = None /\ mapping = None /\ test = None /\ treq = None /\ late = None

OfficeInit ==
  /\ Init
  /\ \/ /\ NoListings /\ NoReports /\ NoAnalysis /\ NoPlans
        /\ \/ part = "P" /\ P!Init
           \/ part = "Q" /\ Q!Init
           \/ part = "R" /\ R!Init
     \/ /\ NoProfiles /\ NoReports /\ NoAnalysis /\ NoPlans
        /\ part = "L" /\ L!Init
     \/ /\ NoProfiles /\ NoListings /\ NoReports /\ NoAnalysis /\ NoPlans
        /\ part = "A"
     \/ /\ NoProfiles /\ NoListings /\ NoAnalysis /\ NoPlans
        /\ part = "D" /\ D!Init
     \/ /\ NoProfiles /\ NoListings /\ NoReports /\ NoPlans
        /\ part = "N" /\ N!Init
     \/ /\ NoProfiles /\ NoListings /\ NoReports /\ NoAnalysis
        /\ part = "T" /\ T!Init

OfficeNext ==
  /\ UNCHANGED part
  /\ \/ part = "P" /\ P!Next /\ UNCHANGED <<listings, vars, reports, analysis, plans>>
     \/ part = "Q" /\ Q!Next /\ UNCHANGED <<listings, vars, reports, analysis, plans>>
     \/ part = "R" /\ R!Next /\ UNCHANGED <<listings, vars, reports, analysis, plans>>
     \/ part = "L" /\ L!Next /\ UNCHANGED <<profiles, vars, reports, analysis, plans>>
     \/ part = "A" /\ Next /\ UNCHANGED <<profiles, listings, reports, analysis, plans>>
     \/ part = "D" /\ D!Next /\ UNCHANGED <<profiles, listings, vars, analysis, plans>>
     \/ part = "N" /\ N!Next /\ UNCHANGED <<profiles, listings, vars, reports, plans>>
     \/ part = "T" /\ T!Next /\ UNCHANGED <<profiles, listings, vars, reports, analysis>>

OfficeSpec == OfficeInit /\ [][OfficeNext]_officeVars

(* The configuration gives w1 .. w3 the values of p1 .. p3 and k1, k2 those *)
(* of r1, r2: parts do not meet, and a permutation then serves two of them. *)
Symmetry == Permutations({p1, p2, p3}) \cup Permutations({r1, r2})

-----------------------------------------------------------------------------
(* The properties of the modules, each for the parts it is meant for;     *)
(* those of Appeals are its own.                                           *)
TypesOK ==
  /\ TypeOK
  /\ part = "P" => P!TypeOK
  /\ part = "Q" => Q!TypeOK
  /\ part = "R" => R!TypeOK
  /\ part = "D" => D!TypeOK
  /\ part = "T" => T!TypeOK

(* A row names a file that is there (media.go:128). *)
RowNamesFile == (part = "P" => P!RowNamesFile) /\ (part = "Q" => Q!RowNamesFile)
(* One upload at a time leaves no file behind (handler.go:1291). *)
NoOrphan     == part = "P" => P!NoOrphan
(* An upload deletes no file of another account, unless a client has sent  *)
(* the name of it (handler.go:1151, 1297).                                 *)
UploadKeepsOthersFiles == [][part = "R" => R!OwnFileRemoved]_officeVars

(* A walk over a listing misses at most as many rows as left, and repeats  *)
(* at most as many as came (repository.go:57, 410).                        *)
WalkIsBounded == part = "L" => L!WalkIsBounded

(* A plan past its draft is written by late requests only, and kept by its *)
(* tests (handler.go:1251, 618).                                           *)
PlanIsKept == part = "T" => T!PlanIsKept

(* Whoever has a report made gets a whole one (service.go:51). *)
WholeReport == part = "D" => D!WholeReport
(* The report's words explain the verdict it shows of the engine's grading, *)
(* up to its rounding (test_controller.py:180, analytics.go:97).           *)
VerdictExplained == part = "N" => N!VerdictExplained
=============================================================================
