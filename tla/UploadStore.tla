---------------------------- MODULE UploadStore ----------------------------
(***************************************************************************)
(* The files of one submission, from the multipart request to the workers  *)
(* that read them back: stored one by one under the task's directory,      *)
(* student files first and reference files after them, before the task has *)
(* a row, and read anew by every attempt at the task: the first, a retry,  *)
(* a redelivery that overlaps it, a replay from the dead letter queue.     *)
(* The content of a file is its place in the request.                      *)
(***************************************************************************)
EXTENDS Naturals, Sequences, FiniteSets

CONSTANTS
  Stems,       \* file names without their extension: a base and the counts
               \* after it, in a sequence
  Hashed,      \* stems with a '#' or a '?' in them
  Cut,         \* for each of these, the name up to that character
  Extensions,
  PageTypes,   \* extensions a batch takes
  MaxFiles,    \* bound: files in the request
  ObjectPage,  \* keys one listing of the object store returns
  Runners      \* the attempts that may run at a time

ASSUME UploadAssumption ==
  /\ \A s \in Stems : Len(s) \in Nat /\ s = [i \in 1..Len(s) |-> s[i]]
  /\ Hashed \subseteq Stems
  /\ Cut \in [Hashed -> [stem : Stems, ext : Extensions]]
  /\ PageTypes \subseteq Extensions
  /\ MaxFiles \in Nat \ {0}
  /\ ObjectPage \in Nat \ {0}

VARIABLES
  form,       \* the endpoint: a single submission, a batch, a batch with its
              \* reference
  names,      \* the names in the request, student files first
  students,   \* how many of them are student files
  backend,
  objects,    \* name -> content under the task's directory or prefix
  refs,       \* references handed out so far
  stage,      \* of the submission
  grader,     \* of each runner: where it is, and the contents it has read, in
              \* the order of refs
  gaveUp,     \* history: has an attempt given up for good?
  age         \* of the directory

requestVars == <<form, names, students, backend>>
workVars == <<grader, gaveUp, age>>
uploadVars == <<requestVars, objects, refs, stage, workVars>>

Names == [stem : Stems, ext : Extensions]
Nothing == 0

UploadTypeOK ==
  /\ form \in {"single", "batch", "reference"}
  /\ students \in 1..Len(names)
  /\ names \in Seq(Names) /\ Len(names) \in 1..MaxFiles
  /\ backend \in {"local", "s3"}
  /\ objects \in [Names -> 0..Len(names)]
  /\ refs \in Seq(Names) /\ Len(refs) <= Len(names)
  /\ stage \in {"request", "storing", "refused", "queued"}
  /\ DOMAIN grader = Runners
  /\ \A a \in Runners :
       /\ grader[a].pc \in {"idle", "reference", "grading", "missing", "failed"}
       /\ grader[a].read \in Seq(1..Len(names))
       /\ Len(grader[a].read) <= Len(names)
  /\ gaveUp \in BOOLEAN
  /\ age \in {"minutes", "days"}

(* An attempt at a point where it holds nothing it has read.               *)
EmptyHanded(pc) == [pc |-> pc, read |-> <<>>]

UploadInit ==
  /\ form \in {"single", "batch", "reference"}
  /\ \E n \in 1..MaxFiles : names \in [1..n -> Names]
  /\ IF form = "reference" THEN students \in 1..Len(names) - 1 ELSE students = Len(names)
  /\ backend \in {"local", "s3"}
  /\ objects = [f \in Names |-> Nothing]
  /\ refs = <<>>
  /\ stage = "request"
  /\ grader = [a \in Runners |-> EmptyHanded("idle")]
  /\ gaveUp = FALSE
  /\ age = "minutes"
-----------------------------------------------------------------------------
Refused == stage' = "refused" /\ UNCHANGED <<requestVars, objects, refs, workVars>>

(* HardBodyLimitMiddleware: 408 or 413 while the form is still being read. *)
RefuseBody == stage = "request" /\ Refused

Admit(ok) ==
  /\ stage = "request"
  /\ stage' = IF ok THEN "storing" ELSE "refused"
  /\ UNCHANGED <<requestVars, objects, refs, workVars>>

(* validate_batch_single_page_file, of the student files only.             *)
SinglePages == \A i \in 1..students : names[i].ext \in PageTypes

(* Mutant: the count is appended from the third of a name on.              *)
StudentIdLate(i) ==
  LET n == Cardinality({j \in 1..i : names[j].stem = names[i].stem})
  IN IF n < 3 THEN names[i].stem ELSE Append(names[i].stem, n)

(* derive_student_ids_from_filenames: the stem, and from its second use on *)
(* how often it has come.                                                  *)
StudentId(i) ==
  LET n == Cardinality({j \in 1..i : names[j].stem = names[i].stem})
  IN IF n = 1 THEN names[i].stem ELSE Append(names[i].stem, n)

(* The three endpoints up to the first file.                               *)
SubmitJob == form = "single" /\ Admit(TRUE)
SubmitBatch == form = "batch" /\ Admit(SinglePages)
SubmitBatchWithReference == form = "reference" /\ Admit(SinglePages)

(* Mutant: the extension is not part of the path.                          *)
PathByStem(name) == [name EXCEPT !.ext = CHOOSE e \in Extensions : TRUE]

(* The path of a file in the task's directory, the same for both backends: *)
(* the file's own name.                                                    *)
Path(name) == name

(* store_upload_file_with_limits and store_fileobj.                        *)
StoreNext ==
  /\ stage = "storing"
  /\ Len(refs) < Len(names)
  /\ LET path == Path(names[Len(refs) + 1])
     IN /\ objects' = [objects EXCEPT ![path] = Len(refs) + 1]
        /\ refs' = Append(refs, path)
  /\ UNCHANGED <<requestVars, stage, workVars>>

(* 408 or 413 in the middle of the files, or 404 for the rubric after the  *)
(* row was created: what is stored stays, and no message will ever name it.*)
Refuse ==
  /\ stage = "storing"
  /\ Len(refs) < Len(names) \/ form # "reference"
  /\ Refused

(* create_task and the dispatch.                                           *)
Enqueue ==
  /\ stage = "storing"
  /\ Len(refs) = Len(names)
  /\ stage' = "queued"
  /\ UNCHANGED <<requestVars, objects, refs, workVars>>

(* The object store keeps the raw name in the URI, and urlparse takes a    *)
(* '#' or a '?' for the end of the path; the local store quotes the path.  *)
Misread(name) == backend = "s3" /\ name.stem \in Hashed

(* What a reference leads to.                                              *)
Content(ref) == objects[IF Misread(ref) THEN Cut[ref.stem] ELSE ref]

(* retrieve_files of some references: all of them, or the attempt fails.   *)
Retrieve(a, from, to, next) ==
  LET missing == \E i \in from..to : Content(refs[i]) = Nothing
      found == [i \in 1..to - from + 1 |-> Content(refs[from + i - 1])]
  IN /\ grader' = [grader EXCEPT ![a] =
                      IF missing THEN EmptyHanded("missing")
                      ELSE [pc |-> next, read |-> grader[a].read \o found]]
     /\ UNCHANGED <<requestVars, objects, refs, stage, gaveUp, age>>

(* An attempt reads the student files, and the reference files later.      *)
RetrieveStudents(a) ==
  /\ stage = "queued"
  /\ grader[a].pc = "idle"
  /\ Retrieve(a, 1, students, IF form = "reference" THEN "reference" ELSE "grading")

RetrieveReference(a) ==
  /\ grader[a].pc = "reference"
  /\ Retrieve(a, students + 1, Len(refs), "grading")

Goes(a, from, to) ==
  /\ grader[a].pc \in from
  /\ grader' = [grader EXCEPT ![a] = EmptyHanded(to)]
  /\ UNCHANGED <<requestVars, refs, stage, age>>

(* It is graded and committed.                                             *)
Finish(a) == Goes(a, {"grading"}, "idle") /\ UNCHANGED <<objects, gaveUp>>

(* Any other exception, a soft time limit, or a worker that is lost.       *)
Raise(a) ==
  /\ Goes(a, {"reference", "grading"}, "failed")
  /\ UNCHANGED <<objects, gaveUp>>

(* storage.cleanup_task: the directory, as far as rmtree gets, or the      *)
(* objects with the task's prefix, one page of them.                       *)
RemoveFiles ==
  \E gone \in SUBSET {f \in Names : objects[f] # Nothing} :
    /\ \/ backend = "local"
       \/ \A f \in Names \ gone : objects[f] = Nothing
       \/ Cardinality(gone) = ObjectPage
    /\ backend = "s3" => Cardinality(gone) <= ObjectPage
    /\ objects' = [f \in Names |-> IF f \in gone THEN Nothing ELSE objects[f]]

(* Mutant: the files go whenever an attempt fails, not only the last.      *)
RetryCleansUp(a) ==
  Goes(a, {"missing", "failed"}, "idle") /\ RemoveFiles /\ UNCHANGED gaveUp

(* self.retry, or the redelivery of a lost worker's message: the files stay.*)
Retry(a) == Goes(a, {"missing", "failed"}, "idle") /\ UNCHANGED <<objects, gaveUp>>

(* The retries are used up, or the soft time limit has passed: the task is *)
(* FAILED for good, its files go and its message to the dead letter queue. *)
GiveUp(a) ==
  /\ Goes(a, {"missing", "failed"}, "idle")
  /\ RemoveFiles
  /\ gaveUp' = TRUE

(* An upload and its grading take minutes; with days the directory comes   *)
(* to the age an operator may ask for, a day, and to the TTL, a week.      *)
Age ==
  /\ stage \notin {"request", "storing"}
  /\ \E f \in Names : objects[f] # Nothing
  /\ age = "minutes" /\ age' = "days"
  /\ UNCHANGED <<requestVars, objects, refs, stage, grader, gaveUp>>

RemoveDirectory ==
  /\ backend = "local" /\ RemoveFiles
  /\ UNCHANGED <<requestVars, refs, stage, workVars>>

(* upload_ttl_cleanup_task: the age of the directory decides, not the      *)
(* task.                                                                   *)
TtlCleanup == age = "days" /\ RemoveDirectory

(* POST /ops/uploads/cleanup-expired, with an age of the operator's.       *)
CleanupExpired == age = "days" /\ RemoveDirectory

UploadNext ==
  \/ RefuseBody \/ SubmitJob \/ SubmitBatch \/ SubmitBatchWithReference
  \/ StoreNext \/ Refuse \/ Enqueue
  \/ \E a \in Runners :
       \/ RetrieveStudents(a) \/ RetrieveReference(a) \/ Finish(a)
       \/ Raise(a) \/ Retry(a) \/ GiveUp(a)
  \/ Age \/ TtlCleanup \/ CleanupExpired

UploadSpec == UploadInit /\ [][UploadNext]_uploadVars
-----------------------------------------------------------------------------
Distinct(s) == \A i, j \in DOMAIN s : i # j => s[i] # s[j]

(* Whichever attempt grades the task, after whatever retries, overlaps and *)
(* cleanups, has all its files: every student is graded on their own file, *)
(* against the reference that was sent, if no two files of the request     *)
(* have the same name; what a batch grades is a page, whatever the form's  *)
(* files were; and two pages have the same student id only if one's stem   *)
(* is the other's with a count the derivation appends (a, a and a_2).      *)
OwnFileGraded ==
  \A a \in Runners :
    grader[a].pc = "grading" =>
      LET read == grader[a].read
      IN /\ DOMAIN read = DOMAIN names
         /\ \A i \in DOMAIN names :
              Distinct(names) /\ ~Misread(names[i]) => read[i] = i
         /\ form # "single" =>
              \A i \in 1..students :
                ~Misread(names[i]) => names[read[i]].ext \in PageTypes
         /\ form # "single" =>
              \A i, j \in 1..students :
                i # j /\ StudentId(i) = StudentId(j) => names[i].stem # names[j].stem

(* A first attempt and every retry, one that overlaps another included,    *)
(* finds the files it was sent: one is missing only if an attempt has      *)
(* given up and cleaned up before (and the task was replayed, or run       *)
(* twice), if days have passed, or if the object store reads its name back *)
(* as another.                                                             *)
MissingOnlyOnceGivenUp ==
  \A a \in Runners :
    grader[a].pc = "missing" =>
      gaveUp \/ age # "minutes" \/ \E i \in DOMAIN names : Misread(names[i])
=============================================================================
