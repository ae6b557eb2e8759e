------------------------------ MODULE Rubrics ------------------------------
(***************************************************************************)
(* The making of rubrics from reference files: by a request of a teacher   *)
(* (POST /rubric/generate) and by the worker for a batch that came with    *)
(* its reference.  Both look for a recent rubric of the same files first,  *)
(* and neither takes a lock.                                               *)
(***************************************************************************)
EXTENDS Naturals, Sequences, FiniteSets

CONSTANTS
  Teachers,    \* requests for a rubric
  Batches,     \* worker attempts on a batch with a reference
  References,  \* the files a rubric can be made from: sequences of contents
  MaxRubrics   \* bound: rubrics saved

ASSUME RubricAssumption == MaxRubrics \in Nat

VARIABLES
  rubrics,    \* the table, oldest first
  maker,      \* where each request or attempt is
  bound       \* tasks.rubric_id of each batch

rubricVars == <<rubrics, maker, bound>>

Makers == Teachers \cup Batches
NoRubric == 0

Contents == UNION {{r[i] : i \in DOMAIN r} : r \in References}

(* Mutant: the hashes of the files are not sorted.                         *)
FingerprintInOrder(files) == files

(* compute_source_fingerprint: the contents, in whatever order and under   *)
(* whatever names they came.                                               *)
Fingerprint(files) ==
  [c \in Contents |-> Cardinality({i \in DOMAIN files : files[i] = c})]

(* SQL NULL, which no fingerprint equals.                                  *)
NoFingerprint == [c \in Contents |-> 0]

(* files and lookedAt are history variables: what a rubric was made from,  *)
(* and the rubrics there were when its maker looked for one.               *)
Rows == [source : {Fingerprint(r) : r \in References} \cup {NoFingerprint},
         files : References, recent : BOOLEAN, by : Makers, forced : BOOLEAN,
         lookedAt : 0..MaxRubrics]

RubricTypeOK ==
  /\ rubrics \in Seq(Rows) /\ Len(rubrics) <= MaxRubrics
  /\ maker \in [Makers ->
       [pc : {"idle", "look", "generate", "save", "use"}, files : References,
        forced : BOOLEAN, rubric : 0..Len(rubrics), lookedAt : 0..MaxRubrics]]
  /\ bound \in [Batches -> 0..Len(rubrics)]

RubricInit ==
  /\ rubrics = <<>>
  /\ maker \in [Makers ->
       {[pc |-> "idle", files |-> r, forced |-> FALSE, rubric |-> NoRubric,
         lookedAt |-> 0] : r \in References}]
  /\ bound = [b \in Batches |-> NoRubric]

Leave(m) == maker' = [maker EXCEPT ![m].pc = "idle", ![m].forced = FALSE,
                        ![m].rubric = NoRubric, ![m].lookedAt = 0]
-----------------------------------------------------------------------------
(* Only a teacher can ask for a rubric of their own whatever there is.  An *)
(* attempt on a batch comes again after every failure.                     *)
Ask(m, forced) ==
  /\ maker[m].pc = "idle"
  /\ forced => m \in Teachers
  /\ maker' = [maker EXCEPT ![m].pc = IF forced THEN "generate" ELSE "look",
                            ![m].forced = forced, ![m].lookedAt = Len(rubrics)]
  /\ UNCHANGED <<rubrics, bound>>

Matches(files) ==
  {i \in DOMAIN rubrics :
     rubrics[i].recent /\ rubrics[i].source = Fingerprint(files)}

(* get_recent_rubric_by_fingerprint: the newest of them, one of the newest *)
(* when they were saved in the same second.                                *)
Look(m) ==
  /\ maker[m].pc = "look"
  /\ LET hits == Matches(maker[m].files)
     IN \/ /\ hits = {}
           /\ maker' = [maker EXCEPT ![m].pc = "generate", ![m].lookedAt = Len(rubrics)]
        \/ \E i \in hits :
             maker' = [maker EXCEPT ![m].pc = "use", ![m].rubric = i]
  /\ UNCHANGED <<rubrics, bound>>

Generate(m) ==
  /\ maker[m].pc = "generate"
  /\ maker' = [maker EXCEPT ![m].pc = "save"]
  /\ UNCHANGED <<rubrics, bound>>

Save(m) ==
  /\ maker[m].pc = "save"
  /\ Len(rubrics) < MaxRubrics
  /\ rubrics' = Append(rubrics,
       [source |-> Fingerprint(maker[m].files),
        files |-> maker[m].files, recent |-> TRUE, by |-> m,
        forced |-> maker[m].forced, lookedAt |-> maker[m].lookedAt])
  /\ maker' = [maker EXCEPT ![m].pc = "use", ![m].rubric = Len(rubrics) + 1]
  /\ UNCHANGED bound

(* The request is audited and answered; the audit is not modelled.         *)
Respond(t) ==
  /\ maker[t].pc = "use"
  /\ Leave(t)
  /\ UNCHANGED <<rubrics, bound>>

(* The worker binds its task to the rubric, unaudited.                     *)
Bind(b) ==
  /\ maker[b].pc = "use"
  /\ Leave(b)
  /\ bound' = [bound EXCEPT ![b] = maker[b].rubric]
  /\ UNCHANGED rubrics

(* The model or the database fails, or the process goes: the request ends, *)
(* and what was saved stays.                                               *)
Fail(m) ==
  /\ maker[m].pc # "idle"
  /\ Leave(m)
  /\ UNCHANGED <<rubrics, bound>>

(* The oldest rubric leaves the window.                                    *)
Expire ==
  \E i \in DOMAIN rubrics :
    /\ rubrics[i].recent
    /\ \A j \in 1..i - 1 : ~rubrics[j].recent
    /\ rubrics' = [rubrics EXCEPT ![i].recent = FALSE]
    /\ UNCHANGED <<maker, bound>>

RubricNext ==
  \/ \E m \in Makers :
       \/ \E forced \in BOOLEAN : Ask(m, forced)
       \/ Look(m) \/ Generate(m) \/ Save(m) \/ Fail(m)
  \/ \E t \in Teachers : Respond(t)
  \/ \E b \in Batches : Bind(b)
  \/ Expire

RubricSpec == RubricInit /\ [][RubricNext]_rubricVars
-----------------------------------------------------------------------------
(* The same contents, each as often, in whatever order.                    *)
SameFiles(i, j) ==
  \A c \in Contents :
    Cardinality({k \in DOMAIN rubrics[i].files : rubrics[i].files[k] = c})
      = Cardinality({k \in DOMAIN rubrics[j].files : rubrics[j].files[k] = c})

(* Two recent rubrics of the same files that nobody forced were made at    *)
(* the same time: the maker of the second looked before the first was      *)
(* saved.                                                                  *)
DuplicatesOverlap ==
  \A i, j \in DOMAIN rubrics :
    (i < j /\ rubrics[i].recent /\ ~rubrics[j].forced /\ SameFiles(i, j)) =>
      rubrics[j].lookedAt < i
=============================================================================
