--------------------------- MODULE Services_proofs ---------------------------
(***************************************************************************)
(* The parts of the API process that keep files and tables, for any number *)
(* of requests, files, rubrics, teachers, operators and processes: the     *)
(* uploads of a submission, the making of rubrics, the review desk, the    *)
(* migration of the schema and the operations console; and the parts side  *)
(* by side, prompts included.                                              *)
(***************************************************************************)
EXTENDS MCServices, PromptCache_proofs

LEMMA SequenceOf ==
  ASSUME NEW S, NEW n \in Nat, NEW s, s \in [1..n -> S]
  PROVE  s \in Seq(S) /\ Len(s) = n
  OBVIOUS

(***************************************************************************)
(* The uploads of a submission.                                            *)
(***************************************************************************)
(* What is stored came from the request, under its own name; of files with *)
(* the same name, the last.                                                *)
StoredIsOwn ==
  /\ names \in Seq(Names) /\ Len(names) \in Nat
  /\ students \in 1..Len(names)
  /\ backend \in {"local", "s3"} /\ form \in {"single", "batch", "reference"}
  /\ objects \in [Names -> 0..Len(names)]
  /\ \A f \in Names : objects[f] # Nothing => names[objects[f]] = f

(* The references handed out are the names of the files so far, each with  *)
(* content unless time has passed or an attempt has cleaned up.            *)
Referenced ==
  /\ refs \in Seq(Names) /\ Len(refs) \in 0..Len(names)
  /\ \A i \in 1..Len(refs) : refs[i] = names[i]
  /\ stage = "queued" => Len(refs) = Len(names)
  /\ stage = "request" => Len(refs) = 0
  /\ (age = "minutes" /\ ~gaveUp) =>
       \A i \in 1..Len(refs) : objects[refs[i]] # Nothing

Admitted ==
  stage \notin {"request", "refused"} /\ form # "single" => SinglePages

(* What an attempt has read are the files the references name.             *)
ReadWell(g) ==
  /\ g.pc \in {"idle", "reference", "grading", "missing", "failed"}
  /\ g.pc = "idle" => Len(g.read) = 0
  /\ g.pc = "reference" => form = "reference" /\ Len(g.read) = students
  /\ g.pc = "grading" => Len(g.read) = Len(names)
  /\ g.read \in Seq(1..Len(names)) /\ Len(g.read) <= Len(names)
  /\ \A i \in 1..Len(g.read) : ~Misread(names[i]) => names[g.read[i]] = names[i]

ReadSoFar ==
  /\ stage \in {"request", "storing", "queued", "refused"}
  /\ age \in {"minutes", "days"}
  /\ gaveUp \in BOOLEAN
  /\ DOMAIN grader = Runners
  /\ \A a \in Runners : /\ ReadWell(grader[a])
                        /\ grader[a].pc # "idle" => stage = "queued"

UploadInv ==
  /\ StoredIsOwn
  /\ Referenced
  /\ Admitted
  /\ ReadSoFar
  /\ form # "reference" => students = Len(names)

LEMMA EmptyReads ==
  ASSUME StoredIsOwn, NEW pc \in {"idle", "missing", "failed"}
  PROVE  ReadWell(EmptyHanded(pc))
  <1>1. EmptyHanded(pc).pc = pc /\ EmptyHanded(pc).read = <<>>
    BY DEF EmptyHanded
  <1> QED BY <1>1 DEF ReadWell, StoredIsOwn

LEMMA UploadStarts == UploadInit => UploadInv
  <1> SUFFICES ASSUME UploadInit PROVE UploadInv
    OBVIOUS
  <1>1. PICK n \in 1..MaxFiles : names \in [1..n -> Names]
    BY DEF UploadInit
  <1>2. n \in Nat \ {0} /\ MaxFiles \in Nat
    BY UploadAssumption DEF UploadAssumption
  <1>3. names \in Seq(Names) /\ Len(names) = n
    BY <1>1, <1>2
  <1>4. students \in 1..Len(names) /\ (form # "reference" => students = Len(names))
    BY <1>2, <1>3 DEF UploadInit
  <1>5. /\ objects = [f \in Names |-> 0] /\ refs = <<>> /\ stage = "request"
        /\ age = "minutes" /\ gaveUp = FALSE /\ backend \in {"local", "s3"}
        /\ form \in {"single", "batch", "reference"}
    BY DEF UploadInit, Nothing
  <1>6. StoredIsOwn
    BY <1>2, <1>3, <1>4, <1>5 DEF StoredIsOwn, Nothing
  <1>7. Referenced
    BY <1>2, <1>3, <1>5 DEF Referenced
  <1>8. /\ DOMAIN grader = Runners
        /\ \A a \in Runners : grader[a] = EmptyHanded("idle") /\ grader[a].pc = "idle"
    BY DEF UploadInit, EmptyHanded
  <1>9. ReadSoFar
    BY <1>5, <1>6, <1>8, EmptyReads DEF ReadSoFar
  <1> QED BY <1>4, <1>5, <1>6, <1>7, <1>9 DEF UploadInv, Admitted

(* What a reference leads to while the file is there.                      *)
LEMMA ContentIsOwn ==
  ASSUME StoredIsOwn, Referenced, NEW i \in 1..Len(refs)
  PROVE  /\ Content(refs[i]) \in 0..Len(names)
         /\ Content(refs[i]) # Nothing =>
              /\ Content(refs[i]) \in 1..Len(names)
              /\ ~Misread(names[i]) => names[Content(refs[i])] = names[i]
         /\ Content(refs[i]) = Nothing => Misread(names[i]) \/ objects[refs[i]] = Nothing
  <1>1. refs[i] \in Names /\ refs[i] = names[i] /\ Len(names) \in Nat
    BY DEF StoredIsOwn, Referenced
  <1>2. PICK f \in Names : Content(refs[i]) = objects[f] /\ (~Misread(names[i]) => f = refs[i])
    BY <1>1, UploadAssumption DEF Content, Misread, UploadAssumption, Names
  <1>3. objects[f] \in 0..Len(names)
    BY <1>1 DEF StoredIsOwn
  <1>4. objects[f] # Nothing => names[objects[f]] = f
    BY DEF StoredIsOwn
  <1> QED BY <1>1, <1>2, <1>3, <1>4 DEF Nothing

Fetched(from, to) == [i \in 1..to - from + 1 |-> Content(refs[from + i - 1])]

ReadUpTo(read, n) ==
  /\ read \in Seq(1..Len(names)) /\ Len(read) = n
  /\ \A i \in 1..n : ~Misread(names[i]) => names[read[i]] = names[i]

LEMMA FilesRetrieved ==
  ASSUME StoredIsOwn, Referenced, NEW from \in Nat \ {0}, NEW to \in Nat,
         from <= to + 1, to <= Len(refs), Len(refs) = Len(names),
         \A i \in from..to : Content(refs[i]) # Nothing,
         NEW read, ReadUpTo(read, from - 1)
  PROVE  ReadUpTo(read \o Fetched(from, to), to)
  <1> DEFINE r == read \o Fetched(from, to)
             s == [i \in 1..to - from + 1 |-> Content(refs[from + i - 1])]
             n == to - from + 1
  <1>0. /\ read \in Seq(1..Len(names)) /\ Len(read) = from - 1
        /\ \A i \in 1..Len(read) : ~Misread(names[i]) => names[read[i]] = names[i]
    BY DEF ReadUpTo
  <1>1. n \in Nat /\ Len(refs) \in Nat /\ Len(names) \in Nat
    BY DEF Referenced, StoredIsOwn
  <1>2. ASSUME NEW i \in 1..n
        PROVE  /\ s[i] \in 1..Len(names)
               /\ ~Misread(names[from + i - 1]) => names[s[i]] = names[from + i - 1]
    <2> DEFINE k == from + i - 1
    <2>1. k \in from..to /\ k \in 1..Len(refs)
      BY <1>1
    <2>2. s[i] = Content(refs[k])
      OBVIOUS
    <2> HIDE DEF k, s
    <2>3. /\ Content(refs[k]) \in 1..Len(names)
          /\ ~Misread(names[k]) => names[Content(refs[k])] = names[k]
      BY <2>1, ContentIsOwn
    <2> QED BY <2>2, <2>3 DEF k
  <1>3. s \in Seq(1..Len(names)) /\ Len(s) = n
    <2>1. s \in [1..n -> 1..Len(names)]
      BY <1>2
    <2> HIDE DEF s, n
    <2> QED BY <1>1, <2>1, SequenceOf
  <1>r. r = read \o s
    BY DEF Fetched
  <1> HIDE DEF r, s
  <1>4. /\ r \in Seq(1..Len(names)) /\ Len(r) = Len(read) + Len(s)
        /\ \A i \in 1..Len(read) + Len(s) :
             r[i] = IF i <= Len(read) THEN read[i] ELSE s[i - Len(read)]
    <2> DEFINE T == 1..Len(names)
    <2>1. read \in Seq(T) /\ s \in Seq(T)
      BY <1>0, <1>3
    <2> HIDE DEF T
    <2>2. /\ read \o s \in Seq(T) /\ Len(read \o s) = Len(read) + Len(s)
          /\ \A i \in 1..Len(read) + Len(s) :
               (read \o s)[i] = IF i <= Len(read) THEN read[i] ELSE s[i - Len(read)]
      BY <2>1, ConcatProperties
    <2> QED BY <1>r, <2>2 DEF T
  <1>a. Len(read) + Len(s) = to /\ Len(read) = from - 1
    BY <1>0, <1>1, <1>3
  <1>5. /\ Len(r) = to
        /\ \A i \in 1..to : r[i] = IF i <= from - 1 THEN read[i] ELSE s[i - (from - 1)]
    BY <1>4, <1>a, Zenon
  <1>6. ASSUME NEW i \in 1..to, ~Misread(names[i]) PROVE names[r[i]] = names[i]
    <2>1. CASE i <= from - 1
      <3>1. r[i] = read[i] /\ i \in 1..Len(read)
        BY <1>5, <1>a, <2>1
      <3> QED BY <1>0, <1>6, <3>1
    <2>2. CASE ~(i <= from - 1)
      <3> DEFINE j == i - (from - 1)
      <3>1. j \in 1..n /\ from + j - 1 = i
        BY <2>2
      <3>2. r[i] = s[j]
        BY <1>5, <2>2
      <3> HIDE DEF j, n
      <3> QED BY <1>2, <1>6, <3>1, <3>2
    <2> QED BY <2>1, <2>2
  <1> QED BY <1>4, <1>5, <1>6 DEF ReadUpTo, r

(* What a step of one runner leaves of the others.                         *)
LEMMA OneGrader ==
  ASSUME ReadSoFar, NEW a \in Runners, NEW g, grader' = [grader EXCEPT ![a] = g]
  PROVE  /\ DOMAIN grader' = Runners /\ grader'[a] = g
         /\ \A b \in Runners \ {a} : grader'[b] = grader[b]
  BY DEF ReadSoFar

LEMMA RetrieveReads ==
  ASSUME UploadInv, NEW a \in Runners, NEW from \in Nat \ {0}, NEW to \in Nat, NEW next,
         from <= to + 1, to <= Len(refs), Len(refs) = Len(names),
         Len(grader[a].read) = from - 1, Retrieve(a, from, to, next)
  PROVE  \/ /\ grader' = [grader EXCEPT ![a] = EmptyHanded("missing")]
            /\ \E i \in 1..Len(refs) : Content(refs[i]) = Nothing
         \/ \E r \in Seq(1..Len(names)) :
              /\ grader' = [grader EXCEPT ![a] = [pc |-> next, read |-> r]]
              /\ Len(r) = to
              /\ \A i \in 1..to : ~Misread(names[i]) => names[r[i]] = names[i]
  <1> DEFINE r == grader[a].read \o [i \in 1..to - from + 1 |-> Content(refs[from + i - 1])]
  <1>1. CASE \E i \in from..to : Content(refs[i]) = Nothing
    <2>1. grader' = [grader EXCEPT ![a] = EmptyHanded("missing")]
      BY <1>1 DEF Retrieve
    <2>2. from..to \subseteq 1..Len(refs)
      BY DEF UploadInv, Referenced
    <2> QED BY <1>1, <2>1, <2>2
  <1>2. CASE ~\E i \in from..to : Content(refs[i]) = Nothing
    <2>1. grader' = [grader EXCEPT ![a] = [pc |-> next, read |-> r]]
      BY <1>2 DEF Retrieve
    <2>2. ReadUpTo(r, to)
      <3>1. ReadUpTo(grader[a].read, from - 1)
        BY DEF UploadInv, ReadSoFar, ReadWell, ReadUpTo
      <3>2. StoredIsOwn /\ Referenced /\ \A i \in from..to : Content(refs[i]) # Nothing
        BY <1>2 DEF UploadInv
      <3> HIDE DEF ReadUpTo
      <3>3. ReadUpTo(grader[a].read \o Fetched(from, to), to)
        BY <3>1, <3>2, FilesRetrieved, Zenon
      <3> QED BY <3>3 DEF Fetched
    <2> HIDE DEF r
    <2> QED BY <2>1, <2>2 DEF ReadUpTo
  <1> QED BY <1>1, <1>2

(* The two retrievals, of an attempt that has read what comes before.      *)
LEMMA RetrieveCases ==
  ASSUME UploadInv, NEW a \in Runners, RetrieveStudents(a) \/ RetrieveReference(a)
  PROVE  \E from \in Nat \ {0}, to \in Nat, next \in {"reference", "grading"} :
           /\ from <= to + 1 /\ to <= Len(refs) /\ Len(refs) = Len(names)
           /\ Len(grader[a].read) = from - 1 /\ Retrieve(a, from, to, next)
           /\ stage = "queued"
           /\ \/ next = "grading" /\ to = Len(names)
              \/ next = "reference" /\ form = "reference" /\ to = students
  <1>0. /\ Referenced /\ ReadSoFar /\ ReadWell(grader[a])
        /\ form # "reference" => students = Len(names)
        /\ Len(names) \in Nat /\ students \in 1..Len(names) /\ Len(refs) \in 0..Len(names)
    BY DEF UploadInv, StoredIsOwn, Referenced, ReadSoFar
  <1>1. CASE RetrieveStudents(a)
    <2>1. /\ stage = "queued" /\ grader[a].pc = "idle"
          /\ Retrieve(a, 1, students, IF form = "reference" THEN "reference" ELSE "grading")
      BY <1>1 DEF RetrieveStudents
    <2>2. Len(refs) = Len(names) /\ Len(grader[a].read) = 0
      BY <1>0, <2>1 DEF Referenced, ReadWell
    <2>3. /\ 1 \in Nat \ {0} /\ students \in Nat /\ 1 <= students + 1
          /\ students <= Len(refs) /\ Len(grader[a].read) = 1 - 1
      BY <1>0, <2>2
    <2>4. CASE form = "reference"
      BY <2>1, <2>2, <2>3, <2>4
    <2>5. CASE form # "reference"
      BY <1>0, <2>1, <2>2, <2>3, <2>5
    <2> QED BY <2>4, <2>5
  <1>2. CASE RetrieveReference(a)
    <2>1. grader[a].pc = "reference" /\ Retrieve(a, students + 1, Len(refs), "grading")
      BY <1>2 DEF RetrieveReference
    <2>2. stage = "queued" /\ Len(refs) = Len(names) /\ Len(grader[a].read) = students
      BY <1>0, <2>1 DEF Referenced, ReadSoFar, ReadWell
    <2>3. /\ students + 1 \in Nat \ {0} /\ Len(refs) \in Nat
          /\ students + 1 <= Len(refs) + 1 /\ Len(refs) <= Len(refs)
          /\ Len(grader[a].read) = students + 1 - 1
      BY <1>0, <2>2
    <2> QED BY <2>1, <2>2, <2>3
  <1> QED BY <1>1, <1>2

LEMMA UploadSteps == UploadInv /\ [UploadNext]_uploadVars => UploadInv'
  <1> SUFFICES ASSUME UploadInv, [UploadNext]_uploadVars PROVE UploadInv'
    OBVIOUS
  <1>0. /\ StoredIsOwn /\ Referenced /\ Admitted /\ ReadSoFar
        /\ form # "reference" => students = Len(names)
        /\ Len(names) \in Nat /\ students \in 1..Len(names) /\ Len(refs) \in 0..Len(names)
    BY DEF UploadInv, StoredIsOwn, Referenced
  (* A step of one runner, to a state in which it has read well.           *)
  <1>r. ASSUME NEW a \in Runners, NEW g, grader' = [grader EXCEPT ![a] = g], ReadWell(g),
               UNCHANGED <<requestVars, stage>>, stage = "queued",
               age' \in {"minutes", "days"}, gaveUp' \in BOOLEAN
        PROVE  ReadSoFar'
    <2>1. /\ DOMAIN grader' = Runners /\ grader'[a] = g
          /\ \A b \in Runners \ {a} : grader'[b] = grader[b]
      BY <1>0, <1>r, OneGrader
    <2>2. \A b \in Runners : ReadWell(grader'[b])
      BY <1>0, <1>r, <2>1 DEF ReadSoFar
    <2>3. \A b \in Runners : ReadWell(grader[b])'
      BY <1>r, <2>2 DEF ReadWell, Misread, requestVars
    <2> QED BY <1>0, <1>r, <2>1, <2>3 DEF ReadSoFar
  (* A step of no runner, before or after the message is sent.             *)
  <1>s. ASSUME UNCHANGED <<requestVars, grader, gaveUp>>,
               stage' = stage \/ stage \in {"request", "storing"},
               stage' \in {"request", "storing", "queued", "refused"},
               age' \in {"minutes", "days"}
        PROVE  ReadSoFar'
    <2>1. \A b \in Runners : ReadWell(grader[b])'
      BY <1>0, <1>s DEF ReadSoFar, ReadWell, Misread, requestVars
    <2> QED BY <1>0, <1>s, <2>1 DEF ReadSoFar
  <1>1. CASE RefuseBody \/ Refuse
    <2>1. /\ stage \in {"request", "storing"} /\ stage' = "refused"
          /\ UNCHANGED <<requestVars, objects, refs, workVars>>
      BY <1>1 DEF RefuseBody, Refuse, Refused
    <2>2. ReadSoFar'
      BY <1>0, <1>s, <2>1 DEF workVars, ReadSoFar
    <2> QED BY <1>0, <2>1, <2>2 DEF requestVars, workVars, UploadInv, StoredIsOwn,
                                    Referenced, Admitted
  <1>2. CASE SubmitJob \/ SubmitBatch \/ SubmitBatchWithReference
    <2>1. /\ stage = "request" /\ stage' \in {"storing", "refused"}
          /\ stage' = "storing" /\ form # "single" => SinglePages
          /\ UNCHANGED <<requestVars, objects, refs, workVars>>
      BY <1>2 DEF SubmitJob, SubmitBatch, SubmitBatchWithReference, Admit
    <2>2. ReadSoFar'
      BY <1>0, <1>s, <2>1 DEF workVars, ReadSoFar
    <2> QED BY <1>0, <2>1, <2>2 DEF requestVars, workVars, UploadInv, StoredIsOwn,
                                    Referenced, Admitted, SinglePages
  <1>3. CASE StoreNext
    <2> DEFINE n == Len(refs) + 1
               path == names[n]
    <2>1. /\ stage = "storing" /\ Len(refs) < Len(names)
          /\ objects' = [objects EXCEPT ![path] = n]
          /\ refs' = Append(refs, path)
          /\ UNCHANGED <<requestVars, stage, workVars>>
      BY <1>3 DEF StoreNext, Path
    <2>2. /\ n \in 1..Len(names) /\ n \in Nat \ {0} /\ path \in Names
          /\ refs \in Seq(Names) /\ objects \in [Names -> 0..Len(names)]
      BY <1>0, <2>1 DEF StoredIsOwn, Referenced
    <2>3. /\ refs' \in Seq(Names) /\ Len(refs') = n
          /\ \A i \in 1..n : refs'[i] = IF i = n THEN path ELSE refs[i]
      <3> HIDE DEF path
      <3> QED BY <2>1, <2>2
    <2>p. path = names[n]
      OBVIOUS
    <2> HIDE DEF n, path
    <2>4. \A f \in Names : objects'[f] = IF f = path THEN n ELSE objects[f]
      BY <2>1, <2>2
    <2>5. StoredIsOwn'
      <3>1. objects' \in [Names -> 0..Len(names)]
        BY <1>0, <2>1, <2>2
      <3>2. ASSUME NEW f \in Names, objects'[f] # Nothing
            PROVE  names[objects'[f]] = f
        BY <1>0, <2>4, <2>p, <3>2 DEF StoredIsOwn
      <3> QED BY <1>0, <2>1, <3>1, <3>2 DEF StoredIsOwn, requestVars
    <2>6. Referenced'
      <3>1. \A i \in 1..n : refs'[i] = names[i]
        <4>1. ASSUME NEW i \in 1..n, i # n PROVE refs'[i] = names[i]
          <5>1. i \in 1..Len(refs)
            BY <1>0, <4>1 DEF n
          <5> QED BY <1>0, <2>3, <4>1, <5>1 DEF Referenced
        <4> QED BY <2>3, <2>p, <4>1
      <3>2. ASSUME age' = "minutes", ~gaveUp', NEW i \in 1..n
            PROVE  objects'[refs'[i]] # Nothing
        <4>1. CASE refs'[i] = path
          BY <2>2, <2>4, <4>1 DEF Nothing
        <4>2. CASE refs'[i] # path
          <5>1. i \in 1..Len(refs) /\ refs'[i] = refs[i] /\ refs[i] \in Names
            <6>1. i # n
              BY <2>3, <4>2
            <6>2. i \in 1..Len(refs)
              BY <1>0, <6>1 DEF n
            <6> QED BY <2>2, <2>3, <6>1, <6>2
          <5>2. objects[refs[i]] # Nothing
            BY <1>0, <2>1, <3>2, <5>1 DEF Referenced, workVars
          <5> QED BY <2>4, <4>2, <5>1, <5>2
        <4> QED BY <4>1, <4>2
      <3>3. Len(refs') \in 0..Len(names')
        BY <2>1, <2>2, <2>3 DEF requestVars
      <3>4. stage' = "storing" /\ names' = names
        BY <2>1 DEF requestVars
      <3> QED BY <2>3, <3>1, <3>2, <3>3, <3>4 DEF Referenced
    <2>7. ReadSoFar'
      BY <1>0, <1>s, <2>1 DEF workVars, ReadSoFar
    <2> QED BY <1>0, <2>1, <2>5, <2>6, <2>7 DEF requestVars, UploadInv, Admitted, SinglePages
  <1>4. CASE Enqueue
    <2>1. /\ stage = "storing" /\ stage' = "queued" /\ Len(refs) = Len(names)
          /\ UNCHANGED <<requestVars, objects, refs, workVars>>
      BY <1>4 DEF Enqueue
    <2>2. ReadSoFar'
      BY <1>0, <1>s, <2>1 DEF workVars, ReadSoFar
    <2> QED BY <1>0, <2>1, <2>2 DEF requestVars, workVars, UploadInv, StoredIsOwn,
                                    Referenced, Admitted, SinglePages
  (* A step that leaves the files alone once they are stored.              *)
  <1>5. ASSUME ReadSoFar', UNCHANGED <<requestVars, objects, refs, stage, gaveUp>>,
               age' = "minutes" => age = "minutes"
        PROVE  UploadInv'
    BY <1>0, <1>5 DEF requestVars, UploadInv, StoredIsOwn, Referenced, Admitted, SinglePages
  <1>6. ASSUME NEW a \in Runners, RetrieveStudents(a) \/ RetrieveReference(a)
        PROVE  UploadInv'
    <2>1. PICK from \in Nat \ {0}, to \in Nat, next \in {"reference", "grading"} :
           /\ from <= to + 1 /\ to <= Len(refs) /\ Len(refs) = Len(names)
           /\ Len(grader[a].read) = from - 1 /\ Retrieve(a, from, to, next)
           /\ stage = "queued"
           /\ \/ next = "grading" /\ to = Len(names)
              \/ next = "reference" /\ form = "reference" /\ to = students
      BY <1>6, RetrieveCases
    <2>2. UNCHANGED <<requestVars, objects, refs, stage, gaveUp, age>>
      BY <2>1 DEF Retrieve
    <2>3. PICK g : grader' = [grader EXCEPT ![a] = g] /\ ReadWell(g)
      <3>1. CASE grader' = [grader EXCEPT ![a] = EmptyHanded("missing")]
        BY <1>0, <3>1, EmptyReads
      <3>2. ASSUME NEW r \in Seq(1..Len(names)), Len(r) = to,
                   \A i \in 1..to : ~Misread(names[i]) => names[r[i]] = names[i],
                   grader' = [grader EXCEPT ![a] = [pc |-> next, read |-> r]]
            PROVE  \E g : grader' = [grader EXCEPT ![a] = g] /\ ReadWell(g)
        <4> DEFINE g == [pc |-> next, read |-> r]
        <4>1. g.pc = next /\ g.read = r
          OBVIOUS
        <4> HIDE DEF g
        <4>2. ReadWell(g)
          BY <1>0, <2>1, <3>2, <4>1 DEF ReadWell
        <4> QED BY <3>2, <4>2 DEF g
      <3> QED BY <2>1, <3>1, <3>2, RetrieveReads
    <2>4. ReadSoFar'
      BY <1>0, <1>r, <2>1, <2>2, <2>3 DEF ReadSoFar
    <2> QED BY <1>5, <2>2, <2>4
  <1>7. ASSUME NEW a \in Runners, NEW from, NEW to \in {"idle", "failed"},
               from \subseteq {"reference", "grading", "missing", "failed"},
               Goes(a, from, to), gaveUp' \in BOOLEAN
        PROVE  ReadSoFar' /\ UNCHANGED <<requestVars, refs, stage, age>>
    <2>1. /\ grader[a].pc \in from /\ grader' = [grader EXCEPT ![a] = EmptyHanded(to)]
          /\ UNCHANGED <<requestVars, refs, stage, age>>
      BY <1>7 DEF Goes
    <2>2. stage = "queued"
      BY <1>0, <1>7, <2>1 DEF ReadSoFar
    <2>3. ReadWell(EmptyHanded(to))
      BY <1>0, EmptyReads
    <2> HIDE DEF EmptyHanded
    <2> QED BY <1>0, <1>7, <1>r, <2>1, <2>2, <2>3 DEF ReadSoFar
  <1>8. ASSUME NEW a \in Runners, Finish(a) \/ Raise(a) \/ Retry(a)
        PROVE  UploadInv'
    <2>1. UNCHANGED <<objects, gaveUp>>
      BY <1>8 DEF Finish, Raise, Retry
    <2>2. ReadSoFar' /\ UNCHANGED <<requestVars, refs, stage, age>>
      BY <1>0, <1>7, <1>8, <2>1 DEF Finish, Raise, Retry, ReadSoFar
    <2> QED BY <1>5, <2>1, <2>2
  (* The files go, for their age or after an attempt that has given up.    *)
  <1>9. ASSUME NEW gone \in SUBSET Names, ReadSoFar',
               objects' = [f \in Names |-> IF f \in gone THEN Nothing ELSE objects[f]],
               UNCHANGED <<requestVars, refs, stage, age>>,
               gaveUp' \/ age # "minutes"
        PROVE  UploadInv'
    <2>1. StoredIsOwn'
      BY <1>0, <1>9 DEF StoredIsOwn, requestVars, Nothing
    <2>2. Referenced' /\ Admitted'
      BY <1>0, <1>9 DEF Referenced, Admitted, SinglePages, requestVars
    <2> QED BY <1>0, <1>9, <2>1, <2>2 DEF UploadInv, requestVars
  <1>10. ASSUME NEW a \in Runners, GiveUp(a) PROVE UploadInv'
    <2>1. RemoveFiles /\ gaveUp' = TRUE
      BY <1>10 DEF GiveUp
    <2>2. ReadSoFar' /\ UNCHANGED <<requestVars, refs, stage, age>>
      BY <1>7, <1>10, <2>1 DEF GiveUp
    <2> QED BY <1>9, <2>1, <2>2 DEF RemoveFiles
  <1>11. CASE TtlCleanup \/ CleanupExpired
    <2>1. /\ RemoveFiles /\ age # "minutes"
          /\ UNCHANGED <<requestVars, refs, stage, workVars>>
      BY <1>11 DEF TtlCleanup, CleanupExpired, RemoveDirectory
    <2>2. ReadSoFar'
      BY <1>0, <1>s, <2>1 DEF workVars, ReadSoFar
    <2> QED BY <1>9, <2>1, <2>2 DEF RemoveFiles, workVars
  <1>12. CASE Age
    <2>1. /\ age = "minutes" /\ age' = "days"
          /\ UNCHANGED <<requestVars, objects, refs, stage, grader, gaveUp>>
      BY <1>12 DEF Age
    <2>2. ReadSoFar'
      BY <1>0, <1>s, <2>1 DEF ReadSoFar
    <2> QED BY <1>5, <2>1, <2>2
  <1>13. CASE UNCHANGED uploadVars
    <2>1. UNCHANGED <<requestVars, objects, refs, stage, grader, gaveUp, age>>
      BY <1>13 DEF uploadVars, workVars
    <2>2. ReadSoFar'
      BY <1>0, <1>s, <2>1 DEF ReadSoFar
    <2> QED BY <1>5, <2>1, <2>2
  <1> QED
    BY <1>1, <1>2, <1>3, <1>4, <1>6, <1>8, <1>10, <1>11, <1>12, <1>13 DEF UploadNext

(* Of two files with the same stem the later one gets a count, and a       *)
(* higher one.                                                             *)
LEMMA CountsDiffer ==
  ASSUME StoredIsOwn, NEW i \in 1..Len(names), NEW j \in 1..Len(names), i < j,
         names[i].stem = names[j].stem
  PROVE  StudentId(i) # StudentId(j)
  <1> DEFINE s == names[i].stem
             U(k) == {m \in 1..k : names[m].stem = s}
             a == Cardinality(U(i))
             b == Cardinality(U(j))
  <1>0. Len(names) \in Nat /\ names[i] \in Names /\ names[j] \in Names
    BY DEF StoredIsOwn
  <1>1. i \in Nat /\ j \in Nat /\ i \in U(i) /\ U(i) \subseteq U(j) /\ j \in U(j) \ U(i)
    BY <1>0
  <1>2. IsFiniteSet(U(i)) /\ IsFiniteSet(U(j))
    <2>1. IsFiniteSet(1..i) /\ IsFiniteSet(1..j)
      BY <1>1, FS_Interval
    <2>2. U(i) \subseteq 1..i /\ U(j) \subseteq 1..j
      OBVIOUS
    <2> HIDE DEF U
    <2> QED BY <2>1, <2>2, FS_Subset
  <1>3. a \in Nat /\ b \in Nat /\ a > 0 /\ a < b
    <2> DEFINE V == U(i)
               W == U(j)
    <2>1. IsFiniteSet(V) /\ IsFiniteSet(W) /\ V \subseteq W /\ V # W /\ V # {}
      BY <1>1, <1>2
    <2> HIDE DEF V, W
    <2>2. /\ Cardinality(V) \in Nat /\ Cardinality(W) \in Nat
          /\ Cardinality(V) <= Cardinality(W) /\ Cardinality(V) # Cardinality(W)
          /\ Cardinality(V) # 0
      BY <2>1, FS_Subset, FS_CardinalityType, FS_EmptySet
    <2>3. Cardinality(V) > 0 /\ Cardinality(V) < Cardinality(W)
      BY <2>2
    <2> QED BY <2>2, <2>3 DEF V, W
  <1>4. /\ StudentId(i) = IF a = 1 THEN s ELSE Append(s, a)
        /\ StudentId(j) = IF b = 1 THEN s ELSE Append(s, b)
    BY DEF StudentId
  <1>5. s \in Stems
    BY <1>0 DEF Names
  <1> HIDE DEF a, b, s
  <1>6. PICK T : s \in Seq(T) /\ Nat \subseteq T
    <2> DEFINE T == Nat \cup {s[m] : m \in 1..Len(s)}
    <2>1. Len(s) \in Nat /\ s = [m \in 1..Len(s) |-> s[m]]
      BY <1>5, UploadAssumption DEF UploadAssumption
    <2>2. s \in [1..Len(s) -> T]
      BY <2>1
    <2>3. s \in Seq(T) /\ Nat \subseteq T
      <3> DEFINE n == Len(s)
      <3>1. n \in Nat /\ s \in [1..n -> T] /\ Nat \subseteq T
        BY <2>1, <2>2
      <3> HIDE DEF n, T
      <3> QED BY <3>1, SequenceOf
    <2> HIDE DEF T
    <2> QED BY <2>3
  <1>7. /\ Append(s, b) # s
        /\ Append(s, a) # Append(s, b)
    <2>1. /\ Len(Append(s, b)) = Len(s) + 1 /\ Len(s) \in Nat
          /\ Append(s, a)[Len(s) + 1] = a
          /\ Append(s, b)[Len(s) + 1] = b
      BY <1>3, <1>6
    <2>2. Len(s) + 1 # Len(s)
      BY <2>1
    <2>3. a # b
      BY <1>3
    <2> QED BY <2>1, <2>2, <2>3, Zenon
  <1>8. b # 1 /\ StudentId(j) = Append(s, b)
    BY <1>3, <1>4
  <1>9. CASE a = 1
    <2>1. StudentId(i) = s
      BY <1>4, <1>9
    <2> QED BY <1>7, <1>8, <2>1
  <1>10. CASE a # 1
    <2>1. StudentId(i) = Append(s, a)
      BY <1>4, <1>10
    <2> QED BY <1>7, <1>8, <2>1
  <1> QED BY <1>9, <1>10

LEMMA UploadKeeps == UploadSpec => []UploadInv
  BY UploadStarts, UploadSteps, PTL DEF UploadSpec
-----------------------------------------------------------------------------
(* The request, what is stored of it and what was read of it stay within   *)
(* their types: no more references than files, no more read than sent.     *)
THEOREM UploadsAreTyped == UploadSpec => []UploadTypeOK
  <1> DEFINE Few == Len(names) \in 1..MaxFiles
  <1>1. UploadInit => Few
    <2> SUFFICES ASSUME UploadInit PROVE Few
      OBVIOUS
    <2>1. PICK n \in 1..MaxFiles : names \in [1..n -> Names]
      BY DEF UploadInit
    <2>2. n \in Nat /\ MaxFiles \in Nat
      BY UploadAssumption DEF UploadAssumption
    <2>3. Len(names) = n
      BY <2>1, <2>2, SequenceOf
    <2> QED BY <2>3
  <1>2. Few /\ [UploadNext]_uploadVars => Few'
    <2>1. [UploadNext]_uploadVars => names' = names
      BY DEF UploadNext, uploadVars, requestVars, RefuseBody, Refuse, Refused, SubmitJob,
             SubmitBatch, SubmitBatchWithReference, Admit, StoreNext, Enqueue, Retrieve,
             RetrieveStudents, RetrieveReference, Goes, Finish, Raise, Retry, GiveUp, Age,
             TtlCleanup, CleanupExpired, RemoveDirectory
    <2> QED BY <2>1
  <1>3. UploadInv /\ Few => UploadTypeOK
    BY UploadAssumption
      DEF UploadAssumption, UploadInv, StoredIsOwn, Referenced, ReadSoFar, ReadWell,
          UploadTypeOK
  <1> QED BY <1>1, <1>2, <1>3, UploadKeeps, PTL DEF UploadSpec

(* Whatever the request looks like, whichever files of it share their      *)
(* names, and however its attempts fail, overlap and clean up: every file  *)
(* that is graded was stored under its own name, so that with distinct     *)
(* names every student is graded on their own file; what a batch grades is *)
(* a page; and of two files with the same stem no two get the same student *)
(* id.                                                                     *)
THEOREM OwnFilesAreGraded == UploadSpec => []OwnFileGraded
  <1>1. UploadInv => OwnFileGraded
    <2> SUFFICES ASSUME UploadInv, NEW a \in Runners, grader[a].pc = "grading"
                 PROVE  LET read == grader[a].read
                        IN /\ DOMAIN read = DOMAIN names
                           /\ \A i \in DOMAIN names :
                                Distinct(names) /\ ~Misread(names[i]) => read[i] = i
                           /\ form # "single" =>
                                \A i \in 1..students :
                                  ~Misread(names[i]) => names[read[i]].ext \in PageTypes
                           /\ form # "single" =>
                                \A i, j \in 1..students :
                                  i # j /\ StudentId(i) = StudentId(j) =>
                                    names[i].stem # names[j].stem
      BY DEF OwnFileGraded
    <2> DEFINE read == grader[a].read
    <2>1. /\ StoredIsOwn /\ DOMAIN names = 1..Len(names) /\ Len(names) \in Nat
          /\ students \in 1..Len(names)
      BY DEF UploadInv, StoredIsOwn
    <2>2. /\ read \in Seq(1..Len(names)) /\ Len(read) = Len(names)
          /\ \A i \in 1..Len(names) : ~Misread(names[i]) => names[read[i]] = names[i]
      BY DEF UploadInv, ReadSoFar, ReadWell
    <2> HIDE DEF read
    <2>3. /\ DOMAIN read = DOMAIN names
          /\ \A i \in 1..Len(names) : read[i] \in 1..Len(names)
      BY <2>1, <2>2
    <2>4. \A i \in DOMAIN names : Distinct(names) /\ ~Misread(names[i]) => read[i] = i
      BY <2>1, <2>2, <2>3 DEF Distinct
    <2>5. form # "single" =>
            \A i \in 1..students : ~Misread(names[i]) => names[read[i]].ext \in PageTypes
      <3>1. form # "single" => \A i \in 1..students : names[i].ext \in PageTypes
        BY <2>1 DEF UploadInv, Admitted, SinglePages, ReadSoFar
      <3>2. \A i \in 1..students : ~Misread(names[i]) => names[read[i]] = names[i]
        BY <2>1, <2>2
      <3> QED BY <3>1, <3>2
    <2>6. ASSUME NEW i \in 1..students, NEW j \in 1..students, i # j,
                 StudentId(i) = StudentId(j), names[i].stem = names[j].stem
          PROVE  FALSE
      <3>1. i \in 1..Len(names) /\ j \in 1..Len(names) /\ (i < j \/ j < i)
        BY <2>1, <2>6
      <3> QED BY <2>1, <2>6, <3>1, CountsDiffer
    <2> QED BY <2>3, <2>4, <2>5, <2>6 DEF read
  <1> QED BY <1>1, UploadKeeps, PTL

(* An attempt that misses a file came after one that gave up and cleaned   *)
(* up, or days after the upload, or the object store reads the name back   *)
(* as another: however many attempts there are, one that fails and is      *)
(* retried takes no file from the retry, nor from another.                 *)
THEOREM MissingFilesWereGivenUp == UploadSpec => []MissingOnlyOnceGivenUp
  <1> DEFINE Excused == MissingOnlyOnceGivenUp
             I == UploadInv /\ Excused
  <1>1. UploadInit => I
    <2>1. UploadInit => \A a \in Runners : grader[a].pc = "idle"
      BY DEF UploadInit, EmptyHanded
    <2> QED BY <2>1, UploadStarts DEF MissingOnlyOnceGivenUp
  <1>2. I /\ [UploadNext]_uploadVars => I'
    <2> SUFFICES ASSUME UploadInv, Excused, [UploadNext]_uploadVars PROVE Excused'
      BY UploadSteps
    <2>0. /\ Referenced /\ StoredIsOwn /\ ReadSoFar /\ Len(refs) \in 0..Len(names)
          /\ Len(names) \in Nat /\ DOMAIN names = 1..Len(names)
          /\ age \in {"minutes", "days"}
      BY DEF UploadInv, Referenced, StoredIsOwn, ReadSoFar
    <2>1. /\ UNCHANGED <<names, backend>> /\ (gaveUp => gaveUp')
          /\ age' = "minutes" => age = "minutes"
      BY <2>0 DEF uploadVars, requestVars, workVars, UploadNext, RefuseBody, SubmitJob,
         SubmitBatch, SubmitBatchWithReference, Admit, StoreNext, Refuse, Refused, Enqueue,
         Retrieve, RetrieveStudents, RetrieveReference, Goes, Finish, Raise, Retry, GiveUp,
         Age, TtlCleanup, CleanupExpired, RemoveDirectory
    <2>2. CASE UNCHANGED grader
      BY <2>1, <2>2 DEF MissingOnlyOnceGivenUp, Misread
    <2>3. ASSUME NEW a \in Runners, NEW g, grader' = [grader EXCEPT ![a] = g],
                 g.pc = "missing" => \/ gaveUp' \/ age' # "minutes"
                                     \/ \E i \in DOMAIN names : Misread(names[i])
          PROVE  Excused'
      <3>1. /\ grader'[a] = g
            /\ \A b \in Runners \ {a} : grader'[b] = grader[b]
        BY <2>0, <2>3, OneGrader
      <3>2. (\E i \in DOMAIN names : Misread(names[i])) =>
              (\E i \in DOMAIN names : Misread(names[i]))'
        BY <2>1 DEF Misread
      <3> QED BY <2>1, <2>3, <3>1, <3>2 DEF MissingOnlyOnceGivenUp
    <2>4. ASSUME NEW a \in Runners, Finish(a) \/ Raise(a) \/ Retry(a) \/ GiveUp(a)
          PROVE  Excused'
      <3>1. PICK to \in {"idle", "failed"} : grader' = [grader EXCEPT ![a] = EmptyHanded(to)]
        BY <2>4 DEF Finish, Raise, Retry, GiveUp, Goes
      <3>2. EmptyHanded(to).pc # "missing"
        BY DEF EmptyHanded
      <3> HIDE DEF Excused
      <3> QED BY <2>3, <3>1, <3>2
    <2>5. ASSUME NEW a \in Runners, RetrieveStudents(a) \/ RetrieveReference(a)
          PROVE  Excused'
      <3>1. PICK from \in Nat \ {0}, to \in Nat, next \in {"reference", "grading"} :
              /\ from <= to + 1 /\ to <= Len(refs) /\ Len(refs) = Len(names)
              /\ Len(grader[a].read) = from - 1 /\ Retrieve(a, from, to, next)
        BY <2>5, RetrieveCases
      <3>2. UNCHANGED <<gaveUp, age>>
        BY <3>1 DEF Retrieve
      <3>3. ASSUME NEW i \in 1..Len(refs), Content(refs[i]) = Nothing
            PROVE  \/ gaveUp \/ age # "minutes"
                   \/ \E j \in DOMAIN names : Misread(names[j])
        <4>1. Misread(names[i]) \/ objects[refs[i]] = Nothing
          BY <2>0, <3>3, ContentIsOwn
        <4> QED BY <2>0, <3>1, <3>3, <4>1 DEF Referenced
      <3>4. CASE /\ grader' = [grader EXCEPT ![a] = EmptyHanded("missing")]
                 /\ \E i \in 1..Len(refs) : Content(refs[i]) = Nothing
        <4> HIDE DEF Excused
        <4> QED BY <2>3, <3>2, <3>3, <3>4
      <3>5. ASSUME NEW r \in Seq(1..Len(names)),
                   grader' = [grader EXCEPT ![a] = [pc |-> next, read |-> r]]
            PROVE  Excused'
        <4> HIDE DEF Excused
        <4> QED BY <2>3, <3>5
      <3> HIDE DEF Excused
      <3> QED BY <3>1, <3>4, <3>5, RetrieveReads
    <2>6. CASE \/ RefuseBody \/ SubmitJob \/ SubmitBatch \/ SubmitBatchWithReference
               \/ StoreNext \/ Refuse \/ Enqueue \/ Age \/ TtlCleanup \/ CleanupExpired
               \/ UNCHANGED uploadVars
      <3>1. UNCHANGED grader
        BY <2>6 DEF uploadVars, workVars, RefuseBody, SubmitJob, SubmitBatch,
           SubmitBatchWithReference, Admit, StoreNext, Refuse, Refused, Enqueue, Age,
           TtlCleanup, CleanupExpired, RemoveDirectory
      <3> QED BY <2>2, <3>1
    <2> HIDE DEF Excused
    <2> QED BY <2>4, <2>5, <2>6 DEF UploadNext
  <1> QED BY <1>1, <1>2, PTL DEF UploadSpec
-----------------------------------------------------------------------------
(***************************************************************************)
(* The making of rubrics.                                                  *)
(***************************************************************************)
(* Who generates a rubric unasked has looked, and what they looked for has *)
(* come since, if at all.                                                  *)
MakersLooked ==
  \A m \in Makers :
    /\ maker[m].lookedAt <= Len(rubrics)
    /\ maker[m].pc \in {"generate", "save"} /\ ~maker[m].forced =>
         \A i \in 1..Len(rubrics) :
           rubrics[i].recent /\ rubrics[i].source = Fingerprint(maker[m].files) =>
             maker[m].lookedAt < i

(* The same of the rows they save.                                         *)
RowsLooked ==
  \A j \in 1..Len(rubrics) :
    /\ rubrics[j].source = Fingerprint(rubrics[j].files)
    /\ rubrics[j].lookedAt < j
    /\ \A i \in 1..Len(rubrics) :
         (i < j /\ rubrics[i].recent /\ ~rubrics[j].forced
           /\ rubrics[i].source = rubrics[j].source) => rubrics[j].lookedAt < i

RubricInv ==
  /\ RubricTypeOK
  /\ MakersLooked
  /\ RowsLooked

LEMMA RubricStarts == RubricInit => RubricInv
  <1> SUFFICES ASSUME RubricInit PROVE RubricInv
    OBVIOUS
  <1>1. rubrics = <<>> /\ Len(rubrics) = 0 /\ MaxRubrics \in Nat
    BY RubricAssumption DEF RubricInit, RubricAssumption
  <1>2. \A m \in Makers : maker[m] \in {[pc |-> "idle", files |-> r, forced |-> FALSE,
          rubric |-> NoRubric, lookedAt |-> 0] : r \in References}
    BY DEF RubricInit
  <1>3. RubricTypeOK
    <2>1. rubrics \in Seq(Rows)
      BY <1>1
    <2>2. \A m \in Makers : maker[m] \in
            [pc : {"idle", "look", "generate", "save", "use"}, files : References,
             forced : BOOLEAN, rubric : 0..Len(rubrics), lookedAt : 0..MaxRubrics]
      <3>1. 0 \in 0..Len(rubrics) /\ 0 \in 0..MaxRubrics
        BY <1>1
      <3> DEFINE L == 0..Len(rubrics)
                 M == 0..MaxRubrics
      <3> HIDE DEF L, M
      <3>2. \A m \in Makers : maker[m] \in
              [pc : {"idle", "look", "generate", "save", "use"}, files : References,
               forced : BOOLEAN, rubric : L, lookedAt : M]
        <4> TAKE m \in Makers
        <4>1. PICK r \in References : maker[m] =
                [pc |-> "idle", files |-> r, forced |-> FALSE, rubric |-> 0, lookedAt |-> 0]
          BY <1>2 DEF NoRubric
        <4>2. 0 \in L /\ 0 \in M
          BY <3>1 DEF L, M
        <4> QED BY <4>1, <4>2
      <3> QED BY <3>2 DEF L, M
    <2>3. \A b \in Batches : bound[b] = 0
      BY DEF RubricInit, NoRubric
    <2> QED BY <1>1, <2>1, <2>2, <2>3 DEF RubricInit, RubricTypeOK
  <1> QED BY <1>1, <1>2, <1>3 DEF RubricInv, MakersLooked, RowsLooked

LEMMA RubricSteps == RubricInv /\ [RubricNext]_rubricVars => RubricInv'
  <1> SUFFICES ASSUME RubricInv, [RubricNext]_rubricVars PROVE RubricInv'
    OBVIOUS
  <1>0. /\ RubricTypeOK /\ MakersLooked /\ RowsLooked /\ MaxRubrics \in Nat
        /\ rubrics \in Seq(Rows) /\ Len(rubrics) \in Nat /\ Len(rubrics) <= MaxRubrics
    BY RubricAssumption DEF RubricInv, RubricTypeOK, RubricAssumption
  <1> DEFINE R(n) == [pc : {"idle", "look", "generate", "save", "use"}, files : References,
                      forced : BOOLEAN, rubric : 0..n, lookedAt : 0..MaxRubrics]
             With(m, pc, anew, rubric, at) ==
               [maker[m] EXCEPT !.pc = pc, !.forced = anew, !.rubric = rubric, !.lookedAt = at]
             (* Nothing was there that self, had it asked, would have found. *)
             Fine(self) ==
               /\ self.lookedAt <= Len(rubrics)
               /\ self.pc \in {"generate", "save"} /\ ~self.forced =>
                    \A i \in 1..Len(rubrics) :
                      rubrics[i].recent /\ rubrics[i].source = Fingerprint(self.files) =>
                        self.lookedAt < i
  <1>1. /\ maker \in [Makers -> R(Len(rubrics))] /\ bound \in [Batches -> 0..Len(rubrics)]
        /\ \A q \in Makers : Fine(maker[q])
    BY <1>0 DEF RubricTypeOK, MakersLooked
  <1>2. ASSUME NEW m \in Makers, NEW self \in R(Len(rubrics)), Fine(self), UNCHANGED rubrics,
               maker' = [maker EXCEPT ![m] = self], bound' \in [Batches -> 0..Len(rubrics)]
        PROVE  RubricInv'
    <2>1. maker' \in [Makers -> R(Len(rubrics))] /\ \A q \in Makers : Fine(maker'[q])
      <3> HIDE DEF R, Fine
      <3> QED BY <1>1, <1>2
    <2>2. RubricTypeOK'
      BY <1>0, <1>2, <2>1 DEF RubricTypeOK
    <2>3. MakersLooked'
      BY <1>2, <2>1 DEF MakersLooked, Fingerprint
    <2>4. RowsLooked'
      <3>1. RowsLooked /\ rubrics' = rubrics
        BY <1>0, <1>2
      <3> QED BY ONLY <3>1 DEF RowsLooked
    <2> QED BY <2>2, <2>3, <2>4 DEF RubricInv
  <1>3. ASSUME NEW m \in Makers, NEW pc \in {"idle", "look", "generate", "save", "use"},
               NEW anew \in BOOLEAN, NEW rubric \in 0..Len(rubrics), NEW at \in 0..Len(rubrics)
        PROVE  /\ With(m, pc, anew, rubric, at) \in R(Len(rubrics))
               /\ With(m, pc, anew, rubric, at).files = maker[m].files
               /\ With(m, pc, anew, rubric, at).pc = pc
               /\ With(m, pc, anew, rubric, at).forced = anew
               /\ With(m, pc, anew, rubric, at).lookedAt = at
               /\ With(m, pc, anew, rubric, at).rubric = rubric
    <2> DEFINE L == 0..Len(rubrics)
               M == 0..MaxRubrics
    <2>1. at \in M /\ rubric \in L
      BY <1>0, <1>3
    <2>2. maker[m] \in [pc : {"idle", "look", "generate", "save", "use"}, files : References,
                        forced : BOOLEAN, rubric : L, lookedAt : M]
      BY <1>1
    <2> HIDE DEF L, M
    <2>3. [maker[m] EXCEPT !.pc = pc, !.forced = anew, !.rubric = rubric, !.lookedAt = at]
            \in [pc : {"idle", "look", "generate", "save", "use"}, files : References,
                 forced : BOOLEAN, rubric : L, lookedAt : M]
      BY <1>3, <2>1, <2>2
    <2>4. maker[m] \in R(Len(rubrics))
      BY <1>1
    <2> QED BY <2>2, <2>3 DEF L, M
  <1>4. ASSUME NEW m \in Makers
        PROVE  /\ maker[m].pc \in {"idle", "look", "generate", "save", "use"}
               /\ maker[m].forced \in BOOLEAN /\ maker[m].rubric \in 0..Len(rubrics)
               /\ maker[m].lookedAt \in 0..Len(rubrics)
               /\ maker[m].files \in References
               /\ 0 \in 0..Len(rubrics) /\ Len(rubrics) \in 0..Len(rubrics)
    <2>1. maker[m] \in R(Len(rubrics)) /\ Fine(maker[m])
      BY <1>1
    <2> QED BY <1>0, <2>1
  <1>5. ASSUME NEW m \in Makers, Leave(m), UNCHANGED rubrics,
               bound' \in [Batches -> 0..Len(rubrics)]
        PROVE  RubricInv'
    <2>0. PICK no \in BOOLEAN : no = FALSE
      OBVIOUS
    <2> DEFINE self == With(m, "idle", no, 0, 0)
    <2>1. self \in R(Len(rubrics)) /\ self.pc = "idle" /\ self.lookedAt = 0
      <3> HIDE DEF With, R
      <3> QED BY <1>3, <1>4
    <2>2. Fine(self)
      BY <1>0, <2>1
    <2>3. maker' = [maker EXCEPT ![m] = self]
      BY <1>1, <1>5, <2>0 DEF Leave, NoRubric
    <2> HIDE DEF self, R, Fine, With
    <2> QED BY <1>2, <1>5, <2>1, <2>2, <2>3
  <1>6. CASE \E m \in Makers, anew \in BOOLEAN : Ask(m, anew)
    <2> PICK m \in Makers, anew \in BOOLEAN : Ask(m, anew)
      BY <1>6
    <2> DEFINE pc == IF anew THEN "generate" ELSE "look"
               self == With(m, pc, anew, maker[m].rubric, Len(rubrics))
    <2>1. /\ self \in R(Len(rubrics)) /\ self.pc = pc /\ self.lookedAt = Len(rubrics)
          /\ self.forced = anew
      <3> HIDE DEF With, R
      <3> QED BY <1>3, <1>4
    <2>2. Fine(self)
      BY <1>0, <2>1
    <2>3. maker' = [maker EXCEPT ![m] = self]
      BY <1>1 DEF Ask
    <2>4. UNCHANGED <<rubrics, bound>>
      BY DEF Ask
    <2> HIDE DEF self, R, Fine, With
    <2> QED BY <1>1, <1>2, <2>1, <2>2, <2>3, <2>4
  <1>7. ASSUME NEW m \in Makers, Look(m) PROVE RubricInv'
    <2> DEFINE hits == Matches(maker[m].files)
               Passed(pc, rubric, at) == With(m, pc, maker[m].forced, rubric, at)
    <2>0. UNCHANGED <<rubrics, bound>>
      BY <1>7 DEF Look
    <2>1. CASE /\ hits = {}
               /\ maker' = [maker EXCEPT ![m].pc = "generate", ![m].lookedAt = Len(rubrics)]
      <3> DEFINE self == Passed("generate", maker[m].rubric, Len(rubrics))
      <3>1. /\ self \in R(Len(rubrics)) /\ self.files = maker[m].files
            /\ self.lookedAt = Len(rubrics)
        <4> HIDE DEF With, R
        <4> QED BY <1>3, <1>4
      <3>2. Fine(self)
        <4>1. \A i \in 1..Len(rubrics) :
                ~(rubrics[i].recent /\ rubrics[i].source = Fingerprint(maker[m].files))
          BY <1>0, <2>1 DEF Matches
        <4> HIDE DEF self
        <4> QED BY <1>0, <3>1, <4>1
      <3>3. maker' = [maker EXCEPT ![m] = self]
        BY <1>1, <2>1
      <3> HIDE DEF self, R, Fine, With
      <3> QED BY <1>1, <1>2, <2>0, <3>1, <3>2, <3>3
    <2>2. ASSUME NEW i \in hits, maker' = [maker EXCEPT ![m].pc = "use", ![m].rubric = i]
          PROVE  RubricInv'
      <3> DEFINE self == Passed("use", i, maker[m].lookedAt)
      <3>1. /\ self \in R(Len(rubrics)) /\ self.pc = "use"
            /\ self.lookedAt = maker[m].lookedAt
        <4>1. i \in 0..Len(rubrics)
          BY <1>0 DEF Matches
        <4> HIDE DEF With, R
        <4> QED BY <1>3, <1>4, <4>1
      <3>2. Fine(self)
        BY <1>4, <3>1
      <3>3. maker' = [maker EXCEPT ![m] = self]
        BY <1>1, <2>2
      <3> HIDE DEF self, R, Fine, With
      <3> QED BY <1>1, <1>2, <2>0, <3>1, <3>2, <3>3
    <2> QED BY <1>7, <2>1, <2>2 DEF Look
  <1>8. ASSUME NEW m \in Makers, Generate(m) PROVE RubricInv'
    <2> DEFINE self == With(m, "save", maker[m].forced, maker[m].rubric, maker[m].lookedAt)
    <2>1. /\ self \in R(Len(rubrics)) /\ self.files = maker[m].files
          /\ self.forced = maker[m].forced /\ self.lookedAt = maker[m].lookedAt
      <3> HIDE DEF With, R
      <3> QED BY <1>3, <1>4
    <2>2. Fine(self)
      <3>1. Fine(maker[m]) /\ maker[m].pc = "generate"
        BY <1>1, <1>8 DEF Generate
      <3> HIDE DEF self
      <3> QED BY <2>1, <3>1
    <2>3. maker' = [maker EXCEPT ![m] = self] /\ UNCHANGED <<rubrics, bound>>
      BY <1>1, <1>8 DEF Generate
    <2> HIDE DEF self, R, Fine, With
    <2> QED BY <1>1, <1>2, <2>1, <2>2, <2>3
  <1>9. ASSUME NEW b \in Batches, Bind(b) PROVE RubricInv'
    <2>1. b \in Makers /\ Leave(b) /\ UNCHANGED rubrics
      BY <1>9 DEF Bind, Makers
    <2>2. bound' \in [Batches -> 0..Len(rubrics)]
      BY <1>1, <1>4, <1>9, <2>1 DEF Bind
    <2> QED BY <1>5, <2>1, <2>2
  <1>10. CASE (\E m \in Makers : Fail(m)) \/ (\E t \in Teachers : Respond(t))
    BY <1>1, <1>5, <1>10 DEF Fail, Respond, Makers
  <1>11. ASSUME NEW m \in Makers, Save(m) PROVE RubricInv'
    <2> DEFINE n == Len(rubrics)
               row == [source |-> Fingerprint(maker[m].files), files |-> maker[m].files,
                       recent |-> TRUE, by |-> m, forced |-> maker[m].forced,
                       lookedAt |-> maker[m].lookedAt]
    <2>1. /\ rubrics' = Append(rubrics, row) /\ n + 1 <= MaxRubrics /\ bound' = bound
          /\ maker' = [maker EXCEPT ![m].pc = "use", ![m].rubric = n + 1]
          /\ maker[m].pc = "save"
      BY <1>0, <1>11 DEF Save
    <2>2. row \in Rows
      <3>1. /\ Fingerprint(maker[m].files) \in {Fingerprint(r) : r \in References}
            /\ maker[m].lookedAt \in 0..MaxRubrics
        BY <1>0, <1>4
      <3> HIDE DEF Fingerprint
      <3> QED BY <1>4, <3>1 DEF Rows
    <2>3. /\ rubrics' \in Seq(Rows) /\ Len(rubrics') = n + 1 /\ rubrics'[n + 1] = row
          /\ \A i \in 1..n : rubrics'[i] = rubrics[i]
      <3> HIDE DEF row
      <3> QED BY <1>0, <2>1, <2>2
    <2>4. RubricTypeOK'
      <3>1. bound' \in [Batches -> 0..n + 1]
        BY <1>0, <1>1, <2>1
      <3>2. maker' \in [Makers -> R(n + 1)]
        <4>1. \A q \in Makers : maker[q] \in R(n + 1)
          BY <1>0, <1>1
        <4>2. [maker[m] EXCEPT !.pc = "use", !.rubric = n + 1] \in R(n + 1)
          <5> DEFINE L == 0..n + 1
                     l == n + 1
          <5>1. l \in L
            BY <1>0
          <5>2. maker[m] \in [pc : {"idle", "look", "generate", "save", "use"}, files : References,
                              forced : BOOLEAN, rubric : L, lookedAt : 0..MaxRubrics]
            BY <4>1
          <5> HIDE DEF L, l
          <5>3. [maker[m] EXCEPT !.pc = "use", !.rubric = l] \in
                  [pc : {"idle", "look", "generate", "save", "use"}, files : References,
                   forced : BOOLEAN, rubric : L, lookedAt : 0..MaxRubrics]
            BY <5>1, <5>2
          <5> QED BY <5>3 DEF L, l
        <4>3. maker' = [maker EXCEPT ![m] = [maker[m] EXCEPT !.pc = "use", !.rubric = n + 1]]
          BY <1>1, <2>1
        <4>4. maker \in [Makers -> R(n)]
          BY <1>1
        <4> HIDE DEF R
        <4> QED BY <4>1, <4>2, <4>3, <4>4
      <3> QED BY <2>1, <2>3, <3>1, <3>2 DEF RubricTypeOK
    <2>5. MakersLooked'
      <3>1. /\ maker'[m].pc = "use" /\ maker'[m].lookedAt = maker[m].lookedAt
            /\ \A q \in Makers : q # m => maker'[q] = maker[q]
        BY <1>1, <2>1
      <3>2. ASSUME NEW q \in Makers
            PROVE  /\ maker'[q].lookedAt <= n + 1
                   /\ maker'[q].pc \in {"generate", "save"} /\ ~maker'[q].forced =>
                        \A i \in 1..n + 1 :
                          rubrics'[i].recent /\ rubrics'[i].source = Fingerprint(maker'[q].files)
                            => maker'[q].lookedAt < i
        <4>1. maker[q].lookedAt <= n /\ maker[q].lookedAt \in Nat
          BY <1>0, <1>4
        <4>2. CASE q = m
          BY <1>0, <3>1, <4>1, <4>2
        <4>3. CASE q # m
          <5>1. maker'[q] = maker[q] /\ Fine(maker[q])
            BY <1>1, <3>1, <4>3
          <5>2. ASSUME maker[q].pc \in {"generate", "save"}, ~maker[q].forced, NEW i \in 1..n + 1,
                       rubrics'[i].recent, rubrics'[i].source = Fingerprint(maker[q].files)
                PROVE  maker[q].lookedAt < i
            <6>1. CASE i = n + 1
              BY <1>0, <4>1, <6>1
            <6>2. CASE i # n + 1
              <7>1. i \in 1..n
                BY <1>0, <6>2
              <7> HIDE DEF Fingerprint
              <7> QED BY <2>3, <5>1, <5>2, <7>1
            <6> QED BY <6>1, <6>2
          <5> HIDE DEF Fingerprint
          <5> QED BY <1>0, <4>1, <5>1, <5>2
        <4> QED BY <4>2, <4>3
      <3> QED BY <2>3, <3>2 DEF MakersLooked, Fingerprint
    <2>6. RowsLooked'
      <3>1. Fine(maker[m]) /\ maker[m].lookedAt \in Nat
        BY <1>1, <1>4
      <3>2. ASSUME NEW j \in 1..n + 1
            PROVE  /\ rubrics'[j].source = Fingerprint(rubrics'[j].files)
                   /\ rubrics'[j].lookedAt < j
                   /\ \A i \in 1..n + 1 :
                        (i < j /\ rubrics'[i].recent /\ ~rubrics'[j].forced
                          /\ rubrics'[i].source = rubrics'[j].source) => rubrics'[j].lookedAt < i
        <4> HIDE DEF Fingerprint
        <4>1. CASE j = n + 1
          <5>1. /\ rubrics'[j].source = Fingerprint(maker[m].files)
                /\ rubrics'[j].files = maker[m].files /\ rubrics'[j].forced = maker[m].forced
                /\ rubrics'[j].lookedAt = maker[m].lookedAt
            BY <2>3, <4>1
          <5>2. \A i \in 1..n + 1 : i < j => i \in 1..n /\ rubrics'[i] = rubrics[i]
            BY <1>0, <2>3, <4>1
          <5> HIDE DEF row
          <5> QED BY <1>0, <2>1, <3>1, <4>1, <5>1, <5>2
        <4>2. CASE j # n + 1
          <5>1. j \in 1..n /\ rubrics'[j] = rubrics[j]
            BY <1>0, <2>3, <4>2
          <5>2. \A i \in 1..n + 1 : i < j => i \in 1..n /\ rubrics'[i] = rubrics[i]
            BY <1>0, <2>3, <5>1
          <5> QED BY <1>0, <5>1, <5>2 DEF RowsLooked
        <4> QED BY <4>1, <4>2
      <3> QED BY <2>3, <3>2 DEF RowsLooked, Fingerprint
    <2> QED BY <2>4, <2>5, <2>6 DEF RubricInv
  <1>12. CASE Expire
    <2>1. PICK k \in 1..Len(rubrics) :
            rubrics' = [rubrics EXCEPT ![k].recent = FALSE] /\ UNCHANGED <<maker, bound>>
      <3>1. DOMAIN rubrics = 1..Len(rubrics)
        BY <1>0
      <3> QED BY <1>12, <3>1 DEF Expire
    <2>2. [rubrics[k] EXCEPT !.recent = FALSE] \in Rows
      <3>1. rubrics[k] \in Rows
        BY <1>0
      <3> HIDE DEF Fingerprint
      <3> QED BY <3>1 DEF Rows
    <2>3. /\ rubrics' \in Seq(Rows) /\ Len(rubrics') = Len(rubrics)
          /\ \A i \in 1..Len(rubrics) :
               /\ rubrics'[i].recent => rubrics[i].recent
               /\ rubrics'[i].source = rubrics[i].source
               /\ rubrics'[i].files = rubrics[i].files
               /\ rubrics'[i].forced = rubrics[i].forced
               /\ rubrics'[i].lookedAt = rubrics[i].lookedAt
      <3>1. rubrics' = [rubrics EXCEPT ![k] = [rubrics[k] EXCEPT !.recent = FALSE]]
        BY <1>0, <2>1
      <3>2. /\ rubrics' \in Seq(Rows) /\ Len(rubrics') = Len(rubrics)
            /\ rubrics'[k] = [rubrics[k] EXCEPT !.recent = FALSE]
            /\ \A i \in 1..Len(rubrics) : i # k => rubrics'[i] = rubrics[i]
        <4> DEFINE row == [rubrics[k] EXCEPT !.recent = FALSE]
        <4>1. row \in Rows /\ rubrics' = [rubrics EXCEPT ![k] = row]
          BY <2>2, <3>1
        <4> HIDE DEF row
        <4>2. rubrics' \in Seq(Rows) /\ Len(rubrics') = Len(rubrics) /\ rubrics'[k] = row
              /\ \A i \in 1..Len(rubrics) : i # k => rubrics'[i] = rubrics[i]
          BY <1>0, <4>1
        <4> QED BY <4>2 DEF row
      <3>3. rubrics[k] \in Rows
        BY <1>0
      <3>4. /\ ~rubrics'[k].recent /\ rubrics'[k].source = rubrics[k].source
            /\ rubrics'[k].files = rubrics[k].files /\ rubrics'[k].forced = rubrics[k].forced
            /\ rubrics'[k].lookedAt = rubrics[k].lookedAt
        <4> HIDE DEF Fingerprint
        <4> QED BY <3>2, <3>3 DEF Rows
      <3> QED BY <3>2, <3>4
    <2>4. RubricTypeOK'
      BY <1>0, <2>1, <2>3 DEF RubricTypeOK
    <2>5. MakersLooked'
      BY <1>0, <2>1, <2>3 DEF MakersLooked, Fingerprint
    <2>6. RowsLooked'
      BY <1>0, <2>1, <2>3 DEF RowsLooked, Fingerprint
    <2> QED BY <2>4, <2>5, <2>6 DEF RubricInv
  <1>13. CASE UNCHANGED rubricVars
    <2>1. UNCHANGED <<rubrics, maker, bound>>
      BY <1>13 DEF rubricVars
    <2>2. RubricTypeOK'
      BY <1>0, <2>1 DEF RubricTypeOK
    <2>3. MakersLooked' /\ RowsLooked'
      BY <1>0, <2>1 DEF MakersLooked, RowsLooked, Fingerprint
    <2> QED BY <2>2, <2>3 DEF RubricInv
  <1> QED BY <1>6, <1>7, <1>8, <1>9, <1>10, <1>11, <1>12, <1>13 DEF RubricNext

LEMMA RubricKeeps == RubricSpec => []RubricInv
  BY RubricStarts, RubricSteps, PTL DEF RubricSpec

(* The table, the requests and the bindings stay within their types: a     *)
(* batch is bound to a rubric that exists.                                 *)
THEOREM RubricsAreTyped == RubricSpec => []RubricTypeOK
  <1>1. RubricInv => RubricTypeOK
    BY DEF RubricInv
  <1> QED BY <1>1, RubricKeeps, PTL

(* However many requests and attempts ask for a rubric of the same files   *)
(* without a lock, and whatever fails or expires meanwhile: a second       *)
(* recent rubric that nobody forced comes only of a look taken before the  *)
(* first was saved.                                                        *)
THEOREM DuplicatesOnlyOverlap == RubricSpec => []DuplicatesOverlap
  <1>1. RubricInv => DuplicatesOverlap
    <2> SUFFICES ASSUME RubricInv, NEW i \in DOMAIN rubrics, NEW j \in DOMAIN rubrics, i < j,
                        rubrics[i].recent, ~rubrics[j].forced, SameFiles(i, j)
                 PROVE  rubrics[j].lookedAt < i
      BY DEF DuplicatesOverlap
    <2>1. rubrics \in Seq(Rows) /\ i \in 1..Len(rubrics) /\ j \in 1..Len(rubrics)
      BY DEF RubricInv, RubricTypeOK
    <2>2. Fingerprint(rubrics[i].files) = Fingerprint(rubrics[j].files)
      BY DEF SameFiles, Fingerprint
    <2>3. rubrics[i].source = rubrics[j].source
      <3> HIDE DEF Fingerprint
      <3> QED BY <2>1, <2>2 DEF RubricInv, RowsLooked
    <2> QED BY <2>1, <2>3 DEF RubricInv, RowsLooked
  <1> QED BY <1>1, RubricKeeps, PTL

-----------------------------------------------------------------------------
(***************************************************************************)
(* The review desk.                                                        *)
(***************************************************************************)
(* One attempt at most settles a task; nothing but a failure comes after,  *)
(* and only settling gives the task a grading status or cuts it short.     *)
SettledOnce ==
  /\ settledBy # 0 => task.status \in {"COMPLETED", "FAILED"}
  /\ task.status = "COMPLETED" => settledBy # 0
  /\ task.grading # "NONE" => settledBy # 0
  /\ task.short => settledBy # 0
  /\ checked => task.grading = "SCORED"
  /\ settledBy <= attempt.n
  /\ attempt.pc # "over" => settledBy < attempt.n

NeedsPerson(short) == short \/ \E i \in 1..Len(results) : results[i].verdict # "scored"

(* The pool, in the table and on the page that is being read.              *)
PoolIsFounded ==
  /\ task.review = "PENDING_REVIEW" /\ ~marked => NeedsPerson(task.short)
  /\ task.review = "NOT_REQUIRED" =>
       /\ ~task.short
       /\ \A i \in 1..Len(results) :
            results[i].by = settledBy => results[i].verdict = "scored"
  /\ page.pc \in {"pool", "counts"} /\ ~marked => NeedsPerson(page.short)
  /\ page.pc = "queue" /\ ~marked => page.targets > 0

DeskInv ==
  /\ ReviewTypeOK
  /\ SettledOnce
  /\ PoolIsFounded

TaskRecords == [status : Statuses \ {"CANCELLED"},
              grading : {"NONE", "SCORED", "REJECTED_UNREADABLE"},
              review : {"NOT_REQUIRED", "PENDING_REVIEW", "REVIEWED"}, short : BOOLEAN]
ResultRecords == [sample : Samples, verdict : Verdicts, by : 1..MaxAttempts]
AttemptRecords == [pc : {"over", "grading", "rejecting"}, n : 0..MaxAttempts,
                 inserted : SUBSET Students]
PageRecords(targets) ==
  [pc : {"closed", "pool", "counts", "queue"}, short : BOOLEAN, targets : targets]

LEMMA DeskStarts == DeskInit => DeskInv
  <1> SUFFICES ASSUME DeskInit PROVE DeskInv
    OBVIOUS
  <1>1. /\ task = [status |-> "PENDING", grading |-> "NONE", review |-> "NOT_REQUIRED",
                   short |-> FALSE]
        /\ results = <<>> /\ attempt = [pc |-> "over", n |-> 0, inserted |-> {}]
        /\ decisions = {} /\ checked = FALSE /\ settledBy = 0 /\ marked = FALSE
        /\ page = [pc |-> "closed", short |-> FALSE, targets |-> 0]
        /\ MaxAttempts \in Nat /\ roster \in Rosters
    BY DeskAssumption DEF DeskInit, NoPage, DeskAssumption
  <1>2. Len(results) = 0
    BY <1>1
  <1>3. ReviewTypeOK
    <2>1. results \in Seq(ResultRecords)
      BY <1>1
    <2>2. task \in TaskRecords /\ attempt \in AttemptRecords
      BY <1>1 DEF TaskRecords, AttemptRecords, Statuses
    <2>3. page \in PageRecords(0..Len(results) + 1)
      <3> DEFINE M == 0..Len(results) + 1
      <3>1. 0 \in M
        BY <1>2
      <3> HIDE DEF M
      <3>2. page \in PageRecords(M)
        BY <1>1, <3>1 DEF PageRecords
      <3> QED BY <3>2 DEF M
    <2> QED BY <1>1, <1>2, <2>1, <2>2, <2>3 DEF ReviewTypeOK, ResultRecords, TaskRecords,
      AttemptRecords, PageRecords
  <1> QED BY <1>1, <1>2, <1>3 DEF DeskInv, SettledOnce, PoolIsFounded

(* What the weights let through: a settled task is only failed, and a      *)
(* failed one is never settled.                                            *)
LEMMA WhatOutranks ==
  ASSUME NEW was \in Statuses \ {"CANCELLED"}
  PROVE  /\ Outranks("PROCESSING", was) <=> was = "PENDING"
         /\ Outranks("COMPLETED", was) <=> was \in {"PENDING", "PROCESSING"}
         /\ Outranks("FAILED", was) <=> was # "FAILED"
  BY DEF Outranks, Weight, Statuses

(* What the queue counts: no more than there is, and something if a person *)
(* is needed.                                                              *)
LEMMA TargetsCount ==
  ASSUME results \in Seq(ResultRecords), NEW short \in BOOLEAN
  PROVE  /\ ReviewTargets(short) \in 0..Len(results) + 1
         /\ NeedsPerson(short) => ReviewTargets(short) > 0
  <1> DEFINE n == Len(results)
             S == {i \in DOMAIN results : Rank(results[i].verdict, short) < 5}
  <1>1. n \in Nat /\ DOMAIN results = 1..n
    OBVIOUS
  <1>2. \A i \in 1..n : results[i].verdict \in Verdicts
    <2>1. \A i \in 1..n : results[i] \in ResultRecords
      OBVIOUS
    <2> QED BY <2>1 DEF ResultRecords
  <1>3. \A i \in 1..n : i \in S <=> (short \/ results[i].verdict # "scored")
    BY <1>1, <1>2 DEF Rank, Verdicts
  <1>4. S \subseteq 1..n
    BY <1>1
  <1>5. IsFiniteSet(1..n) /\ Cardinality(1..n) = n
    <2>1. IsFiniteSet(1..n) /\ Cardinality(1..n) = IF 1 > n THEN 0 ELSE n - 1 + 1
      BY <1>1, FS_Interval
    <2> QED BY <1>1, <2>1
  <1> HIDE DEF n, S
  <1>6. IsFiniteSet(S) /\ Cardinality(S) \in Nat /\ Cardinality(S) <= n
    BY <1>4, <1>5, FS_Subset, FS_CardinalityType
  <1>7. S # {} => Cardinality(S) # 0
    BY <1>6, FS_EmptySet
  <1>8. CASE results = <<>>
    <2>1. ReviewTargets(short) = 1
      BY <1>8 DEF ReviewTargets
    <2> QED BY <1>1, <2>1 DEF n
  <1>9. CASE results # <<>>
    <2>1. ReviewTargets(short) = Cardinality(S)
      BY <1>9 DEF ReviewTargets, S
    <2>2. n > 0
      BY <1>9, <1>1 DEF n
    <2>3. NeedsPerson(short) => S # {}
      <3>1. 1 \in 1..n
        BY <1>1, <2>2
      <3> QED BY <1>3, <3>1 DEF NeedsPerson, n
    <2>4. Cardinality(S) \in 0..n + 1
      BY <1>1, <1>6
    <2> QED BY <1>6, <1>7, <2>1, <2>3, <2>4 DEF n
  <1> QED BY <1>8, <1>9

LEMMA DeskSteps == DeskInv /\ [DeskNext]_deskVars => DeskInv'
  <1> SUFFICES ASSUME DeskInv, [DeskNext]_deskVars PROVE DeskInv'
    OBVIOUS
  <1> DEFINE n == Len(results)
  <1>0. /\ roster \in Rosters /\ task \in TaskRecords /\ results \in Seq(ResultRecords)
        /\ attempt \in AttemptRecords /\ decisions \subseteq Samples
        /\ page \in PageRecords(0..n + 1)
        /\ checked \in BOOLEAN /\ settledBy \in 0..MaxAttempts /\ marked \in BOOLEAN
        /\ n \in Nat /\ MaxAttempts \in Nat
        /\ SettledOnce /\ PoolIsFounded
    BY DeskAssumption DEF DeskInv, ReviewTypeOK, TaskRecords, ResultRecords, AttemptRecords,
      PageRecords, DeskAssumption
  <1>1. /\ task.status \in Statuses \ {"CANCELLED"}
        /\ task.grading \in {"NONE", "SCORED", "REJECTED_UNREADABLE"}
        /\ task.review \in {"NOT_REQUIRED", "PENDING_REVIEW", "REVIEWED"}
        /\ task.short \in BOOLEAN
        /\ attempt.pc \in {"over", "grading", "rejecting"} /\ attempt.n \in 0..MaxAttempts
        /\ attempt.inserted \subseteq Students
        /\ \A i \in 1..n : results[i] \in ResultRecords
    BY <1>0 DEF TaskRecords, AttemptRecords, PageRecords
  <1>2. ASSUME task' \in TaskRecords, results' \in Seq(ResultRecords), roster' = roster,
               attempt' \in AttemptRecords, decisions' \subseteq Samples,
               page' \in PageRecords(0..Len(results') + 1),
               checked' \in BOOLEAN, settledBy' \in 0..MaxAttempts, marked' \in BOOLEAN
        PROVE  ReviewTypeOK'
    BY <1>0, <1>2 DEF ReviewTypeOK, TaskRecords, ResultRecords, AttemptRecords, PageRecords
  (* The attempt begins or fails: the status alone, and it never completes. *)
  <1>3. ASSUME NEW s \in {"PROCESSING", "FAILED"},
               task' = RecordStatus([task EXCEPT !.status = s], task),
               attempt' \in AttemptRecords,
               \/ attempt'.pc = "over" /\ attempt'.n = attempt.n
               \/ attempt'.n = attempt.n + 1,
               UNCHANGED <<roster, results, decisions, page, checked, settledBy, marked>>
        PROVE  DeskInv'
    <2>1. /\ task' \in TaskRecords
          /\ task'.grading = task.grading /\ task'.review = task.review
          /\ task'.short = task.short
          /\ \/ task'.status = task.status
             \/ task'.status = s /\ Outranks(s, task.status)
      <3> DEFINE new == [task EXCEPT !.status = s]
      <3>1. /\ new \in TaskRecords /\ new.status = s /\ new.grading = task.grading
            /\ new.review = task.review /\ new.short = task.short
        BY <1>0, <1>3 DEF TaskRecords, Statuses
      <3>2. task' = RecordStatus(new, task)
        BY <1>3
      <3> HIDE DEF new
      <3>3. \/ task' = new /\ Outranks(s, task.status)
            \/ task' = task
        BY <3>1, <3>2 DEF RecordStatus
      <3> QED BY <1>0, <3>1, <3>3
    <2>2. SettledOnce'
      <3>1. settledBy # 0 => task'.status \in {"COMPLETED", "FAILED"}
        BY <1>0, <1>1, <1>3, <2>1, WhatOutranks DEF SettledOnce
      <3>2. task'.status = "COMPLETED" => settledBy # 0
        BY <1>0, <1>3, <2>1 DEF SettledOnce
      <3>3. attempt'.n \in Nat /\ settledBy <= attempt'.n
        BY <1>0, <1>1, <1>3 DEF SettledOnce, AttemptRecords
      <3>4. attempt'.pc # "over" => settledBy < attempt'.n
        BY <1>0, <1>1, <1>3 DEF SettledOnce
      <3> QED BY <1>0, <1>3, <2>1, <3>1, <3>2, <3>3, <3>4 DEF SettledOnce
    <2>3. PoolIsFounded'
      BY <1>0, <1>3, <2>1 DEF PoolIsFounded, NeedsPerson
    <2>4. ReviewTypeOK'
      BY <1>0, <1>2, <1>3, <2>1
    <2> QED BY <1>0, <1>3, <2>2, <2>3, <2>4 DEF DeskInv
  <1>4. CASE BeginAttempt
    <2>1. attempt' \in AttemptRecords /\ attempt'.n = attempt.n + 1
      BY <1>0, <1>1, <1>4 DEF BeginAttempt, AttemptRecords
    <2> QED BY <1>3, <1>4, <2>1 DEF BeginAttempt
  <1>5. CASE AttemptFails
    <2>1. attempt' \in AttemptRecords /\ attempt'.n = attempt.n /\ attempt'.pc = "over"
      BY <1>0, <1>1, <1>5 DEF AttemptFails, AttemptRecords
    <2> QED BY <1>3, <1>5, <2>1 DEF AttemptFails
  <1>6. ASSUME NEW row \in ResultRecords, row.by = attempt.n, attempt.pc # "over",
               results' \in {results, Append(results, row)}
        PROVE  /\ results' \in Seq(ResultRecords) /\ Len(results') \in Nat /\ n <= Len(results')
               /\ \A i \in 1..n : results'[i] = results[i]
               /\ \A i \in 1..Len(results') : i \in 1..n \/ results'[i] = row
    BY <1>0, <1>6
  (* A row is stored, or is not.                                           *)
  <1>7. ASSUME NEW row \in ResultRecords, row.by = attempt.n, attempt.pc # "over",
               results' \in {results, Append(results, row)},
               attempt' \in AttemptRecords, attempt'.n = attempt.n,
               UNCHANGED <<roster, task, decisions, page, checked, settledBy, marked>>
        PROVE  DeskInv'
    <2>1. /\ results' \in Seq(ResultRecords) /\ Len(results') \in Nat /\ n <= Len(results')
          /\ \A i \in 1..n : results'[i] = results[i]
          /\ \A i \in 1..Len(results') : i \in 1..n \/ results'[i] = row
      BY <1>6, <1>7
    <2>2. \A short : NeedsPerson(short) => NeedsPerson(short)'
      <3>1. 1..n \subseteq 1..Len(results')
        BY <1>0, <2>1
      <3> QED BY <2>1, <3>1 DEF NeedsPerson
    <2>3. PoolIsFounded'
      <3>1. \A i \in 1..Len(results') : results'[i].by = settledBy => i \in 1..n
        BY <1>0, <1>7, <2>1 DEF SettledOnce
      <3>2. task.review = "NOT_REQUIRED" =>
              \A i \in 1..Len(results') :
                results'[i].by = settledBy => results'[i].verdict = "scored"
        BY <1>0, <2>1, <3>1 DEF PoolIsFounded
      <3> QED BY <1>0, <1>7, <2>2, <3>2 DEF PoolIsFounded
    <2>4. SettledOnce'
      <3>1. attempt'.n = attempt.n /\ settledBy < attempt.n
        BY <1>0, <1>7 DEF SettledOnce
      <3> QED BY <1>0, <1>7, <3>1 DEF SettledOnce
    <2>5. page' \in PageRecords(0..Len(results') + 1)
      <3>1. 0..n + 1 \subseteq 0..Len(results') + 1
        BY <1>0, <2>1
      <3> HIDE DEF n
      <3> QED BY <1>0, <1>7, <3>1 DEF PageRecords
    <2>6. ReviewTypeOK'
      BY <1>0, <1>2, <1>7, <2>1, <2>5
    <2> QED BY <1>0, <1>7, <2>3, <2>4, <2>6 DEF DeskInv
  <1>8. ASSUME NEW s \in Students, NEW v \in Outcomes, InsertResult(s, v) PROVE DeskInv'
    <2>1. /\ attempt' \in AttemptRecords /\ attempt'.n = attempt.n /\ attempt.pc # "over"
          /\ results' = Append(results, Row(s, v))
      BY <1>0, <1>1, <1>8 DEF InsertResult, AttemptRecords
    <2>2. Row(s, v) \in ResultRecords /\ Row(s, v).by = attempt.n
      <3>1. attempt.n \in 1..MaxAttempts
        BY <1>0, <1>1, <2>1 DEF SettledOnce
      <3> QED BY <1>8, <3>1, DeskAssumption DEF Row, ResultRecords, Samples, DeskAssumption
    <2>3. UNCHANGED <<roster, task, decisions, page, checked, settledBy, marked>>
      BY <1>8 DEF InsertResult
    <2> HIDE DEF n
    <2> QED BY <1>7, <2>1, <2>2, <2>3
  <1>9. CASE ShortCircuited
    <2>1. /\ attempt' \in AttemptRecords /\ attempt'.n = attempt.n /\ attempt.pc # "over"
          /\ UNCHANGED <<roster, task, decisions, page, checked, settledBy, marked>>
      BY <1>0, <1>1, <1>9 DEF ShortCircuited, AttemptRecords
    <2>2. PICK s \in Samples : results' \in {results, Append(results, Row(s, "rejected"))}
      <3>1. roster \cup {TaskId} \subseteq Samples
        BY <1>0, DeskAssumption DEF Samples, DeskAssumption
      <3> QED BY <1>9, <3>1 DEF ShortCircuited
    <2>3. Row(s, "rejected") \in ResultRecords /\ Row(s, "rejected").by = attempt.n
      <3>1. attempt.n \in 1..MaxAttempts
        BY <1>0, <1>1, <2>1 DEF SettledOnce
      <3> QED BY <3>1 DEF Row, ResultRecords, Verdicts
    <2> HIDE DEF n
    <2> QED BY <1>7, <2>1, <2>2, <2>3
  (* The task is settled, unless it has a final status already.            *)
  <1>10. ASSUME NEW new \in TaskRecords, SettleTask(new), new.status = "COMPLETED",
                attempt.pc # "over",
                new.review = "PENDING_REVIEW" => NeedsPerson(new.short),
                new.review = "NOT_REQUIRED" =>
                  /\ settledBy = 0 => ~new.short
                  /\ \A i \in 1..n :
                       results[i].by = attempt.n => results[i].verdict = "scored"
         PROVE  DeskInv'
    <2>1. /\ UNCHANGED <<roster, results, decisions, page, checked, marked>>
          /\ attempt' \in AttemptRecords /\ attempt'.n = attempt.n /\ attempt'.pc = "over"
      BY <1>0, <1>1, <1>10 DEF SettleTask, AttemptRecords
    <2>2. CASE Outranks("COMPLETED", task.status)
      <3>1. task' = new /\ settledBy' = attempt.n
        BY <1>10, <2>2 DEF SettleTask, RecordStatus
      <3>2. task.status \in {"PENDING", "PROCESSING"} /\ settledBy = 0 /\ ~checked
        BY <1>0, <1>1, <2>2, WhatOutranks DEF SettledOnce
      <3>3. attempt.n # 0 /\ attempt.n \in Nat
        BY <1>0, <1>1, <1>10 DEF SettledOnce
      <3>4. SettledOnce'
        BY <1>1, <1>10, <2>1, <3>1, <3>2, <3>3 DEF SettledOnce
      <3>5. PoolIsFounded'
        BY <1>0, <1>10, <2>1, <3>1, <3>2 DEF PoolIsFounded, NeedsPerson
      <3>6. ReviewTypeOK'
        BY <1>0, <1>1, <1>2, <1>10, <2>1, <3>1
      <3> QED BY <1>0, <2>1, <3>4, <3>5, <3>6 DEF DeskInv
    <2>3. CASE ~Outranks("COMPLETED", task.status)
      <3>1. task' = task /\ settledBy' = settledBy
        BY <1>10, <2>3 DEF SettleTask, RecordStatus
      <3>4. SettledOnce'
        BY <1>0, <2>1, <3>1 DEF SettledOnce
      <3>5. PoolIsFounded'
        BY <1>0, <2>1, <3>1 DEF PoolIsFounded, NeedsPerson
      <3>6. ReviewTypeOK'
        BY <1>0, <1>2, <2>1, <3>1
      <3> QED BY <1>0, <2>1, <3>4, <3>5, <3>6 DEF DeskInv
    <2> QED BY <2>2, <2>3
  <1>11. CASE CommitTask
    <2> DEFINE new == [task EXCEPT !.status = "COMPLETED", !.grading = GradingOf(OwnVerdicts),
                                   !.review = ReviewOf(OwnVerdicts)]
    <2>1. SettleTask(new) /\ attempt.pc # "over"
      BY <1>11 DEF CommitTask
    <2>2. \A i \in 1..n : results[i].by = attempt.n => results[i].verdict \in OwnVerdicts
      BY <1>0 DEF OwnVerdicts
    <2>3. \A v \in OwnVerdicts : \E i \in 1..n : results[i].verdict = v
      BY <1>0 DEF OwnVerdicts
    <2>4. /\ new \in TaskRecords /\ new.status = "COMPLETED"
          /\ new.review = ReviewOf(OwnVerdicts) /\ new.short = task.short
      <3>1. /\ GradingOf(OwnVerdicts) \in {"NONE", "SCORED", "REJECTED_UNREADABLE"}
            /\ ReviewOf(OwnVerdicts) \in {"NOT_REQUIRED", "PENDING_REVIEW", "REVIEWED"}
        BY DEF GradingOf, ReviewOf
      <3> DEFINE g == GradingOf(OwnVerdicts)
                 r == ReviewOf(OwnVerdicts)
      <3> HIDE DEF g, r
      <3>2. [task EXCEPT !.status = "COMPLETED", !.grading = g, !.review = r] \in TaskRecords
        BY <1>0, <3>1 DEF TaskRecords, Statuses, g, r
      <3> QED BY <1>0, <3>2 DEF TaskRecords, g, r
    <2>5. new.review = "PENDING_REVIEW" => NeedsPerson(new.short)
      BY <2>3, <2>4 DEF NeedsPerson, ReviewOf
    <2>6. CASE new.review = "NOT_REQUIRED"
      <3>1. \A i \in 1..n : results[i].by = attempt.n => results[i].verdict = "scored"
        BY <2>2, <2>4, <2>6 DEF ReviewOf
      <3>2. settledBy = 0 => ~new.short
        BY <1>0, <2>4 DEF SettledOnce
      <3> HIDE DEF new
      <3> QED BY <1>10, <2>1, <2>4, <2>5, <2>6, <3>1, <3>2
    <2>7. CASE new.review # "NOT_REQUIRED"
      <3> HIDE DEF new
      <3> QED BY <1>10, <2>1, <2>4, <2>5, <2>7
    <2> QED BY <2>6, <2>7
  <1>12. CASE CommitRejection
    <2> DEFINE new == [status |-> "COMPLETED", grading |-> "REJECTED_UNREADABLE",
                       review |-> "PENDING_REVIEW", short |-> TRUE]
    <2>1. SettleTask(new) /\ attempt.pc # "over"
      BY <1>12 DEF CommitRejection
    <2>2. /\ new \in TaskRecords /\ new.status = "COMPLETED" /\ new.review = "PENDING_REVIEW"
          /\ NeedsPerson(new.short)
      BY DEF TaskRecords, Statuses, NeedsPerson
    <2> HIDE DEF new
    <2> QED BY <1>10, <2>1, <2>2
  (* A page is read.                                                       *)
  <1>13. ASSUME page' \in PageRecords(0..n + 1), Stays,
                page'.pc \in {"pool", "counts"} /\ ~marked => NeedsPerson(page'.short),
                page'.pc = "queue" /\ ~marked => page'.targets > 0
         PROVE  DeskInv'
    <2>1. UNCHANGED <<roster, task, results, attempt, decisions, checked, settledBy, marked>>
      BY <1>13 DEF Stays
    <2>2. SettledOnce'
      BY <1>0, <2>1 DEF SettledOnce
    <2>3. PoolIsFounded'
      BY <1>0, <1>13, <2>1 DEF PoolIsFounded, NeedsPerson
    <2>4. ReviewTypeOK'
      BY <1>0, <1>2, <1>13, <2>1
    <2> QED BY <1>0, <1>13, <2>1, <2>2, <2>3, <2>4 DEF DeskInv
  <1>14. NoPage \in PageRecords(0..n + 1)
    <2>1. 0 \in 0..n + 1
      BY <1>0
    <2> HIDE DEF n
    <2> QED BY <2>1 DEF NoPage, PageRecords
  <1>15. CASE ReadPool
    <2>1. /\ page' = [NoPage EXCEPT !.pc = "pool", !.short = task.short] /\ Stays
          /\ task.review = "PENDING_REVIEW"
      BY <1>15 DEF ReadPool
    <2>2. /\ page' \in PageRecords(0..n + 1) /\ page'.pc = "pool"
          /\ page'.short = task.short
      <3> HIDE DEF n
      <3> QED BY <1>1, <1>14, <2>1 DEF PageRecords, NoPage
    <2>3. ~marked => NeedsPerson(task.short)
      BY <1>0, <2>1 DEF PoolIsFounded
    <2> HIDE DEF n
    <2> QED BY <1>13, <1>14, <2>1, <2>2, <2>3
  <1>16. CASE ReadCounts
    <2>1. page' = [page EXCEPT !.pc = "counts"] /\ Stays /\ page.pc = "pool"
      BY <1>16 DEF ReadCounts
    <2>2. /\ page' \in PageRecords(0..n + 1) /\ page'.pc = "counts"
          /\ page'.short = page.short
      <3> HIDE DEF n
      <3> QED BY <1>0, <2>1 DEF PageRecords
    <2>3. ~marked => NeedsPerson(page.short)
      BY <1>0, <2>1 DEF PoolIsFounded
    <2> HIDE DEF n
    <2> QED BY <1>0, <1>13, <2>1, <2>2, <2>3
  <1>17. /\ ReviewTargets(page.short) \in 0..n + 1
         /\ NeedsPerson(page.short) => ReviewTargets(page.short) > 0
    BY TargetsCount, <1>0 DEF PageRecords
  <1>18. CASE ReadQueue
    <2>1. /\ page' = [page EXCEPT !.pc = "queue", !.targets = ReviewTargets(page.short)]
          /\ Stays /\ page.pc = "counts"
      BY <1>18 DEF ReadQueue
    <2>2. /\ page' \in PageRecords(0..n + 1) /\ page'.pc = "queue"
          /\ page'.targets = ReviewTargets(page.short)
      <3> DEFINE k == ReviewTargets(page.short)
                 M == 0..n + 1
      <3>1. k \in M
        BY <1>17
      <3> HIDE DEF k, M
      <3>2. page \in PageRecords(M)
        BY <1>0 DEF M
      <3>3. /\ [page EXCEPT !.pc = "queue", !.targets = k] \in PageRecords(M)
            /\ page' = [page EXCEPT !.pc = "queue", !.targets = k]
        BY <2>1, <3>1, <3>2 DEF PageRecords, k
      <3>4. page'.pc = "queue" /\ page'.targets = k
        BY <3>2, <3>3 DEF PageRecords
      <3> QED BY <3>3, <3>4 DEF k, M
    <2>3. ~marked => NeedsPerson(page.short)
      BY <1>0, <2>1 DEF PoolIsFounded
    <2> HIDE DEF n
    <2> QED BY <1>0, <1>13, <1>17, <2>1, <2>2, <2>3
  <1>19. ASSUME NEW s \in Samples, Decide(s) PROVE DeskInv'
    <2>1. /\ UNCHANGED <<roster, task, results, attempt, page, checked, settledBy, marked>>
          /\ decisions' = decisions \cup {s}
      BY <1>19 DEF Decide, UpsertDecision
    <2>2. decisions' \subseteq Samples
      BY <1>0, <1>19, <2>1
    <2>3. SettledOnce' /\ PoolIsFounded'
      BY <1>0, <2>1 DEF SettledOnce, PoolIsFounded, NeedsPerson
    <2>4. ReviewTypeOK'
      BY <1>0, <1>2, <2>1, <2>2
    <2> QED BY <1>0, <2>1, <2>2, <2>3, <2>4 DEF DeskInv
  <1>20. ASSUME NEW r \in {"PENDING_REVIEW", "REVIEWED"}, MarkReviewed(r) PROVE DeskInv'
    <2>1. /\ UNCHANGED <<roster, results, attempt, decisions, page, checked, settledBy>>
          /\ task' = [task EXCEPT !.review = r] /\ marked' = TRUE
      BY <1>20 DEF MarkReviewed, SetReviewStatus
    <2>2. /\ task' \in TaskRecords /\ task'.review = r /\ task'.status = task.status
          /\ task'.grading = task.grading /\ task'.short = task.short
      BY <1>0, <1>20, <2>1 DEF TaskRecords
    <2>3. SettledOnce'
      BY <1>0, <2>1, <2>2 DEF SettledOnce
    <2>4. PoolIsFounded'
      BY <1>20, <2>1, <2>2 DEF PoolIsFounded
    <2>5. ReviewTypeOK'
      BY <1>0, <1>2, <2>1, <2>2
    <2> QED BY <1>0, <2>1, <2>3, <2>4, <2>5 DEF DeskInv
  <1>21. CASE CheckScored \/ StoreAsset
    <2>1. /\ UNCHANGED <<roster, task, results, attempt, decisions, page, settledBy, marked>>
          /\ checked' \in BOOLEAN /\ (checked' => task.grading = "SCORED")
      BY <1>21 DEF CheckScored, StoreAsset
    <2>2. SettledOnce' /\ PoolIsFounded'
      BY <1>0, <2>1 DEF SettledOnce, PoolIsFounded, NeedsPerson
    <2>3. ReviewTypeOK'
      BY <1>0, <1>2, <2>1
    <2> QED BY <1>0, <2>1, <2>2, <2>3 DEF DeskInv
  <1>22. CASE UNCHANGED deskVars
    <2>1. UNCHANGED <<roster, task, results, attempt, decisions, page, checked, settledBy, marked>>
      BY <1>22 DEF deskVars
    <2>2. SettledOnce' /\ PoolIsFounded'
      BY <1>0, <2>1 DEF SettledOnce, PoolIsFounded, NeedsPerson
    <2>3. ReviewTypeOK'
      BY <1>0, <1>2, <2>1
    <2> QED BY <1>0, <2>1, <2>2, <2>3 DEF DeskInv
  <1>23. CASE WorkerWrites
    BY <1>4, <1>5, <1>8, <1>9, <1>11, <1>12, <1>23 DEF WorkerWrites
  <1>24. CASE TeacherActs
    BY <1>15, <1>16, <1>18, <1>19, <1>20, <1>21, <1>24 DEF TeacherActs
  <1> QED BY <1>22, <1>23, <1>24 DEF DeskNext

LEMMA DeskKeeps == DeskSpec => []DeskInv
  BY DeskStarts, DeskSteps, PTL DEF DeskSpec

(* The task row, its rows, the attempt and the queue stay within their     *)
(* types: the queue never counts more than there is to count.              *)
THEOREM DeskIsTyped == DeskSpec => []ReviewTypeOK
  <1>1. DeskInv => ReviewTypeOK
    BY DEF DeskInv
  <1> QED BY <1>1, DeskKeeps, PTL

(* However attempts and teachers interleave: no attempt that starts,       *)
(* commits or fails after the task was completed touches the review status *)
(* the teacher has set, and no annotation is stored about a task that is   *)
(* no longer scored, though the check and the upsert are two transactions. *)
THEOREM TeachersWorkStands == DeskSpec => TeacherWorkStands
  <1> DEFINE A == /\ settledBy # 0 /\ attempt' # attempt => task'.review = task.review
                  /\ checked /\ ~checked' => task.grading = "SCORED"
  <1>1. DeskInv /\ [DeskNext]_deskVars => [A]_deskVars
    <2> SUFFICES ASSUME DeskInv, DeskNext PROVE A
      OBVIOUS
    <2>1. task \in TaskRecords /\ SettledOnce
      BY DEF DeskInv, ReviewTypeOK, TaskRecords
    <2>2. ASSUME NEW s \in Statuses, task' = RecordStatus([task EXCEPT !.status = s], task)
          PROVE  task'.review = task.review
      <3>1. task' = task \/ task' = [task EXCEPT !.status = s]
        BY <2>2 DEF RecordStatus
      <3>2. [task EXCEPT !.status = s].review = task.review
        BY <2>1 DEF TaskRecords
      <3> QED BY <3>1, <3>2
    <2>3. ASSUME settledBy # 0, NEW new, new.status = "COMPLETED", SettleTask(new)
          PROVE  task'.review = task.review
      <3>1. task.status \in Statuses \ {"CANCELLED"} /\ task.status \in {"COMPLETED", "FAILED"}
        BY <2>1, <2>3 DEF SettledOnce, TaskRecords
      <3>2. ~Outranks("COMPLETED", task.status)
        BY <3>1, WhatOutranks
      <3> QED BY <2>3, <3>2 DEF SettleTask, RecordStatus
    <2>4. ASSUME settledBy # 0, attempt' # attempt PROVE task'.review = task.review
      <3>1. CASE BeginAttempt \/ AttemptFails
        BY <2>2, <3>1 DEF BeginAttempt, AttemptFails, Statuses
      <3>2. CASE CommitTask
        <4> DEFINE new == [task EXCEPT !.status = "COMPLETED", !.grading = GradingOf(OwnVerdicts),
                                       !.review = ReviewOf(OwnVerdicts)]
        <4>1. new.status = "COMPLETED" /\ SettleTask(new)
          BY <2>1, <3>2 DEF CommitTask, TaskRecords
        <4> HIDE DEF new
        <4> QED BY <2>3, <2>4, <4>1
      <3>3. CASE CommitRejection
        <4> DEFINE new == [status |-> "COMPLETED", grading |-> "REJECTED_UNREADABLE",
                           review |-> "PENDING_REVIEW", short |-> TRUE]
        <4>1. new.status = "COMPLETED" /\ SettleTask(new)
          BY <3>3 DEF CommitRejection
        <4> HIDE DEF new
        <4> QED BY <2>3, <2>4, <4>1
      <3>4. CASE ShortCircuited \/ \E s \in Students, v \in Outcomes : InsertResult(s, v)
        BY <3>4 DEF ShortCircuited, InsertResult
      <3>5. CASE TeacherActs
        BY <2>4, <3>5 DEF TeacherActs, ReadPool, ReadCounts, ReadQueue, Stays, Decide,
            MarkReviewed, CheckScored, StoreAsset
      <3> QED BY <3>1, <3>2, <3>3, <3>4, <3>5 DEF DeskNext, WorkerWrites
    <2>5. checked /\ ~checked' => task.grading = "SCORED"
      BY <2>1 DEF SettledOnce
    <2> QED BY <2>4, <2>5
  <1> QED BY <1>1, DeskKeeps, PTL DEF DeskSpec, TeacherWorkStands

(* A task the queue shows has something for a person, though the pool and  *)
(* the rows are read by separate queries while attempts insert; and no     *)
(* completed task stays out of the pool with a row of its completing       *)
(* attempt that the workbench would mark.                                  *)
THEOREM PoolsAreRight == DeskSpec => []PoolIsRight
  <1>1. DeskInv => PoolIsRight
    <2> SUFFICES ASSUME DeskInv PROVE PoolIsRight
      OBVIOUS
    <2>1. /\ task \in TaskRecords /\ results \in Seq(ResultRecords) /\ PoolIsFounded
          /\ task.short \in BOOLEAN
      BY DEF DeskInv, ReviewTypeOK, TaskRecords, ResultRecords
    <2>2. task.review = "PENDING_REVIEW" /\ ~marked => ReviewTargets(task.short) > 0
      BY <2>1, TargetsCount DEF PoolIsFounded
    <2>3. ASSUME task.review = "NOT_REQUIRED", NEW i \in DOMAIN results, results[i].by = settledBy
          PROVE  Rank(results[i].verdict, task.short) > 2
      <3>1. ~task.short /\ results[i].verdict = "scored"
        <4>1. i \in 1..Len(results)
          BY <2>1, <2>3
        <4> QED BY <2>1, <2>3, <4>1 DEF PoolIsFounded
      <3> QED BY <3>1 DEF Rank
    <2> QED BY <2>1, <2>2, <2>3 DEF PoolIsRight, PoolIsFounded
  <1> QED BY <1>1, DeskKeeps, PTL

-----------------------------------------------------------------------------
(***************************************************************************)
(* The migration of the schema.                                            *)
(***************************************************************************)
Younger == {"celery", "teacher"}

(* Every copy of the file, committed or not.                               *)
FileIsSound(f) ==
  /\ f \in Files
  /\ f.columns["tasks_new"] \in {{}, RebuiltColumns}
  /\ f.columns["tasks"] \subseteq {"id", "celery", "teacher", "legacy"}
  /\ f.columns["tasks"] # {} => "id" \in f.columns["tasks"]
  /\ f.columns["rubrics"] \in {{}, {"id"}, {"id", "fingerprint"}}

(* No statement takes back what another did to the file: tables, younger   *)
(* columns and rows stay, and the legacy columns do not return.            *)
Grows(f, g) ==
  /\ \A t \in Tables \ {"tasks_new"} : f.columns[t] # {} => g.columns[t] # {}
  /\ \A c \in Younger : c \in f.columns["tasks"] => c \in g.columns["tasks"]
  /\ f.columns["tasks"] # {} /\ "legacy" \notin f.columns["tasks"] =>
       "legacy" \notin g.columns["tasks"]
  /\ "fingerprint" \in f.columns["rubrics"] => "fingerprint" \in g.columns["rubrics"]
  /\ f.rows \subseteq g.rows

Ready(f) ==
  /\ \A t \in Tables \ {"tasks_new"} : f.columns[t] # {}
  /\ Younger \subseteq f.columns["tasks"] /\ "legacy" \notin f.columns["tasks"]
  /\ "fingerprint" \in f.columns["rubrics"]

FilesInv ==
  /\ FileIsSound(db)
  /\ txn \in [by : Procs \cup {NoOne}, view : Files] /\ FileIsSound(txn.view)
  /\ txn.by \in Procs => proc[txn.by].state = "running" /\ Grows(db, txn.view)

ProcRecords ==
  [kind : Kinds, state : {"running", "done", "failed"}, at : Nat, read : BOOLEAN,
   seen : SUBSET Columns, tries : 1..MaxTries, starts : 1..MaxStarts, alone : BOOLEAN]

Running(p) == proc[p].state = "running"

(* Where a process is tells what it has done to the file it sees.          *)
InitProgress(p) ==
  Running(p) /\ proc[p].kind = "init" =>
    /\ \A i \in 1..proc[p].at - 1 :
         Program("init")[i].op = "create" =>
           View(p).columns[Program("init")[i].table] # {}
    /\ proc[p].at >= 9 => "fingerprint" \in View(p).columns["rubrics"]
    /\ proc[p].at >= 10 => Younger \subseteq View(p).columns["tasks"]
    /\ proc[p].at >= 18 => txn.by = p
    /\ proc[p].at = 24 => "legacy" \notin View(p).columns["tasks"]

(* What was read of the columns is not gone since.                         *)
SeenStands(p) ==
  At(p, "add") /\ proc[p].read /\ Op(p).table = "tasks" =>
    \A c \in Younger : c \in proc[p].seen => c \in View(p).columns["tasks"]

(* The tables are swapped by the transaction that has copied the rows.     *)
SwapFollowsCopy(p) ==
  At(p, "swap") =>
    /\ txn.by = p /\ txn.view.rows \subseteq txn.view.copy
    /\ txn.view.columns["tasks_new"] # {}

(* The API and the script alter tables that exist; and if nobody has       *)
(* changed the schema meanwhile, they know their columns.                  *)
TableStands(p) ==
  /\ (/\ Running(p) /\ proc[p].kind # "dao"
      /\ Op(p).op \in {"add", "drop_new", "create_new", "copy"}) =>
       View(p).columns[Op(p).table] # {}
  /\ proc[p].alone =>
       /\ At(p, "add") /\ proc[p].read => proc[p].seen = View(p).columns[Op(p).table]
       /\ At(p, "create_new") => View(p).columns["tasks_new"] = {}
       /\ At(p, "copy") => View(p).columns["tasks_new"] # {}

Outcome(p) == proc[p].state = "done" /\ proc[p].kind = "init" => Ready(db)

ProcessInv(p) ==
  /\ proc[p].at \in 1..Len(Program(proc[p].kind))
  /\ InitProgress(p) /\ SeenStands(p) /\ SwapFollowsCopy(p) /\ TableStands(p) /\ Outcome(p)

SchemaInv ==
  /\ FilesInv
  /\ proc \in [Procs -> ProcRecords]
  /\ \A p \in Procs : ProcessInv(p)

LEMMA JoinedIs ==
  ASSUME NEW S, NEW s \in Seq(S), NEW t \in Seq(S), NEW u \in Seq(S),
         Len(u) = Len(s) + Len(t), \A i \in 1..Len(s) : u[i] = s[i],
         \A i \in 1..Len(t) : u[Len(s) + i] = t[i]
  PROVE  s \o t = u
  <1>1. /\ s \o t \in Seq(S) /\ Len(s \o t) = Len(s) + Len(t)
        /\ \A i \in 1..Len(s) + Len(t) : (s \o t)[i] = IF i <= Len(s) THEN s[i] ELSE t[i - Len(s)]
    BY ConcatProperties
  <1>2. ASSUME NEW i \in 1..Len(u) PROVE (s \o t)[i] = u[i]
    <2>1. CASE i <= Len(s)
      BY <1>1, <2>1
    <2>2. CASE ~(i <= Len(s))
      <3>1. i - Len(s) \in 1..Len(t) /\ i = Len(s) + (i - Len(s))
        BY <2>2
      <3> QED BY <1>1, <2>2, <3>1
    <2> QED BY <2>1, <2>2
  <1> QED BY <1>1, <1>2, SeqEqual

AddBoth == AddTo("tasks", <<"celery", "teacher">>)

Rebuild == <<AddBoth, Do("drop_new"), Do("create_new"), Do("copy"), Do("swap")>>

LEMMA DropLegacyIs ==
  DropLegacyColumns = Rebuild
  <1> DEFINE a == AddBoth
             b == Do("drop_new")
             c == Do("create_new")
             d == Do("copy")
             e == Do("swap")
             S == {a, b, c, d, e}
  <1>1. EnsureTasksColumns(TRUE) = <<a>>
    BY DEF EnsureTasksColumns, AddBoth
  <1> HIDE DEF a, b, c, d, e
  <1>2. <<a>> \o <<b, c, d, e>> = <<a, b, c, d, e>>
    <2> DEFINE s == <<a>>
               t == <<b, c, d, e>>
               u == <<a, b, c, d, e>>
    <2>1. s \in Seq(S) /\ t \in Seq(S) /\ u \in Seq(S)
      OBVIOUS
    <2>2. /\ Len(u) = Len(s) + Len(t) /\ \A i \in 1..Len(s) : u[i] = s[i]
          /\ \A i \in 1..Len(t) : u[Len(s) + i] = t[i]
      OBVIOUS
    <2> HIDE DEF s, t, u, S
    <2>3. s \o t = u
      BY <2>1, <2>2, JoinedIs
    <2> QED BY <2>3 DEF s, t, u
  <1> QED BY <1>1, <1>2 DEF DropLegacyColumns, Rebuild, a, b, c, d, e

LEMMA ScriptIs ==
  Program("script") = <<Do("if_legacy"), AddBoth, Do("drop_new"), Do("create_new"), Do("copy"),
                        Do("swap"), Do("commit")>>
  <1> DEFINE a == AddBoth
             b == Do("drop_new")
             c == Do("create_new")
             d == Do("copy")
             e == Do("swap")
             f == Do("if_legacy")
             g == Do("commit")
             S == {a, b, c, d, e, f, g}
  <1>1. Program("script") = <<f>> \o <<a, b, c, d, e>> \o <<g>>
    <2>1. Program("script") = <<Do("if_legacy")>> \o DropLegacyColumns \o <<Do("commit")>>
      BY Zenon DEF Program
    <2> QED BY <2>1, DropLegacyIs DEF Rebuild
  <1> HIDE DEF a, b, c, d, e, f, g
  <1>2. <<f>> \o <<a, b, c, d, e>> = <<f, a, b, c, d, e>>
    <2> DEFINE s == <<f>>
               t == <<a, b, c, d, e>>
               u == <<f, a, b, c, d, e>>
    <2>1. s \in Seq(S) /\ t \in Seq(S) /\ u \in Seq(S)
      OBVIOUS
    <2>2. /\ Len(u) = Len(s) + Len(t) /\ \A i \in 1..Len(s) : u[i] = s[i]
          /\ \A i \in 1..Len(t) : u[Len(s) + i] = t[i]
      OBVIOUS
    <2> HIDE DEF s, t, u, S
    <2>3. s \o t = u
      BY <2>1, <2>2, JoinedIs
    <2> QED BY <2>3 DEF s, t, u
  <1>3. <<f, a, b, c, d, e>> \o <<g>> = <<f, a, b, c, d, e, g>>
    <2> DEFINE s == <<f, a, b, c, d, e>>
               t == <<g>>
               u == <<f, a, b, c, d, e, g>>
    <2>1. s \in Seq(S) /\ t \in Seq(S) /\ u \in Seq(S)
      OBVIOUS
    <2>2. /\ Len(u) = Len(s) + Len(t) /\ \A i \in 1..Len(s) : u[i] = s[i]
          /\ \A i \in 1..Len(t) : u[Len(s) + i] = t[i]
      OBVIOUS
    <2> HIDE DEF s, t, u, S
    <2>3. s \o t = u
      BY <2>1, <2>2, JoinedIs
    <2> QED BY <2>3 DEF s, t, u
  <1> QED BY <1>1, <1>2, <1>3 DEF a, b, c, d, e, f, g

LEMMA DaoIs ==
  Program("dao") = <<AddTo("tasks", <<"teacher">>), Do("insert"), Do("commit")>>
  <1> DEFINE a == AddTo("tasks", <<"teacher">>)
             b == Do("insert")
             c == Do("commit")
             S == {a, b, c}
  <1>1. Program("dao") = <<a>> \o <<b, c>>
    <2>1. Program("dao") = EnsureTasksColumns(FALSE) \o <<Do("insert"), Do("commit")>>
      BY Zenon DEF Program
    <2> QED BY <2>1 DEF EnsureTasksColumns
  <1> HIDE DEF a, b, c
  <1>2. <<a>> \o <<b, c>> = <<a, b, c>>
    <2> DEFINE s == <<a>>
               t == <<b, c>>
               u == <<a, b, c>>
    <2>1. s \in Seq(S) /\ t \in Seq(S) /\ u \in Seq(S)
      OBVIOUS
    <2>2. /\ Len(u) = Len(s) + Len(t) /\ \A i \in 1..Len(s) : u[i] = s[i]
          /\ \A i \in 1..Len(t) : u[Len(s) + i] = t[i]
      OBVIOUS
    <2> HIDE DEF s, t, u, S
    <2>3. s \o t = u
      BY <2>1, <2>2, JoinedIs
    <2> QED BY <2>3 DEF s, t, u
  <1> QED BY <1>1, <1>2 DEF a, b, c

LEMMA InitIs ==
  Program("init") =
    <<Create("tasks"), Create("domain_split"), Create("telemetry"), Create("prompt_control"),
      Create("validation"), Create("rubrics"), Create("rubric_audit"),
      Index("rubrics", "fingerprint"), AddBoth, Create("rubrics"),
      AddTo("rubrics", <<"fingerprint">>), Create("rubric_audit"), Create("domain_split"),
      Create("validation"), Create("telemetry"), Create("prompt_control"), Do("seed"),
      Do("if_legacy"), AddBoth, Do("drop_new"), Do("create_new"), Do("copy"), Do("swap"),
      Do("commit")>>
  <1> DEFINE a == Create("tasks")
             b == AddBoth
             c == Create("rubrics")
             d == AddTo("rubrics", <<"fingerprint">>)
             e == Create("rubric_audit")
             f == Create("domain_split")
             g == Create("validation")
             h == Create("telemetry")
             k == Create("prompt_control")
             l == Do("seed")
             m == Do("if_legacy")
             n == Do("drop_new")
             o == Do("create_new")
             p == Do("copy")
             q == Do("swap")
             r == Do("commit")
             x == Index("rubrics", "fingerprint")
             S == {a, b, c, d, e, f, g, h, k, l, m, n, o, p, q, r, x}
  <1>1. Program("init") = <<a, f, h, k, g, c, e, x>> \o <<b>> \o <<c, d>> \o <<e>> \o <<f>> \o <<g>>
                          \o <<h>> \o <<k, l>> \o <<m>> \o <<b, n, o, p, q>> \o <<r>>
    <2>1. Program("init") =
            SchemaScript \o EnsureTasksColumns(TRUE) \o EnsureRubricsSchema
            \o EnsureRubricAuditSchema \o EnsureDomainSplitTables \o EnsureSkillValidation
            \o EnsureRuntimeTelemetry \o EnsurePromptControl
            \o <<Do("if_legacy")>> \o DropLegacyColumns \o <<Do("commit")>>
      BY Zenon DEF Program
    <2> QED BY <2>1, DropLegacyIs DEF Rebuild, AddBoth, SchemaScript, EnsureTasksColumns,
      EnsureRubricsSchema, EnsureRubricAuditSchema, EnsureDomainSplitTables,
      EnsureSkillValidation, EnsureRuntimeTelemetry, EnsurePromptControl
  <1> HIDE DEF a, b, c, d, e, f, g, h, k, l, m, n, o, p, q, r, x
  <1>2. <<a, f, h, k, g, c, e, x>> \o <<b>> = <<a, f, h, k, g, c, e, x, b>>
    <2> DEFINE s == <<a, f, h, k, g, c, e, x>>
               t == <<b>>
               u == <<a, f, h, k, g, c, e, x, b>>
    <2>1. s \in Seq(S) /\ t \in Seq(S) /\ u \in Seq(S)
      OBVIOUS
    <2>2. /\ Len(u) = Len(s) + Len(t) /\ \A i \in 1..Len(s) : u[i] = s[i]
          /\ \A i \in 1..Len(t) : u[Len(s) + i] = t[i]
      <3>1. Len(u) = Len(s) + Len(t) /\ \A i \in 1..Len(s) : u[i] = s[i]
        OBVIOUS
      <3>2. \A i \in 1..Len(t) : u[Len(s) + i] = t[i]
        OBVIOUS
      <3> QED BY <3>1, <3>2
    <2> HIDE DEF s, t, u, S
    <2>3. s \o t = u
      BY <2>1, <2>2, JoinedIs
    <2> QED BY <2>3 DEF s, t, u
  <1>3. <<a, f, h, k, g, c, e, x, b>> \o <<c, d>>
           = <<a, f, h, k, g, c, e, x, b, c, d>>
    <2> DEFINE s == <<a, f, h, k, g, c, e, x, b>>
               t == <<c, d>>
               u == <<a, f, h, k, g, c, e, x, b, c, d>>
    <2>1. s \in Seq(S) /\ t \in Seq(S) /\ u \in Seq(S)
      OBVIOUS
    <2>2. /\ Len(u) = Len(s) + Len(t) /\ \A i \in 1..Len(s) : u[i] = s[i]
          /\ \A i \in 1..Len(t) : u[Len(s) + i] = t[i]
      <3>1. Len(u) = Len(s) + Len(t) /\ \A i \in 1..Len(s) : u[i] = s[i]
        OBVIOUS
      <3>2. \A i \in 1..Len(t) : u[Len(s) + i] = t[i]
        OBVIOUS
      <3> QED BY <3>1, <3>2
    <2> HIDE DEF s, t, u, S
    <2>3. s \o t = u
      BY <2>1, <2>2, JoinedIs
    <2> QED BY <2>3 DEF s, t, u
  <1>4. <<a, f, h, k, g, c, e, x, b, c, d>> \o <<e>>
           = <<a, f, h, k, g, c, e, x, b, c, d, e>>
    <2> DEFINE s == <<a, f, h, k, g, c, e, x, b, c, d>>
               t == <<e>>
               u == <<a, f, h, k, g, c, e, x, b, c, d, e>>
    <2>1. s \in Seq(S) /\ t \in Seq(S) /\ u \in Seq(S)
      OBVIOUS
    <2>2. /\ Len(u) = Len(s) + Len(t) /\ \A i \in 1..Len(s) : u[i] = s[i]
          /\ \A i \in 1..Len(t) : u[Len(s) + i] = t[i]
      <3>1. Len(u) = Len(s) + Len(t) /\ \A i \in 1..Len(s) : u[i] = s[i]
        OBVIOUS
      <3>2. \A i \in 1..Len(t) : u[Len(s) + i] = t[i]
        OBVIOUS
      <3> QED BY <3>1, <3>2
    <2> HIDE DEF s, t, u, S
    <2>3. s \o t = u
      BY <2>1, <2>2, JoinedIs
    <2> QED BY <2>3 DEF s, t, u
  <1>5. <<a, f, h, k, g, c, e, x, b, c, d, e>> \o <<f>>
           = <<a, f, h, k, g, c, e, x, b, c, d, e, f>>
    <2> DEFINE s == <<a, f, h, k, g, c, e, x, b, c, d, e>>
               t == <<f>>
               u == <<a, f, h, k, g, c, e, x, b, c, d, e, f>>
    <2>1. s \in Seq(S) /\ t \in Seq(S) /\ u \in Seq(S)
      OBVIOUS
    <2>2. /\ Len(u) = Len(s) + Len(t) /\ \A i \in 1..Len(s) : u[i] = s[i]
          /\ \A i \in 1..Len(t) : u[Len(s) + i] = t[i]
      <3>1. Len(u) = Len(s) + Len(t) /\ \A i \in 1..Len(s) : u[i] = s[i]
        OBVIOUS
      <3>2. \A i \in 1..Len(t) : u[Len(s) + i] = t[i]
        OBVIOUS
      <3> QED BY <3>1, <3>2
    <2> HIDE DEF s, t, u, S
    <2>3. s \o t = u
      BY <2>1, <2>2, JoinedIs
    <2> QED BY <2>3 DEF s, t, u
  <1>6. <<a, f, h, k, g, c, e, x, b, c, d, e, f>> \o <<g>>
           = <<a, f, h, k, g, c, e, x, b, c, d, e, f, g>>
    <2> DEFINE s == <<a, f, h, k, g, c, e, x, b, c, d, e, f>>
               t == <<g>>
               u == <<a, f, h, k, g, c, e, x, b, c, d, e, f, g>>
    <2>1. s \in Seq(S) /\ t \in Seq(S) /\ u \in Seq(S)
      OBVIOUS
    <2>2. /\ Len(u) = Len(s) + Len(t) /\ \A i \in 1..Len(s) : u[i] = s[i]
          /\ \A i \in 1..Len(t) : u[Len(s) + i] = t[i]
      <3>1. Len(u) = Len(s) + Len(t) /\ \A i \in 1..Len(s) : u[i] = s[i]
        OBVIOUS
      <3>2. \A i \in 1..Len(t) : u[Len(s) + i] = t[i]
        OBVIOUS
      <3> QED BY <3>1, <3>2
    <2> HIDE DEF s, t, u, S
    <2>3. s \o t = u
      BY <2>1, <2>2, JoinedIs
    <2> QED BY <2>3 DEF s, t, u
  <1>7. <<a, f, h, k, g, c, e, x, b, c, d, e, f, g>> \o <<h>>
           = <<a, f, h, k, g, c, e, x, b, c, d, e, f, g, h>>
    <2> DEFINE s == <<a, f, h, k, g, c, e, x, b, c, d, e, f, g>>
               t == <<h>>
               u == <<a, f, h, k, g, c, e, x, b, c, d, e, f, g, h>>
    <2>1. s \in Seq(S) /\ t \in Seq(S) /\ u \in Seq(S)
      OBVIOUS
    <2>2. /\ Len(u) = Len(s) + Len(t) /\ \A i \in 1..Len(s) : u[i] = s[i]
          /\ \A i \in 1..Len(t) : u[Len(s) + i] = t[i]
      <3>1. Len(u) = Len(s) + Len(t) /\ \A i \in 1..Len(s) : u[i] = s[i]
        OBVIOUS
      <3>2. \A i \in 1..Len(t) : u[Len(s) + i] = t[i]
        OBVIOUS
      <3> QED BY <3>1, <3>2
    <2> HIDE DEF s, t, u, S
    <2>3. s \o t = u
      BY <2>1, <2>2, JoinedIs
    <2> QED BY <2>3 DEF s, t, u
  <1>8. <<a, f, h, k, g, c, e, x, b, c, d, e, f, g, h>> \o <<k, l>>
           = <<a, f, h, k, g, c, e, x, b, c, d, e, f, g, h, k, l>>
    <2> DEFINE s == <<a, f, h, k, g, c, e, x, b, c, d, e, f, g, h>>
               t == <<k, l>>
               u == <<a, f, h, k, g, c, e, x, b, c, d, e, f, g, h, k, l>>
    <2>1. s \in Seq(S) /\ t \in Seq(S) /\ u \in Seq(S)
      OBVIOUS
    <2>2. /\ Len(u) = Len(s) + Len(t) /\ \A i \in 1..Len(s) : u[i] = s[i]
          /\ \A i \in 1..Len(t) : u[Len(s) + i] = t[i]
      <3>1. Len(u) = Len(s) + Len(t) /\ \A i \in 1..Len(s) : u[i] = s[i]
        OBVIOUS
      <3>2. \A i \in 1..Len(t) : u[Len(s) + i] = t[i]
        OBVIOUS
      <3> QED BY <3>1, <3>2
    <2> HIDE DEF s, t, u, S
    <2>3. s \o t = u
      BY <2>1, <2>2, JoinedIs
    <2> QED BY <2>3 DEF s, t, u
  <1>9. <<a, f, h, k, g, c, e, x, b, c, d, e, f, g, h, k, l>> \o <<m>>
           = <<a, f, h, k, g, c, e, x, b, c, d, e, f, g, h, k, l, m>>
    <2> DEFINE s == <<a, f, h, k, g, c, e, x, b, c, d, e, f, g, h, k, l>>
               t == <<m>>
               u == <<a, f, h, k, g, c, e, x, b, c, d, e, f, g, h, k, l, m>>
    <2>1. s \in Seq(S) /\ t \in Seq(S) /\ u \in Seq(S)
      OBVIOUS
    <2>2. /\ Len(u) = Len(s) + Len(t) /\ \A i \in 1..Len(s) : u[i] = s[i]
          /\ \A i \in 1..Len(t) : u[Len(s) + i] = t[i]
      <3>1. Len(u) = Len(s) + Len(t) /\ \A i \in 1..Len(s) : u[i] = s[i]
        OBVIOUS
      <3>2. \A i \in 1..Len(t) : u[Len(s) + i] = t[i]
        OBVIOUS
      <3> QED BY <3>1, <3>2
    <2> HIDE DEF s, t, u, S
    <2>3. s \o t = u
      BY <2>1, <2>2, JoinedIs
    <2> QED BY <2>3 DEF s, t, u
  <1>10. <<a, f, h, k, g, c, e, x, b, c, d, e, f, g, h, k, l, m>> \o <<b, n, o, p, q>>
           = <<a, f, h, k, g, c, e, x, b, c, d, e, f, g, h, k, l, m, b, n, o, p, q>>
    <2> DEFINE s == <<a, f, h, k, g, c, e, x, b, c, d, e, f, g, h, k, l, m>>
               t == <<b, n, o, p, q>>
               u == <<a, f, h, k, g, c, e, x, b, c, d, e, f, g, h, k, l, m, b, n, o, p, q>>
    <2>1. s \in Seq(S) /\ t \in Seq(S) /\ u \in Seq(S)
      OBVIOUS
    <2>2. /\ Len(u) = Len(s) + Len(t) /\ \A i \in 1..Len(s) : u[i] = s[i]
          /\ \A i \in 1..Len(t) : u[Len(s) + i] = t[i]
      <3>1. Len(u) = Len(s) + Len(t) /\ \A i \in 1..Len(s) : u[i] = s[i]
        OBVIOUS
      <3>2. \A i \in 1..Len(t) : u[Len(s) + i] = t[i]
        OBVIOUS
      <3> QED BY <3>1, <3>2
    <2> HIDE DEF s, t, u, S
    <2>3. s \o t = u
      BY <2>1, <2>2, JoinedIs
    <2> QED BY <2>3 DEF s, t, u
  <1>11. <<a, f, h, k, g, c, e, x, b, c, d, e, f, g, h, k, l, m, b, n, o, p, q>> \o <<r>>
           = <<a, f, h, k, g, c, e, x, b, c, d, e, f, g, h, k, l, m, b, n, o, p, q, r>>
    <2> DEFINE s == <<a, f, h, k, g, c, e, x, b, c, d, e, f, g, h, k, l, m, b, n, o, p, q>>
               t == <<r>>
               u == <<a, f, h, k, g, c, e, x, b, c, d, e, f, g, h, k, l, m, b, n, o, p, q, r>>
    <2>1. s \in Seq(S) /\ t \in Seq(S) /\ u \in Seq(S)
      OBVIOUS
    <2>2. /\ Len(u) = Len(s) + Len(t) /\ \A i \in 1..Len(s) : u[i] = s[i]
          /\ \A i \in 1..Len(t) : u[Len(s) + i] = t[i]
      <3>1. Len(u) = Len(s) + Len(t) /\ \A i \in 1..Len(s) : u[i] = s[i]
        OBVIOUS
      <3>2. \A i \in 1..Len(t) : u[Len(s) + i] = t[i]
        OBVIOUS
      <3> QED BY <3>1, <3>2
    <2> HIDE DEF s, t, u, S
    <2>3. s \o t = u
      BY <2>1, <2>2, JoinedIs
    <2> QED BY <2>3 DEF s, t, u
  <1> QED
    BY <1>1, <1>2, <1>3, <1>4, <1>5, <1>6, <1>7, <1>8, <1>9, <1>10, <1>11
      DEF a, b, c, d, e, f, g, h, k, l, m, n, o, p, q, r, x

LEMMA RubricIs ==
  Program("rubric") = <<Create("rubrics"), AddTo("rubrics", <<"fingerprint">>), Do("seed"),
                        Do("commit")>>
  <1> DEFINE a == Create("rubrics")
             b == AddTo("rubrics", <<"fingerprint">>)
             c == Do("seed")
             d == Do("commit")
             S == {a, b, c, d}
  <1>1. Program("rubric") = <<a, b>> \o <<c, d>>
    <2>1. Program("rubric") = EnsureRubricsSchema \o <<Do("seed"), Do("commit")>>
      BY Zenon DEF Program
    <2> QED BY <2>1 DEF EnsureRubricsSchema
  <1> HIDE DEF a, b, c, d
  <1>2. <<a, b>> \o <<c, d>> = <<a, b, c, d>>
    <2> DEFINE s == <<a, b>>
               t == <<c, d>>
               u == <<a, b, c, d>>
    <2>1. s \in Seq(S) /\ t \in Seq(S) /\ u \in Seq(S)
      OBVIOUS
    <2>2. /\ Len(u) = Len(s) + Len(t) /\ \A i \in 1..Len(s) : u[i] = s[i]
          /\ \A i \in 1..Len(t) : u[Len(s) + i] = t[i]
      OBVIOUS
    <2> HIDE DEF s, t, u, S
    <2>3. s \o t = u
      BY <2>1, <2>2, JoinedIs
    <2> QED BY <2>3 DEF s, t, u
  <1> QED BY <1>1, <1>2 DEF a, b, c, d

(* What the proofs need to know of a statement and of the one before it.   *)
Shape(s) ==
  /\ s.op \in {"create", "index", "add", "seed", "if_legacy", "drop_new", "create_new", "copy",
              "swap", "insert", "commit"}
  /\ s.table \in Tables \ {"tasks_new"}
  /\ s.op \notin {"create", "index", "add"} => s.table = "tasks"
  /\ s.op = "index" => s = Index("rubrics", "fingerprint")
  /\ s.op = "add" =>
       \/ s.table = "tasks" /\ s.adds \in {<<"celery", "teacher">>, <<"teacher">>}
       \/ s.table = "rubrics" /\ s.adds = <<"fingerprint">>

Follows(s, next) ==
  /\ next.op = "add" =>
       \/ s.op = "create" /\ s.table = next.table
       \/ s.op \in {"if_legacy", "index"} /\ next.table = "tasks"
  /\ next.op = "drop_new" => s.op = "add" /\ s.table = "tasks"
  /\ next.op = "create_new" => s.op = "drop_new"
  /\ next.op = "copy" => s.op = "create_new"
  /\ next.op = "swap" => s.op = "copy"

LEMMA ProgramShape ==
  ASSUME NEW k \in Kinds
  PROVE  /\ Len(Program(k)) \in Nat \ {0}
         /\ k = "init" <=> Len(Program(k)) = 24
         /\ \A i \in 1..Len(Program(k)) :
              /\ Shape(Program(k)[i])
              /\ Program(k)[i].op = "commit" <=> i = Len(Program(k))
              /\ Program(k)[i].op = "insert" => k = "dao"
              /\ Program(k)[i].op = "index" => k = "init" /\ i = 8
              /\ i < Len(Program(k)) => Follows(Program(k)[i], Program(k)[i + 1])
         /\ Program(k)[1].op \in {"create", "if_legacy", "add"}
         /\ Program(k)[1].op = "add" => k = "dao"
  <1>1. CASE k = "init"
    <2> DEFINE P == Program("init")
    <2>1. Len(P) = 24
      BY InitIs, SMTT(60)
    <2>2. \A i \in 1..24 : Shape(P[i])
      BY InitIs, SMTT(90) DEF Shape, Create, Index, AddBoth, AddTo, Do, Tables
    <2>3. \A i \in 1..24 : P[i].op = "commit" <=> i = 24
      BY InitIs, SMTT(90) DEF Create, Index, AddBoth, AddTo, Do
    <2>9. \A i \in 1..24 : P[i].op = "index" => k = "init" /\ i = 8
      BY <1>1, InitIs, SMTT(90) DEF Create, Index, AddBoth, AddTo, Do
    <2>4. \A i \in 1..24 : P[i].op = "insert" => k = "dao"
      BY <1>1, InitIs, SMTT(90) DEF Create, Index, AddBoth, AddTo, Do
    <2>5. \A i \in 1..24 : i < 24 => Follows(P[i], P[i + 1])
      BY InitIs, SMTT(90) DEF Follows, Create, Index, AddBoth, AddTo, Do
    <2>6. P[1].op \in {"create", "if_legacy", "add"} /\ (P[1].op = "add" => k = "dao")
      BY <1>1, InitIs, SMTT(90) DEF Create, Index, AddBoth, AddTo, Do
    <2>7. Program(k) = P /\ (k = "init" <=> 24 = 24)
      BY <1>1
    <2> HIDE DEF P
    <2>8. Len(P) \in Nat \ {0} /\ (k = "init" <=> Len(P) = 24)
      BY <2>1, <2>7
    <2> QED BY <2>1, <2>2, <2>3, <2>4, <2>5, <2>6, <2>7, <2>8, <2>9
  <1>2. CASE k = "script"
    <2> DEFINE P == Program("script")
    <2>1. Len(P) = 7
      BY ScriptIs
    <2>2. \A i \in 1..7 : Shape(P[i])
      BY ScriptIs DEF Shape, AddBoth, AddTo, Do, Tables
    <2>3. \A i \in 1..7 : P[i].op = "commit" <=> i = 7
      BY ScriptIs DEF AddBoth, AddTo, Do
    <2>9. \A i \in 1..7 : P[i].op # "index"
      BY ScriptIs DEF AddBoth, AddTo, Do
    <2>4. \A i \in 1..7 : P[i].op = "insert" => k = "dao"
      BY <1>2, ScriptIs DEF AddBoth, AddTo, Do
    <2>5. \A i \in 1..7 : i < 7 => Follows(P[i], P[i + 1])
      BY ScriptIs DEF Follows, AddBoth, AddTo, Do
    <2>6. P[1].op \in {"create", "if_legacy", "add"} /\ (P[1].op = "add" => k = "dao")
      BY <1>2, ScriptIs DEF AddBoth, AddTo, Do
    <2>7. Program(k) = P /\ (k = "init" <=> 7 = 24)
      BY <1>2
    <2> HIDE DEF P
    <2>8. Len(P) \in Nat \ {0} /\ (k = "init" <=> Len(P) = 24)
      BY <2>1, <2>7
    <2> QED BY <2>1, <2>2, <2>3, <2>4, <2>5, <2>6, <2>7, <2>8, <2>9
  <1>3. CASE k = "dao"
    <2> DEFINE P == Program("dao")
    <2>1. Len(P) = 3
      BY DaoIs
    <2>2. \A i \in 1..3 : Shape(P[i])
      BY DaoIs DEF Shape, AddTo, Do, Tables
    <2>3. \A i \in 1..3 : P[i].op = "commit" <=> i = 3
      BY DaoIs DEF AddTo, Do
    <2>9. \A i \in 1..3 : P[i].op # "index"
      BY DaoIs DEF AddBoth, AddTo, Do
    <2>4. \A i \in 1..3 : P[i].op = "insert" => k = "dao"
      BY <1>3, DaoIs DEF AddTo, Do
    <2>5. \A i \in 1..3 : i < 3 => Follows(P[i], P[i + 1])
      BY DaoIs DEF Follows, AddTo, Do
    <2>6. P[1].op \in {"create", "if_legacy", "add"} /\ (P[1].op = "add" => k = "dao")
      BY <1>3, DaoIs DEF AddTo, Do
    <2>7. Program(k) = P /\ (k = "init" <=> 3 = 24)
      BY <1>3
    <2> HIDE DEF P
    <2>8. Len(P) \in Nat \ {0} /\ (k = "init" <=> Len(P) = 24)
      BY <2>1, <2>7
    <2> QED BY <2>1, <2>2, <2>3, <2>4, <2>5, <2>6, <2>7, <2>8, <2>9
  <1>4. CASE k = "rubric"
    <2> DEFINE P == Program("rubric")
    <2>1. Len(P) = 4
      BY RubricIs
    <2>2. \A i \in 1..4 : Shape(P[i])
      BY RubricIs DEF Shape, Create, AddTo, Do, Tables
    <2>3. \A i \in 1..4 : P[i].op = "commit" <=> i = 4
      BY RubricIs DEF Create, AddTo, Do
    <2>9. \A i \in 1..4 : P[i].op # "index"
      BY RubricIs DEF Create, AddTo, Do
    <2>4. \A i \in 1..4 : P[i].op = "insert" => k = "dao"
      BY <1>4, RubricIs DEF Create, AddTo, Do
    <2>5. \A i \in 1..4 : i < 4 => Follows(P[i], P[i + 1])
      BY RubricIs DEF Follows, Create, AddTo, Do
    <2>6. P[1].op \in {"create", "if_legacy", "add"} /\ (P[1].op = "add" => k = "dao")
      BY <1>4, RubricIs DEF Create, AddTo, Do
    <2>7. Program(k) = P /\ (k = "init" <=> 4 = 24)
      BY <1>4
    <2> HIDE DEF P
    <2>8. Len(P) \in Nat \ {0} /\ (k = "init" <=> Len(P) = 24)
      BY <2>1, <2>7
    <2> QED BY <2>1, <2>2, <2>3, <2>4, <2>5, <2>6, <2>7, <2>8, <2>9
  <1> QED BY <1>1, <1>2, <1>3, <1>4 DEF Kinds

(* The places in init_db the invariant names.                              *)
LEMMA InitPlaces ==
  /\ \A i \in 1..24 :
       /\ Program("init")[i].op = "seed" <=> i = 17
       /\ Program("init")[i].op = "if_legacy" <=> i = 18
       /\ Program("init")[i].op = "swap" <=> i = 23
       /\ Program("init")[i].op = "create" => i < 18
  /\ Program("init")[1] = Create("tasks") /\ Program("init")[6] = Create("rubrics")
  /\ Program("init")[8] = Index("rubrics", "fingerprint")
  /\ Program("init")[9] = AddBoth
  /\ \A t \in Tables \ {"tasks_new"} :
       \E i \in 1..16 : Program("init")[i].op = "create" /\ Program("init")[i].table = t
  <1>1. \A i \in 1..24 :
          /\ Program("init")[i].op = "seed" <=> i = 17
          /\ Program("init")[i].op = "if_legacy" <=> i = 18
          /\ Program("init")[i].op = "swap" <=> i = 23
    BY InitIs, SMTT(90) DEF Create, Index, AddBoth, AddTo, Do
  <1>2. \A i \in 1..24 : Program("init")[i].op = "create" => i < 18
    BY InitIs, SMTT(90) DEF Create, Index, AddBoth, AddTo, Do
  <1>3. /\ Program("init")[1] = Create("tasks") /\ Program("init")[6] = Create("rubrics")
        /\ Program("init")[8] = Index("rubrics", "fingerprint")
        /\ Program("init")[9] = AddBoth
    BY InitIs, SMTT(60)
  <1>4. ASSUME NEW t \in Tables \ {"tasks_new"}
        PROVE  \E i \in 1..16 : Program("init")[i].op = "create" /\ Program("init")[i].table = t
    <2>1. /\ Program("init")[1] = Create("tasks") /\ Program("init")[10] = Create("rubrics")
          /\ Program("init")[12] = Create("rubric_audit")
          /\ Program("init")[13] = Create("domain_split")
          /\ Program("init")[14] = Create("validation") /\ Program("init")[15] = Create("telemetry")
          /\ Program("init")[16] = Create("prompt_control")
      BY InitIs, SMTT(60)
    <2>2. PICK i \in 1..16 : Program("init")[i] = Create(t)
      BY <1>4, <2>1 DEF Tables
    <2>3. Create(t).op = "create" /\ Create(t).table = t
      BY DEF Create
    <2> QED BY <2>2, <2>3
  <1> QED BY <1>1, <1>2, <1>3, <1>4

LEMMA GrowsOn ==
  ASSUME NEW f, NEW g, NEW h, Grows(f, g), Grows(g, h)
  PROVE  Grows(f, h)
  BY DEF Grows, Tables

LEMMA ReadyGrows ==
  ASSUME NEW f, NEW g, Grows(f, g), Ready(f)
  PROVE  Ready(g)
  BY DEF Grows, Ready, Tables

LEMMA GrowsSelf == \A f : Grows(f, f)
  BY DEF Grows

(* What a process does leaves the others where they are.                   *)
LEMMA Bystanders ==
  ASSUME NEW q \in Procs, ProcessInv(q), Grows(db, db'), proc[q].kind \in Kinds,
         txn.by = q => UNCHANGED <<db, txn>>, txn'.by = q => txn.by = q,
         proc'[q].kind = proc[q].kind, proc'[q].state = proc[q].state,
         proc'[q].at = proc[q].at, proc'[q].read = proc[q].read, proc'[q].seen = proc[q].seen,
         proc'[q].alone => proc[q].alone /\ (Running(q) => db'.columns = db.columns)
  PROVE  ProcessInv(q)'
  <1>1. /\ Op(q)' = Op(q) /\ (Running(q)' <=> Running(q))
        /\ \A op : At(q, op)' <=> At(q, op)
    BY DEF Op, Running, At
  <1>2. /\ Grows(View(q), View(q)')
        /\ proc'[q].alone /\ Running(q) => View(q)'.columns = View(q).columns
    BY GrowsSelf DEF View
  <1>3. InitProgress(q)'
    <2>1. \A t \in Tables \ {"tasks_new"} :
            View(q).columns[t] # {} => View(q)'.columns[t] # {}
      BY <1>2 DEF Grows
    <2>2. ASSUME Running(q), proc[q].kind = "init"
          PROVE  /\ \A i \in 1..proc[q].at - 1 :
                      Program("init")[i].op = "create" =>
                        View(q)'.columns[Program("init")[i].table] # {}
                 /\ proc[q].at >= 9 => "fingerprint" \in View(q)'.columns["rubrics"]
                 /\ proc[q].at >= 10 => Younger \subseteq View(q)'.columns["tasks"]
                 /\ proc[q].at >= 18 => txn'.by = q
                 /\ proc[q].at = 24 => "legacy" \notin View(q)'.columns["tasks"]
      <3>1. /\ \A i \in 1..proc[q].at - 1 :
                  Program("init")[i].op = "create" =>
                    View(q).columns[Program("init")[i].table] # {}
            /\ proc[q].at >= 9 => "fingerprint" \in View(q).columns["rubrics"]
            /\ proc[q].at >= 10 => Younger \subseteq View(q).columns["tasks"]
            /\ proc[q].at >= 18 => txn.by = q
            /\ proc[q].at = 24 => "legacy" \notin View(q).columns["tasks"]
        BY <2>2 DEF ProcessInv, InitProgress
      <3>2. proc[q].at \in 1..24
        <4>1. Len(Program("init")) = 24
          BY InitIs, SMTT(60)
        <4> QED BY <2>2, <4>1 DEF ProcessInv
      <3>3. \A i \in 1..proc[q].at - 1 :
              Program("init")[i].op = "create" =>
                Program("init")[i].table \in Tables \ {"tasks_new"}
        <4>1. \A i \in 1..24 : Shape(Program("init")[i])
          BY ProgramShape, InitIs, SMTT(60) DEF Kinds
        <4> QED BY <3>2, <4>1 DEF Shape
      <3>4. /\ proc[q].at >= 9 => "fingerprint" \in View(q)'.columns["rubrics"]
            /\ proc[q].at >= 10 => Younger \subseteq View(q)'.columns["tasks"]
        BY <1>2, <3>1 DEF Grows
      <3>5. proc[q].at = 24 => txn'.by = q /\ txn' = txn
        BY <3>1
      <3> QED BY <2>1, <3>1, <3>3, <3>4, <3>5 DEF View
    <2> QED BY <1>1, <2>2 DEF InitProgress
  <1>4. SeenStands(q)'
    <2>1. \A c \in Younger : c \in View(q).columns["tasks"] => c \in View(q)'.columns["tasks"]
      BY <1>2 DEF Grows
    <2> QED BY <1>1, <2>1 DEF SeenStands, ProcessInv
  <1>5. SwapFollowsCopy(q)'
    BY <1>1 DEF SwapFollowsCopy, ProcessInv
  <1>6. TableStands(q)'
    <2>1. ASSUME Running(q), proc[q].kind # "dao",
                 Op(q).op \in {"add", "drop_new", "create_new", "copy"}
          PROVE  View(q)'.columns[Op(q).table] # {}
      <3>1. View(q).columns[Op(q).table] # {}
        BY <2>1 DEF TableStands, ProcessInv
      <3>2. Op(q).table \in Tables \ {"tasks_new"}
        <4>1. Shape(Op(q))
          BY ProgramShape DEF Op, ProcessInv
        <4> QED BY <4>1 DEF Shape
      <3> QED BY <1>2, <3>1, <3>2 DEF Grows
    <2>2. ASSUME proc'[q].alone
          PROVE  /\ At(q, "add") /\ proc[q].read => proc[q].seen = View(q)'.columns[Op(q).table]
                 /\ At(q, "create_new") => View(q)'.columns["tasks_new"] = {}
                 /\ At(q, "copy") => View(q)'.columns["tasks_new"] # {}
      <3>1. proc[q].alone /\ \A op : At(q, op) => Running(q)
        BY <2>2 DEF At, Running
      <3> QED BY <1>2, <2>2, <3>1 DEF TableStands, ProcessInv
    <2> QED BY <1>1, <2>1, <2>2 DEF TableStands
  <1>7. Outcome(q)'
    <2>1. Ready(db) => Ready(db')
      BY ReadyGrows
    <2> QED BY <2>1 DEF Outcome, ProcessInv, Ready
  <1> QED BY <1>3, <1>4, <1>5, <1>6, <1>7 DEF ProcessInv

(* A step of one process: what is left to show is where it stands after.   *)
LEMMA StepOf ==
  ASSUME SchemaInv, NEW p \in Procs, NEW self \in ProcRecords,
         \/ Moves(p, self)
         \/ proc' = [proc EXCEPT ![p] = self] /\ db' = db,
         txn.by \in {p, NoOne} \/ UNCHANGED <<db, txn>>,
         txn'.by \in {p, NoOne} \/ UNCHANGED <<db, txn>>,
         FileIsSound(db'), Grows(db, db'),
         txn' \in [by : Procs \cup {NoOne}, view : Files], FileIsSound(txn'.view),
         txn'.by = p => self.state = "running" /\ Grows(db', txn'.view)
  PROVE  proc'[p] = self /\ (ProcessInv(p)' => SchemaInv')
  <1>0. /\ NoOne \notin Procs /\ proc \in [Procs -> ProcRecords] /\ FilesInv
        /\ \A q \in Procs : ProcessInv(q)
    BY SchemaAssumption DEF SchemaAssumption, NoOne, SchemaInv
  <1>1. /\ proc' \in [Procs -> ProcRecords] /\ proc'[p] = self
        /\ \A q \in Procs \ {p} :
             /\ proc'[q].kind = proc[q].kind /\ proc'[q].state = proc[q].state
             /\ proc'[q].at = proc[q].at /\ proc'[q].read = proc[q].read
             /\ proc'[q].seen = proc[q].seen
             /\ proc'[q].alone => proc[q].alone /\ (Running(q) => db'.columns = db.columns)
    <2>1. CASE proc' = [proc EXCEPT ![p] = self] /\ db' = db
      BY <1>0, <2>1
    <2>2. CASE Moves(p, self)
      <3> DEFINE Other(q) == [proc[q] EXCEPT !.alone =
                   @ /\ (db'.columns = db.columns \/ proc[q].state # "running")]
      <3>1. ASSUME NEW q \in Procs
            PROVE  /\ Other(q) \in ProcRecords
                   /\ Other(q).kind = proc[q].kind /\ Other(q).state = proc[q].state
                   /\ Other(q).at = proc[q].at /\ Other(q).read = proc[q].read
                   /\ Other(q).seen = proc[q].seen
                   /\ Other(q).alone => proc[q].alone /\ (Running(q) => db'.columns = db.columns)
        <4>1. PICK a \in BOOLEAN :
                a <=> proc[q].alone /\ (db'.columns = db.columns \/ proc[q].state # "running")
          OBVIOUS
        <4>2. proc[q] \in ProcRecords
          BY <1>0
        <4>3. Other(q) = [proc[q] EXCEPT !.alone = a]
          BY <4>1, <4>2
        <4>4. [proc[q] EXCEPT !.alone = a] \in ProcRecords
          BY <4>2 DEF ProcRecords
        <4> QED BY <4>1, <4>2, <4>3, <4>4 DEF ProcRecords, Running
      <3>2. proc' = [q \in Procs |-> IF q = p THEN self ELSE Other(q)]
        BY <2>2 DEF Moves
      <3> HIDE DEF Other
      <3> QED BY <3>1, <3>2
    <2> QED BY <2>1, <2>2
  <1>2. ASSUME NEW q \in Procs \ {p} PROVE ProcessInv(q)'
    <2>1. /\ txn.by = q => UNCHANGED <<db, txn>>
          /\ txn'.by = q => txn.by = q
      BY <1>0, <1>2
    <2>2. proc[q].kind \in Kinds /\ ProcessInv(q)
      BY <1>0 DEF ProcRecords
    <2> QED BY <1>1, <2>1, <2>2, Bystanders
  <1>3. FilesInv'
    <2>1. ASSUME txn'.by \in Procs PROVE proc'[txn'.by].state = "running" /\ Grows(db', txn'.view)
      <3>1. CASE txn'.by = p
        BY <1>1, <3>1
      <3>2. CASE txn'.by # p
        <4>1. UNCHANGED <<db, txn>> /\ txn.by \in Procs \ {p}
          BY <1>0, <2>1, <3>2
        <4> QED BY <1>0, <1>1, <4>1 DEF FilesInv
      <3> QED BY <3>1, <3>2
    <2> QED BY <2>1 DEF FilesInv
  <1> QED BY <1>1, <1>2, <1>3 DEF SchemaInv

(* DDL.                                                                    *)
LEMMA DefineDoes ==
  ASSUME SchemaInv, NEW p \in Procs, NEW self \in ProcRecords, NEW disk,
         Define(p, disk, self), FileIsSound(disk), Grows(View(p), disk),
         self.state = "running"
  PROVE  /\ proc'[p] = self /\ (ProcessInv(p)' => SchemaInv')
         /\ View(p)' = disk /\ txn'.by = txn.by
  <1>0. /\ NoOne \notin Procs /\ FilesInv /\ txn.by \in {p, NoOne} /\ disk \in Files
        /\ txn \in [by : Procs \cup {NoOne}, view : Files] /\ Moves(p, self)
    BY SchemaAssumption DEF SchemaAssumption, NoOne, SchemaInv, FilesInv, Define, MayWrite,
      FileIsSound
  <1>1. CASE txn.by = p
    <2>1. /\ txn' = [txn EXCEPT !.view = disk] /\ db' = db
      BY <1>1 DEF Define
    <2>2. txn'.by = p /\ txn'.view = disk /\ txn' \in [by : Procs \cup {NoOne}, view : Files]
      BY <1>0, <1>1, <2>1
    <2>3. Grows(db, disk) /\ Grows(db, db')
      BY <1>0, <1>1, <2>1, GrowsOn, GrowsSelf DEF View, FilesInv
    <2>4. proc'[p] = self /\ (ProcessInv(p)' => SchemaInv')
      BY <1>0, <1>1, <2>1, <2>2, <2>3, StepOf DEF FilesInv
    <2> QED BY <1>1, <2>2, <2>4 DEF View
  <1>2. CASE txn.by # p
    <2>1. db' = disk /\ txn' = txn /\ txn.by = NoOne
      BY <1>0, <1>2 DEF Define
    <2>2. Grows(db, db') /\ txn'.by # p
      BY <1>0, <1>2, <2>1 DEF View
    <2>3. proc'[p] = self /\ (ProcessInv(p)' => SchemaInv')
      BY <1>0, <2>1, <2>2, StepOf DEF FilesInv
    <2> QED BY <2>1, <2>2, <2>3 DEF View
  <1> QED BY <1>1, <1>2

(* A statement that writes rows: the transaction is open after it.         *)
LEMMA ModifyDoes ==
  ASSUME SchemaInv, NEW p \in Procs, NEW disk, Modify(p, disk), FileIsSound(disk),
         Grows(View(p), disk), Advance(p) \in ProcRecords, Advance(p).state = "running"
  PROVE  /\ proc'[p] = Advance(p) /\ (ProcessInv(p)' => SchemaInv')
         /\ View(p)' = disk /\ txn'.by = p /\ txn'.view = disk
  <1>0. /\ NoOne \notin Procs /\ FilesInv /\ txn.by \in {p, NoOne} /\ disk \in Files
        /\ Moves(p, Advance(p)) /\ txn' = [by |-> p, view |-> disk] /\ db' = db
    BY SchemaAssumption DEF SchemaAssumption, NoOne, SchemaInv, FilesInv, Modify, MayWrite,
      FileIsSound
  <1>1. txn'.by = p /\ txn'.view = disk /\ txn' \in [by : Procs \cup {NoOne}, view : Files]
    BY <1>0
  <1>2. Grows(db, db') /\ Grows(db', disk)
    <2>1. Grows(db, View(p))
      BY <1>0, GrowsSelf DEF View, FilesInv
    <2> QED BY <1>0, <2>1, GrowsOn, GrowsSelf
  <1>3. proc'[p] = Advance(p) /\ (ProcessInv(p)' => SchemaInv')
    <2> DEFINE self == Advance(p)
    <2> HIDE DEF self
    <2>1. self \in ProcRecords /\ self.state = "running" /\ Moves(p, self)
      BY <1>0 DEF self
    <2>2. proc'[p] = self /\ (ProcessInv(p)' => SchemaInv')
      BY <1>0, <1>1, <1>2, <2>1, StepOf DEF FilesInv
    <2> QED BY <2>2 DEF self
  <1> QED BY <1>1, <1>3 DEF View

(* The process ends, or begins again, and a transaction of its own is      *)
(* rolled back.                                                            *)
LEMMA EndDoes ==
  ASSUME SchemaInv, NEW p \in Procs, NEW self \in ProcRecords,
         \/ Moves(p, self)
         \/ proc' = [proc EXCEPT ![p] = self],
         db' = db, txn' = IF txn.by = p THEN NoTransaction ELSE txn
  PROVE  proc'[p] = self /\ txn'.by # p /\ (ProcessInv(p)' => SchemaInv')
  <1>0. /\ NoOne \notin Procs /\ FilesInv /\ FileIsSound(db) /\ FileIsSound(txn.view)
        /\ txn \in [by : Procs \cup {NoOne}, view : Files]
    BY SchemaAssumption DEF SchemaAssumption, NoOne, SchemaInv, FilesInv
  <1>1. FileIsSound(NoFile) /\ NoFile \in Files
    BY DEF FileIsSound, NoFile, Files, Tables
  <1>2. /\ txn' \in [by : Procs \cup {NoOne}, view : Files] /\ FileIsSound(txn'.view)
        /\ txn'.by # p /\ (txn.by \in {p, NoOne} \/ UNCHANGED <<db, txn>>)
        /\ txn'.by \in {p, NoOne} \/ UNCHANGED <<db, txn>>
    <2>1. CASE txn.by = p
      BY <1>0, <1>1, <2>1 DEF NoTransaction
    <2>2. CASE txn.by # p
      BY <1>0, <2>2
    <2> QED BY <2>1, <2>2
  <1>3. Grows(db, db')
    BY GrowsSelf
  <1>4. Moves(p, self) \/ (proc' = [proc EXCEPT ![p] = self] /\ db' = db)
    OBVIOUS
  <1> QED BY <1>0, <1>2, <1>3, <1>4, StepOf

LEMMA AdvanceIs ==
  ASSUME SchemaInv, NEW p \in Procs, Running(p), Op(p).op # "commit"
  PROVE  /\ Advance(p) \in ProcRecords
         /\ Advance(p).state = "running" /\ Advance(p).kind = proc[p].kind
         /\ Advance(p).at = proc[p].at + 1 /\ Advance(p).read = FALSE
         /\ Advance(p).alone = proc[p].alone
         /\ proc[p].at \in Nat /\ proc[p].at + 1 \in 1..Len(Program(proc[p].kind))
         /\ proc[p].kind \in Kinds /\ Shape(Op(p))
         /\ Follows(Op(p), Program(proc[p].kind)[proc[p].at + 1])
  <1>1. /\ proc[p] \in ProcRecords /\ proc[p].state = "running" /\ proc[p].kind \in Kinds
        /\ proc[p].at \in 1..Len(Program(proc[p].kind))
    BY DEF SchemaInv, ProcessInv, Running, ProcRecords
  <1>2. /\ Len(Program(proc[p].kind)) \in Nat /\ Shape(Op(p))
        /\ proc[p].at # Len(Program(proc[p].kind))
        /\ proc[p].at < Len(Program(proc[p].kind)) =>
             Follows(Op(p), Program(proc[p].kind)[proc[p].at + 1])
    BY <1>1, ProgramShape DEF Op
  <1>3. proc[p].at \in Nat /\ proc[p].at + 1 \in 1..Len(Program(proc[p].kind))
    BY <1>1, <1>2
  <1>4. /\ Advance(p) \in ProcRecords
        /\ Advance(p).state = "running" /\ Advance(p).kind = proc[p].kind
        /\ Advance(p).at = proc[p].at + 1 /\ Advance(p).read = FALSE
        /\ Advance(p).alone = proc[p].alone
    <2> DEFINE n == proc[p].at + 1
    <2>1. n \in Nat /\ Advance(p) = [proc[p] EXCEPT !.at = n, !.read = FALSE, !.seen = {}]
      BY <1>1, <1>3 DEF Advance
    <2> HIDE DEF n
    <2>2. [proc[p] EXCEPT !.at = n, !.read = FALSE, !.seen = {}] \in ProcRecords
      BY <1>1, <2>1 DEF ProcRecords
    <2>3. /\ Advance(p).state = "running" /\ Advance(p).kind = proc[p].kind
          /\ Advance(p).at = n /\ Advance(p).read = FALSE
          /\ Advance(p).alone = proc[p].alone
      BY <1>1, <2>1 DEF ProcRecords
    <2> QED BY <2>1, <2>2, <2>3 DEF n
  <1> QED BY <1>1, <1>2, <1>3, <1>4

(* From one statement to the next: what each kind of statement owes.       *)
LEMMA Advances ==
  ASSUME SchemaInv, NEW p \in Procs, Running(p), Op(p).op # "commit",
         proc'[p] = Advance(p), Grows(View(p), View(p)'),
         txn.by = p => txn'.by = p,
         Op(p).op \in {"create", "if_legacy"} => View(p)'.columns[Op(p).table] # {},
         Op(p).op = "index" => "fingerprint" \in View(p)'.columns["rubrics"],
         Op(p).op = "add" /\ Op(p).adds = <<"celery", "teacher">> =>
           Younger \subseteq View(p)'.columns["tasks"],
         Op(p).op = "seed" => txn'.by = p,
         Op(p).op = "drop_new" /\ proc[p].alone => View(p)'.columns["tasks_new"] = {},
         Op(p).op = "create_new" /\ proc[p].alone => View(p)'.columns["tasks_new"] # {},
         Op(p).op = "copy" =>
           /\ txn'.by = p /\ txn'.view.rows \subseteq txn'.view.copy
           /\ txn'.view.columns["tasks_new"] # {},
         Op(p).op = "swap" => "legacy" \notin View(p)'.columns["tasks"]
  PROVE  ProcessInv(p)'
  <1> DEFINE at == proc[p].at
             k == proc[p].kind
             s == Op(p)
             nx == Program(k)[at + 1]
  <1>0. /\ proc'[p].state = "running" /\ proc'[p].kind = k /\ proc'[p].at = at + 1
        /\ proc'[p].read = FALSE /\ proc'[p].alone = proc[p].alone
        /\ at \in Nat /\ at + 1 \in 1..Len(Program(k)) /\ k \in Kinds /\ Shape(s) /\ Follows(s, nx)
        /\ at \in 1..Len(Program(k)) /\ Len(Program(k)) \in Nat
        /\ s = Program(k)[at]
    <2>1. Len(Program(k)) \in Nat
      BY AdvanceIs, ProgramShape
    <2>2. proc'[p] = Advance(p) /\ at \in 1..Len(Program(k))
      BY DEF SchemaInv, ProcessInv
    <2>3. s = Program(k)[at]
      BY DEF Op
    <2> QED BY <2>1, <2>2, <2>3, AdvanceIs
  <1>1. /\ Op(p)' = nx /\ Running(p)'
        /\ \A op : At(p, op)' <=> nx.op = op
    BY <1>0 DEF Op, Running, At
  <1>2. ProcessInv(p)
    BY DEF SchemaInv
  <1>3. InitProgress(p)'
    <2> SUFFICES ASSUME k = "init"
                 PROVE  /\ \A i \in 1..at :
                             Program("init")[i].op = "create" =>
                               View(p)'.columns[Program("init")[i].table] # {}
                        /\ at + 1 >= 9 => "fingerprint" \in View(p)'.columns["rubrics"]
                        /\ at + 1 >= 10 => Younger \subseteq View(p)'.columns["tasks"]
                        /\ at + 1 >= 18 => txn'.by = p
                        /\ at + 1 = 24 => "legacy" \notin View(p)'.columns["tasks"]
      BY <1>0, <1>1 DEF InitProgress
    <2>1. /\ \A i \in 1..at - 1 :
               Program("init")[i].op = "create" =>
                 View(p).columns[Program("init")[i].table] # {}
          /\ at >= 9 => "fingerprint" \in View(p).columns["rubrics"]
          /\ at >= 10 => Younger \subseteq View(p).columns["tasks"]
          /\ at >= 18 => txn.by = p
      BY <1>2 DEF ProcessInv, InitProgress
    <2>2. /\ Len(Program("init")) = 24 /\ at \in 1..24 /\ s = Program("init")[at]
          /\ \A i \in 1..24 : Shape(Program("init")[i])
      <3>1. Len(Program("init")) = 24
        BY InitIs, SMTT(60)
      <3> QED BY <1>0, <3>1, ProgramShape DEF Kinds
    <2>3. ASSUME NEW i \in 1..at, Program("init")[i].op = "create"
          PROVE  View(p)'.columns[Program("init")[i].table] # {}
      <3>1. CASE i = at
        BY <2>2, <2>3, <3>1
      <3>2. CASE i # at
        <4>1. i \in 1..at - 1 /\ i \in 1..24
          <5>1. at \in Nat /\ at \in 1..24
            BY <1>0, <2>2
          <5> HIDE DEF at
          <5> QED BY <3>2, <5>1
        <4>2. Program("init")[i].table \in Tables \ {"tasks_new"}
          BY <2>2, <2>3, <4>1 DEF Shape
        <4>3. View(p).columns[Program("init")[i].table] # {}
          BY <2>1, <2>3, <4>1
        <4> QED BY <4>2, <4>3 DEF Grows
      <3> QED BY <3>1, <3>2
    <2>7. at + 1 >= 9 => "fingerprint" \in View(p)'.columns["rubrics"]
      <3>1. CASE at = 8
        <4>1. s.op = "index"
          BY <2>2, <3>1, InitPlaces DEF Index
        <4> QED BY <4>1
      <3>2. CASE at >= 9
        BY <2>1, <3>2 DEF Grows
      <3> QED BY <1>0, <3>1, <3>2
    <2>4. at + 1 >= 10 => Younger \subseteq View(p)'.columns["tasks"]
      <3>1. CASE at = 9
        <4>1. s.op = "add" /\ s.adds = <<"celery", "teacher">>
          BY <2>2, <3>1, InitPlaces DEF AddBoth, AddTo
        <4> QED BY <4>1
      <3>2. CASE at >= 10
        BY <2>1, <3>2 DEF Grows
      <3> QED BY <1>0, <3>1, <3>2
    <2>5. at + 1 >= 18 => txn'.by = p
      <3>1. CASE at = 17
        BY <2>2, <3>1, InitPlaces
      <3>2. CASE at >= 18
        BY <2>1, <3>2
      <3> QED BY <1>0, <3>1, <3>2
    <2>6. at + 1 = 24 => "legacy" \notin View(p)'.columns["tasks"]
      <3> SUFFICES ASSUME at = 23 PROVE s.op = "swap"
        BY <1>0
      <3> QED BY <2>2, InitPlaces
    <2> QED BY <2>3, <2>4, <2>5, <2>6, <2>7
  <1>4. SeenStands(p)'
    BY <1>0 DEF SeenStands
  <1>5. SwapFollowsCopy(p)'
    BY <1>0, <1>1 DEF SwapFollowsCopy, Follows
  <1>6. TableStands(p)'
    <2>1. ASSUME k # "dao", nx.op \in {"add", "drop_new", "create_new", "copy"}
          PROVE  View(p)'.columns[nx.table] # {}
      <3>0. Shape(nx)
        BY <1>0, ProgramShape
      <3>1. CASE nx.op = "add" /\ s.op # "index"
        <4>1. s.op \in {"create", "if_legacy"} /\ s.table = nx.table
          BY <1>0, <3>1 DEF Follows, Shape
        <4> QED BY <4>1
      <3>3. CASE nx.op = "add" /\ s.op = "index"
        <4>1. nx.table = "tasks" /\ k = "init" /\ at = 8
          <5>1. k = "init" /\ at = 8
            BY <1>0, <3>3, ProgramShape
          <5> QED BY <1>0, <3>3, <5>1 DEF Follows
        <4>2. View(p)'.columns[Program("init")[1].table] # {}
          <5>1. Program("init")[1].op = "create" /\ 1 \in 1..8
            BY InitPlaces DEF Create
          <5>2. proc'[p].at - 1 = 8
            BY <1>0, <4>1
          <5> QED BY <1>0, <1>1, <1>3, <4>1, <5>1, <5>2 DEF InitProgress
        <4> QED BY <4>1, <4>2, InitPlaces DEF Create
      <3>2. CASE nx.op \in {"drop_new", "create_new", "copy"}
        <4>1. s.op \in {"add", "drop_new", "create_new"} /\ s.table = "tasks" /\ nx.table = "tasks"
          BY <1>0, <3>0, <3>2 DEF Follows, Shape
        <4>2. View(p).columns["tasks"] # {}
          BY <1>2, <2>1, <4>1 DEF ProcessInv, TableStands
        <4> QED BY <4>1, <4>2 DEF Grows, Tables
      <3> QED BY <2>1, <3>1, <3>2, <3>3
    <2>2. ASSUME proc[p].alone
          PROVE  /\ nx.op = "create_new" => View(p)'.columns["tasks_new"] = {}
                 /\ nx.op = "copy" => View(p)'.columns["tasks_new"] # {}
      BY <1>0, <2>2 DEF Follows
    <2> QED BY <1>0, <1>1, <2>1, <2>2 DEF TableStands
  <1>7. Outcome(p)'
    BY <1>0 DEF Outcome
  <1> QED BY <1>0, <1>3, <1>4, <1>5, <1>6, <1>7 DEF ProcessInv

(* DDL and the next statement.                                             *)
LEMMA DefineAdvance ==
  ASSUME SchemaInv, NEW p \in Procs, NEW disk, Running(p), Define(p, disk, Advance(p)),
         FileIsSound(disk), Grows(View(p), disk),
         Op(p).op \in {"create", "index", "drop_new", "create_new", "swap"},
         Op(p).op = "create" => disk.columns[Op(p).table] # {},
         Op(p).op = "index" => "fingerprint" \in disk.columns["rubrics"],
         Op(p).op = "drop_new" => disk.columns["tasks_new"] = {},
         Op(p).op = "create_new" => disk.columns["tasks_new"] # {},
         Op(p).op = "swap" => "legacy" \notin disk.columns["tasks"]
  PROVE  SchemaInv'
  <1>1. Advance(p) \in ProcRecords /\ Advance(p).state = "running"
    BY AdvanceIs
  <1>2. /\ proc'[p] = Advance(p) /\ (ProcessInv(p)' => SchemaInv')
        /\ View(p)' = disk /\ txn'.by = txn.by
    <2> DEFINE self == Advance(p)
    <2>1. self \in ProcRecords /\ self.state = "running" /\ Define(p, disk, self)
      BY <1>1
    <2> HIDE DEF self
    <2>2. /\ proc'[p] = self /\ (ProcessInv(p)' => SchemaInv')
          /\ View(p)' = disk /\ txn'.by = txn.by
      BY <2>1, DefineDoes
    <2> QED BY <2>2 DEF self
  <1>3. /\ Grows(View(p), View(p)') /\ (txn.by = p => txn'.by = p)
        /\ Op(p).op = "create" => View(p)'.columns[Op(p).table] # {}
        /\ Op(p).op = "index" => "fingerprint" \in View(p)'.columns["rubrics"]
        /\ Op(p).op = "drop_new" => View(p)'.columns["tasks_new"] = {}
        /\ Op(p).op = "create_new" => View(p)'.columns["tasks_new"] # {}
        /\ Op(p).op = "swap" => "legacy" \notin View(p)'.columns["tasks"]
    BY <1>2
  <1>4. ProcessInv(p)'
    BY <1>2, <1>3, Advances
  <1> QED BY <1>2, <1>4

(* A write of rows and the next statement.                                 *)
LEMMA ModifyAdvance ==
  ASSUME SchemaInv, NEW p \in Procs, NEW disk, Running(p), Modify(p, disk),
         FileIsSound(disk), Grows(View(p), disk), Op(p).op \in {"seed", "copy", "insert"},
         Op(p).op = "copy" => disk.rows \subseteq disk.copy /\ disk.columns["tasks_new"] # {}
  PROVE  SchemaInv'
  <1>1. Advance(p) \in ProcRecords /\ Advance(p).state = "running"
    BY AdvanceIs
  <1>2. /\ proc'[p] = Advance(p) /\ (ProcessInv(p)' => SchemaInv')
        /\ View(p)' = disk /\ txn'.by = p /\ txn'.view = disk
    BY <1>1, ModifyDoes
  <1>3. /\ Grows(View(p), View(p)')
        /\ Op(p).op = "copy" =>
             /\ txn'.by = p /\ txn'.view.rows \subseteq txn'.view.copy
             /\ txn'.view.columns["tasks_new"] # {}
    BY <1>2
  <1>4. ProcessInv(p)'
    BY <1>2, <1>3, Advances
  <1> QED BY <1>2, <1>4

(* A statement of its own to read the columns, and one for each column.    *)
LEMMA StaysAt ==
  ASSUME SchemaInv, NEW p \in Procs, Running(p), Op(p).op = "add",
         proc'[p].state = "running", proc'[p].kind = proc[p].kind, proc'[p].at = proc[p].at,
         proc'[p].alone = proc[p].alone, Grows(View(p), View(p)'),
         txn.by = p => txn'.by = p,
         proc'[p].read /\ Op(p).table = "tasks" =>
           \A c \in Younger : c \in proc'[p].seen => c \in View(p)'.columns["tasks"],
         proc'[p].read /\ proc[p].alone => proc'[p].seen = View(p)'.columns[Op(p).table]
  PROVE  ProcessInv(p)'
  <1>0. /\ ProcessInv(p) /\ proc[p].at \in 1..Len(Program(proc[p].kind))
        /\ Op(p)' = Op(p) /\ Running(p)' /\ Shape(Op(p)) /\ proc[p].at \in Nat
    BY AdvanceIs DEF SchemaInv, ProcessInv, Op, Running
  <1>1. InitProgress(p)'
    <2> SUFFICES ASSUME proc[p].kind = "init"
                 PROVE  /\ \A i \in 1..proc[p].at - 1 :
                             Program("init")[i].op = "create" =>
                               View(p)'.columns[Program("init")[i].table] # {}
                        /\ proc[p].at >= 9 => "fingerprint" \in View(p)'.columns["rubrics"]
                        /\ proc[p].at >= 10 => Younger \subseteq View(p)'.columns["tasks"]
                        /\ proc[p].at >= 18 => txn'.by = p
                        /\ proc[p].at # 24
      BY DEF InitProgress
    <2>1. /\ \A i \in 1..proc[p].at - 1 :
               Program("init")[i].op = "create" =>
                 View(p).columns[Program("init")[i].table] # {}
          /\ proc[p].at >= 9 => "fingerprint" \in View(p).columns["rubrics"]
          /\ proc[p].at >= 10 => Younger \subseteq View(p).columns["tasks"]
          /\ proc[p].at >= 18 => txn.by = p
      BY <1>0 DEF ProcessInv, InitProgress
    <2>2. /\ Len(Program("init")) = 24 /\ proc[p].at \in 1..24
          /\ \A i \in 1..24 : Shape(Program("init")[i])
      <3>1. Len(Program("init")) = 24
        BY InitIs, SMTT(60)
      <3> QED BY <1>0, <3>1, ProgramShape DEF Kinds
    <2>3. proc[p].at # 24
      BY <2>2, ProgramShape DEF Op, Kinds
    <2>4. \A i \in 1..proc[p].at - 1 :
            i \in 1..24 /\ (Program("init")[i].op = "create" =>
                              Program("init")[i].table \in Tables \ {"tasks_new"})
      BY <2>2 DEF Shape
    <2> QED BY <2>1, <2>3, <2>4 DEF Grows
  <1>2. SeenStands(p)'
    BY <1>0 DEF SeenStands
  <1>3. SwapFollowsCopy(p)'
    BY <1>0 DEF SwapFollowsCopy, At
  <1>4. TableStands(p)'
    <2>1. proc[p].kind # "dao" => View(p)'.columns[Op(p).table] # {}
      <3>1. proc[p].kind # "dao" => View(p).columns[Op(p).table] # {}
        BY <1>0 DEF ProcessInv, TableStands
      <3>2. Op(p).table \in Tables \ {"tasks_new"}
        BY <1>0 DEF Shape
      <3> QED BY <3>1, <3>2 DEF Grows
    <2> QED BY <1>0, <2>1 DEF TableStands, At
  <1>5. Outcome(p)'
    BY DEF Outcome
  <1> QED BY <1>0, <1>1, <1>2, <1>3, <1>4, <1>5 DEF ProcessInv

LEMMA Restarts ==
  ASSUME NEW p \in Procs, proc'[p] \in ProcRecords, proc'[p].at = 1, proc'[p].read = FALSE,
         proc'[p].state # "done"
  PROVE  ProcessInv(p)'
  <1> DEFINE k == proc'[p].kind
             first == Program(k)[1]
  <1>1. /\ k \in Kinds /\ 1 \in 1..Len(Program(k)) /\ Op(p)' = first
        /\ first.op \in {"create", "if_legacy", "add"} /\ (first.op = "add" => k = "dao")
        /\ first.op = "commit" <=> 1 = Len(Program(k))
    <2>1. k \in Kinds
      BY DEF ProcRecords
    <2>2. Len(Program(k)) \in Nat \ {0}
      BY <2>1, ProgramShape
    <2>3. 1 \in 1..Len(Program(k))
      BY <2>2
    <2> QED BY <2>1, <2>3, ProgramShape DEF Op
  <1>2. InitProgress(p)'
    BY <1>1 DEF InitProgress
  <1>3. SeenStands(p)' /\ SwapFollowsCopy(p)' /\ TableStands(p)' /\ Outcome(p)'
    BY <1>1 DEF SeenStands, SwapFollowsCopy, TableStands, Outcome, At
  <1> QED BY <1>1, <1>2, <1>3 DEF ProcessInv

LEMMA JumpIs ==
  ASSUME SchemaInv, NEW p \in Procs, NEW n \in Nat
  PROVE  /\ Jump(p, n) \in ProcRecords /\ Jump(p, n).at = n /\ Jump(p, n).read = FALSE
         /\ Jump(p, n).state = proc[p].state /\ Jump(p, n).kind = proc[p].kind
         /\ Jump(p, n).alone = proc[p].alone
  BY DEF SchemaInv, Jump, ProcRecords

LEMMA FailsKeeps ==
  ASSUME SchemaInv, NEW p \in Procs, Fails(p)
  PROVE  SchemaInv'
  <1> DEFINE self == [Jump(p, 1) EXCEPT !.state = "failed"]
  <1>1. self \in ProcRecords /\ self.at = 1 /\ self.read = FALSE /\ self.state = "failed"
    <2> DEFINE j == Jump(p, 1)
    <2>1. j \in ProcRecords /\ j.at = 1 /\ j.read = FALSE
      BY JumpIs
    <2> HIDE DEF j
    <2>2. /\ [j EXCEPT !.state = "failed"] \in ProcRecords
          /\ [j EXCEPT !.state = "failed"].at = 1 /\ [j EXCEPT !.state = "failed"].read = FALSE
          /\ [j EXCEPT !.state = "failed"].state = "failed"
      BY <2>1 DEF ProcRecords
    <2> QED BY <2>2 DEF j
  <1>2. Moves(p, self) /\ db' = db /\ txn' = IF txn.by = p THEN NoTransaction ELSE txn
    BY DEF Fails
  <1> HIDE DEF self
  <1>3. proc'[p] = self /\ (ProcessInv(p)' => SchemaInv')
    BY <1>1, <1>2, EndDoes
  <1> QED BY <1>1, <1>3, Restarts

LEMMA SchemaSteps == SchemaInv /\ [SchemaNext]_schemaVars => SchemaInv'
  <1> SUFFICES ASSUME SchemaInv, [SchemaNext]_schemaVars PROVE SchemaInv'
    OBVIOUS
  <1>0. /\ NoOne \notin Procs /\ proc \in [Procs -> ProcRecords] /\ FilesInv
        /\ FileIsSound(db) /\ FileIsSound(txn.view)
        /\ txn \in [by : Procs \cup {NoOne}, view : Files]
        /\ \A p \in Procs : ProcessInv(p) /\ proc[p] \in ProcRecords
    BY SchemaAssumption DEF SchemaAssumption, NoOne, SchemaInv, FilesInv
  <1>1. ASSUME NEW p \in Procs
        PROVE  FileIsSound(View(p)) /\ Grows(db, View(p)) /\ View(p) \in Files
    BY <1>0, GrowsSelf DEF View, FilesInv, FileIsSound
  <1>2. ASSUME NEW p \in Procs, Running(p), Op(p).op # "commit"
        PROVE  /\ Shape(Op(p)) /\ proc[p].at \in Nat /\ Op(p).table \in Tables \ {"tasks_new"}
               /\ Op(p).op \notin {"create", "index", "add"} => Op(p).table = "tasks"
    BY <1>2, AdvanceIs DEF Shape
  <1>3. ASSUME NEW p \in Procs, CreateTable(p) PROVE SchemaInv'
    <2> DEFINE t == Op(p).table
               disk == IF View(p).columns[t] # {} THEN View(p)
                       ELSE [View(p) EXCEPT !.columns[t] = NewColumns(t)]
    <2>1. Running(p) /\ Op(p).op = "create" /\ Define(p, disk, Advance(p))
      BY <1>3 DEF CreateTable, At, Running
    <2>2. t \in Tables \ {"tasks_new"}
      BY <1>2, <2>1
    <2>3. FileIsSound(disk) /\ Grows(View(p), disk) /\ disk.columns[t] # {}
      <3>1. CASE View(p).columns[t] # {}
        BY <1>1, <3>1, GrowsSelf
      <3>2. CASE View(p).columns[t] = {}
        <4>1. disk = [View(p) EXCEPT !.columns[t] = NewColumns(t)]
          BY <3>2
        <4>2. /\ View(p).columns \in [Tables -> SUBSET Columns]
              /\ NewColumns(t) \in SUBSET Columns /\ NewColumns(t) # {} /\ "id" \in NewColumns(t)
              /\ t = "tasks" => NewColumns(t) = {"id", "celery"}
              /\ t = "rubrics" => NewColumns(t) = {"id", "fingerprint"}
          BY <1>1 DEF Files, NewColumns, Columns
        <4>3. /\ disk \in Files /\ disk.rows = View(p).rows
              /\ disk.columns[t] = NewColumns(t)
              /\ \A u \in Tables : u # t => disk.columns[u] = View(p).columns[u]
          <5> HIDE DEF disk, t
          <5> QED BY <1>1, <2>2, <4>1, <4>2 DEF Files
        <4> HIDE DEF disk, t
        <4>4. FileIsSound(disk)
          BY <1>1, <2>2, <4>2, <4>3 DEF FileIsSound, Tables
        <4>5. Grows(View(p), disk)
          BY <2>2, <3>2, <4>2, <4>3 DEF Grows, Tables
        <4> QED BY <4>2, <4>3, <4>4, <4>5
      <3> QED BY <3>1, <3>2
    <2>4. Grows(View(p), disk) /\ disk.columns[Op(p).table] # {} /\ FileIsSound(disk)
      BY <2>3
    <2> HIDE DEF disk, t
    <2> QED BY <2>1, <2>4, DefineAdvance
  <1>19. ASSUME NEW p \in Procs, CreateIndex(p) PROVE SchemaInv'
    <2>1. Running(p) /\ Op(p).op = "index" /\ Op(p) = Index("rubrics", "fingerprint")
      BY <1>2, <1>19 DEF CreateIndex, At, Running, Shape
    <2>2. CASE Fails(p)
      BY <2>2, FailsKeeps
    <2>3. CASE /\ \A i \in DOMAIN Op(p).adds : Op(p).adds[i] \in View(p).columns[Op(p).table]
               /\ Define(p, View(p), Advance(p))
      <3>1. "fingerprint" \in View(p).columns["rubrics"]
        BY <2>1, <2>3 DEF Index
      <3> QED BY <1>1, <2>1, <2>3, <3>1, GrowsSelf, DefineAdvance
    <2> QED BY <1>19, <2>2, <2>3 DEF CreateIndex
  <1>4. ASSUME NEW p \in Procs, Seed(p) PROVE SchemaInv'
    <2>1. Running(p) /\ Op(p).op = "seed" /\ Modify(p, View(p))
      BY <1>4 DEF Seed, At, Running
    <2> QED BY <1>1, <2>1, GrowsSelf, ModifyAdvance
  <1>5. ASSUME NEW p \in Procs, DropNew(p) PROVE SchemaInv'
    <2> DEFINE disk == [View(p) EXCEPT !.columns["tasks_new"] = {}, !.copy = {}]
    <2>1. Running(p) /\ Op(p).op = "drop_new" /\ Define(p, disk, Advance(p))
      BY <1>5 DEF DropNew, At, Running
    <2>2. /\ disk \in Files /\ disk.rows = View(p).rows /\ disk.columns["tasks_new"] = {}
          /\ \A u \in Tables \ {"tasks_new"} : disk.columns[u] = View(p).columns[u]
      BY <1>1 DEF Files, Tables
    <2> HIDE DEF disk
    <2>3. FileIsSound(disk) /\ Grows(View(p), disk)
      BY <1>1, <2>2 DEF FileIsSound, Grows, Tables
    <2> QED BY <2>1, <2>2, <2>3, DefineAdvance
  <1>6. ASSUME NEW p \in Procs, CreateNew(p) PROVE SchemaInv'
    <2> DEFINE disk == [View(p) EXCEPT !.columns["tasks_new"] = RebuiltColumns]
    <2>1. Running(p) /\ Op(p).op = "create_new"
      BY <1>6 DEF CreateNew, At, Running
    <2>2. CASE View(p).columns["tasks_new"] # {}
      <3>1. Fails(p)
        BY <1>6, <2>2 DEF CreateNew
      <3> QED BY <3>1, FailsKeeps
    <2>3. CASE View(p).columns["tasks_new"] = {}
      <3>1. Define(p, disk, Advance(p))
        BY <1>6, <2>3 DEF CreateNew
      <3>2. /\ disk \in Files /\ disk.rows = View(p).rows
            /\ disk.columns["tasks_new"] = RebuiltColumns
            /\ \A u \in Tables \ {"tasks_new"} : disk.columns[u] = View(p).columns[u]
        <4>1. RebuiltColumns \in SUBSET Columns
          BY DEF RebuiltColumns, Columns
        <4> HIDE DEF Columns, RebuiltColumns
        <4> QED BY <1>1, <4>1 DEF Files, Tables
      <3> HIDE DEF disk
      <3>3. FileIsSound(disk) /\ Grows(View(p), disk) /\ disk.columns["tasks_new"] # {}
        <4>1. RebuiltColumns # {}
          BY DEF RebuiltColumns
        <4> QED BY <1>1, <3>2, <4>1 DEF FileIsSound, Grows, Tables
      <3> QED BY <2>1, <3>1, <3>3, DefineAdvance
    <2> QED BY <2>2, <2>3
  <1>7. ASSUME NEW p \in Procs, CopyRows(p) PROVE SchemaInv'
    <2> DEFINE disk == [View(p) EXCEPT !.copy = View(p).rows]
    <2>1. Running(p) /\ Op(p).op = "copy"
      BY <1>7 DEF CopyRows, At, Running
    <2>2. CASE View(p).columns["tasks_new"] = {} \/ View(p).columns["tasks"] = {}
      <3>1. Fails(p)
        BY <1>7, <2>2 DEF CopyRows
      <3> QED BY <3>1, FailsKeeps
    <2>3. CASE View(p).columns["tasks_new"] # {} /\ View(p).columns["tasks"] # {}
      <3>1. Modify(p, disk)
        BY <1>7, <2>3 DEF CopyRows
      <3>2. /\ disk \in Files /\ disk.rows = View(p).rows /\ disk.copy = View(p).rows
            /\ disk.columns = View(p).columns
        BY <1>1 DEF Files
      <3> HIDE DEF disk
      <3>3. FileIsSound(disk) /\ Grows(View(p), disk)
        BY <1>1, <3>2 DEF FileIsSound, Grows
      <3> QED BY <2>1, <2>3, <3>1, <3>2, <3>3, ModifyAdvance
    <2> QED BY <2>2, <2>3
  <1>8. ASSUME NEW p \in Procs, SwapTables(p) PROVE SchemaInv'
    <2> DEFINE disk == [View(p) EXCEPT !.columns["tasks"] = View(p).columns["tasks_new"],
                                       !.columns["tasks_new"] = {},
                                       !.rows = View(p).copy, !.copy = {}]
    <2>1. Running(p) /\ Op(p).op = "swap" /\ Define(p, disk, Advance(p))
      BY <1>8 DEF SwapTables, At, Running
    <2>2. /\ View(p).columns["tasks_new"] = RebuiltColumns /\ View(p).rows \subseteq View(p).copy
      <3>1. SwapFollowsCopy(p) /\ At(p, "swap")
        BY <1>0, <2>1 DEF ProcessInv, At, Running
      <3> QED BY <1>1, <3>1 DEF SwapFollowsCopy, View, FileIsSound
    <2>3. /\ disk \in Files /\ disk.rows = View(p).copy
          /\ disk.columns["tasks"] = RebuiltColumns /\ disk.columns["tasks_new"] = {}
          /\ \A u \in Tables \ {"tasks", "tasks_new"} : disk.columns[u] = View(p).columns[u]
      <3> HIDE DEF Columns, RebuiltColumns
      <3> QED BY <1>1, <2>2 DEF Files, Tables
    <2> HIDE DEF disk
    <2>4. FileIsSound(disk) /\ Grows(View(p), disk) /\ "legacy" \notin disk.columns["tasks"]
      <3>4. disk.columns["rubrics"] = View(p).columns["rubrics"]
        BY <2>3 DEF Tables
      <3>1. FileIsSound(disk)
        BY <1>1, <2>3, <3>4 DEF FileIsSound, RebuiltColumns
      <3>2. /\ "legacy" \notin RebuiltColumns /\ Younger \subseteq RebuiltColumns
            /\ RebuiltColumns # {}
        BY DEF RebuiltColumns, Younger
      <3>3. Grows(View(p), disk)
        BY <1>1, <2>2, <2>3, <3>2, <3>4 DEF Grows
      <3> QED BY <2>3, <3>1, <3>2, <3>3
    <2> QED BY <2>1, <2>4, DefineAdvance
  <1>9. ASSUME NEW p \in Procs, InsertRow(p) PROVE SchemaInv'
    <2> DEFINE disk == [View(p) EXCEPT !.rows = @ \cup {p}]
    <2>1. Running(p) /\ Op(p).op = "insert"
      BY <1>9 DEF InsertRow, At, Running
    <2>2. CASE "teacher" \in View(p).columns["tasks"]
      <3>1. Modify(p, disk)
        BY <1>9, <2>2 DEF InsertRow
      <3>2. /\ disk \in Files /\ disk.rows = View(p).rows \cup {p}
            /\ disk.columns = View(p).columns
        BY <1>1 DEF Files, TaskRows
      <3> HIDE DEF disk
      <3>3. FileIsSound(disk) /\ Grows(View(p), disk)
        BY <1>1, <3>2 DEF FileIsSound, Grows
      <3> QED BY <2>1, <3>1, <3>3, ModifyAdvance
    <2>3. CASE "teacher" \notin View(p).columns["tasks"]
      <3>1. Fails(p)
        BY <1>9, <2>3 DEF InsertRow
      <3> QED BY <3>1, FailsKeeps
    <2> QED BY <2>2, <2>3
  <1>10. ASSUME NEW p \in Procs, NEW self \in ProcRecords, UNCHANGED <<db, txn>>,
                Moves(p, self) \/ proc' = [proc EXCEPT ![p] = self],
                txn.by = p => self.state = "running"
         PROVE  proc'[p] = self /\ (ProcessInv(p)' => SchemaInv') /\ View(p)' = View(p)
    <2>1. /\ Moves(p, self) \/ (proc' = [proc EXCEPT ![p] = self] /\ db' = db)
          /\ txn'.by = p => Grows(db', txn'.view) /\ self.state = "running"
          /\ Grows(db, db')
      BY <1>0, <1>10, GrowsSelf DEF FilesInv
    <2>2. View(p)' = View(p)
      BY <1>10 DEF View
    <2>3. FileIsSound(db') /\ FileIsSound(txn'.view)
          /\ txn' \in [by : Procs \cup {NoOne}, view : Files]
      BY <1>0, <1>10
    <2> QED BY <1>0, <1>10, <2>1, <2>2, <2>3, StepOf
  <1>11. ASSUME NEW p \in Procs, ReadColumns(p) PROVE SchemaInv'
    <2> DEFINE seen == View(p).columns[Op(p).table]
               self == [proc[p] EXCEPT !.read = TRUE, !.seen = seen]
    <2>1. /\ Running(p) /\ Op(p).op = "add" /\ UNCHANGED <<db, txn>>
          /\ proc' = [proc EXCEPT ![p] = self]
      BY <1>0, <1>11 DEF ReadColumns, At, Running
    <2>2. seen \in SUBSET Columns
      BY <1>1, <1>2, <2>1 DEF Files
    <2>3. /\ self \in ProcRecords /\ self.seen = seen /\ self.state = "running"
          /\ self.kind = proc[p].kind /\ self.at = proc[p].at /\ self.alone = proc[p].alone
      <3> HIDE DEF seen, Columns
      <3> QED BY <1>0, <2>1, <2>2 DEF ProcRecords, Running
    <2> HIDE DEF self
    <2>4. proc'[p] = self /\ (ProcessInv(p)' => SchemaInv') /\ View(p)' = View(p)
      BY <1>10, <2>1, <2>3
    <2>5. ProcessInv(p)'
      BY <2>1, <2>3, <2>4, GrowsSelf, StaysAt
    <2> QED BY <2>4, <2>5
  <1>12. ASSUME NEW p \in Procs, AddColumn(p) PROVE SchemaInv'
    <2>1. Running(p) /\ Op(p).op = "add" /\ proc[p].read /\ At(p, "add")
      BY <1>12 DEF AddColumn, At, Running
    <2>2. /\ Op(p).table \in Tables \ {"tasks_new"} /\ Shape(Op(p))
          /\ proc[p] \in ProcRecords /\ ProcessInv(p)
      BY <1>0, <1>2, <2>1
    <2>3. CASE ToAdd(p) = {} /\ UNCHANGED <<db, txn>> /\ Moves(p, Advance(p))
      <3> DEFINE self == Advance(p)
      <3>1. self \in ProcRecords /\ self.state = "running" /\ Moves(p, self)
        BY <2>1, <2>3, AdvanceIs
      <3>2. proc'[p] = self /\ (ProcessInv(p)' => SchemaInv') /\ View(p)' = View(p)
        <4> HIDE DEF self
        <4> QED BY <1>10, <2>3, <3>1
      <3>3. Op(p).adds = <<"celery", "teacher">> => Younger \subseteq View(p).columns["tasks"]
        <4> SUFFICES ASSUME Op(p).adds = <<"celery", "teacher">>
                     PROVE  Younger \subseteq View(p).columns["tasks"]
          OBVIOUS
        <4>1. <<"celery", "teacher">> # <<"fingerprint">>
          OBVIOUS
        <4>2. Op(p).table = "tasks"
          BY <2>1, <2>2, <4>1 DEF Shape
        <4>3. "celery" \in proc[p].seen /\ "teacher" \in proc[p].seen
          BY <2>3 DEF ToAdd
        <4> QED BY <2>1, <2>2, <4>2, <4>3 DEF ProcessInv, SeenStands, Younger
      <3>4. ProcessInv(p)'
        BY <2>1, <2>3, <3>2, <3>3, GrowsSelf, Advances
      <3> QED BY <3>2, <3>4
    <2>4. ASSUME NEW i \in ToAdd(p),
                 LET t == Op(p).table
                     c == Op(p).adds[i]
                 IN IF View(p).columns[t] = {} \/ c \in View(p).columns[t] THEN Fails(p)
                    ELSE Define(p, [View(p) EXCEPT !.columns[t] = @ \cup {c}],
                                [proc[p] EXCEPT !.seen = @ \cup {c}])
          PROVE  SchemaInv'
      <3> DEFINE t == Op(p).table
                 c == Op(p).adds[i]
                 disk == [View(p) EXCEPT !.columns[t] = @ \cup {c}]
                 self == [proc[p] EXCEPT !.seen = @ \cup {c}]
      <3>1. /\ c \notin proc[p].seen /\ c \in Columns /\ c # "legacy"
            /\ t = "tasks" => c \in {"celery", "teacher"}
            /\ t = "rubrics" => c = "fingerprint"
        <4>1. i \in DOMAIN Op(p).adds /\ c \notin proc[p].seen
          BY DEF ToAdd
        <4>2. CASE t = "tasks" /\ Op(p).adds \in {<<"celery", "teacher">>, <<"teacher">>}
          BY <4>1, <4>2 DEF Columns
        <4>3. CASE t = "rubrics" /\ Op(p).adds = <<"fingerprint">>
          BY <4>1, <4>3 DEF Columns
        <4> QED BY <2>1, <2>2, <4>2, <4>3 DEF Shape
      <3>2. CASE View(p).columns[t] = {} \/ c \in View(p).columns[t]
        <4>1. Fails(p)
          BY <2>4, <3>2
        <4> QED BY <4>1, FailsKeeps
      <3>3. CASE View(p).columns[t] # {} /\ c \notin View(p).columns[t]
        <4>1. Define(p, disk, self)
          BY <2>4, <3>3
        <4>2. /\ self \in ProcRecords /\ self.seen = proc[p].seen \cup {c}
              /\ self.state = "running" /\ self.kind = proc[p].kind /\ self.at = proc[p].at
              /\ self.alone = proc[p].alone
          <5>1. proc[p].seen \cup {c} \in SUBSET Columns
            BY <2>2, <3>1 DEF ProcRecords
          <5> HIDE DEF c, Columns
          <5> QED BY <2>1, <2>2, <5>1 DEF ProcRecords, Running
        <4>3. /\ disk \in Files /\ disk.rows = View(p).rows
              /\ disk.columns[t] = View(p).columns[t] \cup {c}
              /\ \A u \in Tables : u # t => disk.columns[u] = View(p).columns[u]
          <5>1. /\ View(p).columns \in [Tables -> SUBSET Columns]
                /\ View(p).columns[t] \cup {c} \in SUBSET Columns
            BY <1>1, <2>2, <3>1 DEF Files
          <5>2. t \in Tables
            BY <2>2
          <5> HIDE DEF t, c, Columns, Tables
          <5> QED BY <1>1, <5>1, <5>2 DEF Files
        <4>4. /\ proc[p].alone => proc[p].seen = View(p).columns[t]
              /\ t = "tasks" => \A y \in Younger : y \in proc[p].seen => y \in View(p).columns[t]
          BY <2>1, <2>2 DEF ProcessInv, TableStands, SeenStands
        <4> HIDE DEF disk, self, t, c
        <4>5. FileIsSound(disk)
          <5>1. CASE t = "tasks"
            BY <1>1, <3>1, <3>3, <4>3, <5>1 DEF FileIsSound, Tables
          <5>2. CASE t = "rubrics"
            BY <1>1, <3>1, <3>3, <4>3, <5>2 DEF FileIsSound, Tables
          <5>3. t \in {"tasks", "rubrics"}
            BY <2>1, <2>2 DEF Shape, t
          <5> QED BY <5>1, <5>2, <5>3
        <4>6. Grows(View(p), disk)
          BY <2>2, <3>1, <4>3 DEF Grows, t, Tables
        <4>7. /\ proc'[p] = self /\ (ProcessInv(p)' => SchemaInv')
              /\ View(p)' = disk /\ txn'.by = txn.by
          BY <4>1, <4>2, <4>5, <4>6, DefineDoes
        <4>8. /\ t = "tasks" => \A y \in Younger : y \in self.seen => y \in disk.columns["tasks"]
              /\ proc[p].alone => self.seen = disk.columns[t]
          BY <4>2, <4>3, <4>4
        <4>9. ProcessInv(p)'
          BY <2>1, <4>2, <4>6, <4>7, <4>8, StaysAt DEF t
        <4> QED BY <4>7, <4>9
      <3> QED BY <3>2, <3>3
    <2>5. \/ ToAdd(p) = {} /\ UNCHANGED <<db, txn>> /\ Moves(p, Advance(p))
          \/ \E i \in ToAdd(p) :
               LET t == Op(p).table
                   c == Op(p).adds[i]
               IN IF View(p).columns[t] = {} \/ c \in View(p).columns[t] THEN Fails(p)
                  ELSE Define(p, [View(p) EXCEPT !.columns[t] = @ \cup {c}],
                              [proc[p] EXCEPT !.seen = @ \cup {c}])
      BY <1>12 DEF AddColumn
    <2> QED BY <2>3, <2>4, <2>5
  <1>13. ASSUME NEW p \in Procs, IfLegacy(p) PROVE SchemaInv'
    <2> DEFINE n == Len(Program(proc[p].kind))
    <2>1. /\ Running(p) /\ Op(p).op = "if_legacy" /\ Op(p).op # "commit"
          /\ UNCHANGED <<db, txn>> /\ Op(p).table = "tasks"
          /\ proc[p] \in ProcRecords /\ ProcessInv(p) /\ proc[p].kind \in Kinds
      BY <1>0, <1>2, <1>13, AdvanceIs DEF IfLegacy, At, Running
    <2>2. CASE "legacy" \in View(p).columns["tasks"]
      <3> DEFINE self == Advance(p)
      <3>1. /\ self \in ProcRecords /\ self.state = "running"
            /\ proc' = [proc EXCEPT ![p] = self]
        BY <1>13, <2>1, <2>2, AdvanceIs DEF IfLegacy
      <3>2. proc'[p] = self /\ (ProcessInv(p)' => SchemaInv') /\ View(p)' = View(p)
        <4> HIDE DEF self
        <4> QED BY <1>10, <2>1, <3>1
      <3>3. ProcessInv(p)'
        BY <2>1, <2>2, <3>2, GrowsSelf, Advances
      <3> QED BY <3>2, <3>3
    <2>3. CASE "legacy" \notin View(p).columns["tasks"]
      <3> DEFINE self == Jump(p, n)
      <3>1. n \in Nat \ {0} /\ n \in 1..n /\ Program(proc[p].kind)[n].op = "commit"
            /\ (proc[p].kind = "init" => n = 24)
        <4>1. n \in Nat \ {0}
          BY <2>1, ProgramShape
        <4>2. n \in 1..n
          BY <4>1
        <4> QED BY <2>1, <4>1, <4>2, ProgramShape
      <3> HIDE DEF n
      <3>2. /\ self \in ProcRecords /\ self.state = "running" /\ self.at = n
            /\ self.kind = proc[p].kind /\ proc' = [proc EXCEPT ![p] = self]
        BY <1>13, <2>1, <2>3, <3>1, JumpIs DEF IfLegacy, Running, n
      <3> HIDE DEF self
      <3>3. /\ proc'[p] = self /\ (ProcessInv(p)' => SchemaInv') /\ View(p)' = View(p)
            /\ txn' = txn
        BY <1>10, <2>1, <3>2
      <3>4. proc[p].kind = "init" =>
              /\ proc[p].at = 18 /\ txn.by = p /\ Younger \subseteq View(p).columns["tasks"]
              /\ "fingerprint" \in View(p).columns["rubrics"]
              /\ \A i \in 1..17 : Program("init")[i].op = "create" =>
                                    View(p).columns[Program("init")[i].table] # {}
        <4> SUFFICES ASSUME proc[p].kind = "init"
                     PROVE  /\ proc[p].at = 18 /\ txn.by = p
                            /\ "fingerprint" \in View(p).columns["rubrics"]
                            /\ Younger \subseteq View(p).columns["tasks"]
                            /\ \A i \in 1..17 : Program("init")[i].op = "create" =>
                                                  View(p).columns[Program("init")[i].table] # {}
          OBVIOUS
        <4>1. proc[p].at \in 1..24 /\ Op(p) = Program("init")[proc[p].at]
          BY <2>1, <3>1 DEF ProcessInv, Op, n
        <4>2. proc[p].at = 18
          BY <2>1, <4>1, InitPlaces
        <4>3. InitProgress(p) /\ Running(p) /\ proc[p].at - 1 = 17
          BY <2>1, <4>2 DEF ProcessInv
        <4> HIDE DEF Younger
        <4> QED BY <4>2, <4>3 DEF InitProgress
      <3>5. InitProgress(p)'
        <4> SUFFICES ASSUME proc[p].kind = "init"
                     PROVE  /\ \A i \in 1..23 :
                                 Program("init")[i].op = "create" =>
                                   View(p).columns[Program("init")[i].table] # {}
                            /\ Younger \subseteq View(p).columns["tasks"] /\ txn.by = p
                            /\ "fingerprint" \in View(p).columns["rubrics"]
          <5>1. /\ proc'[p].kind = "init" => proc[p].kind = "init" /\ proc'[p].at = 24
                /\ View(p)' = View(p) /\ txn' = txn /\ 24 - 1 = 23
            BY <3>1, <3>2, <3>3
          <5> HIDE DEF Younger
          <5> QED BY <2>3, <5>1 DEF InitProgress
        <4>1. \A i \in 1..23 : Program("init")[i].op = "create" => i \in 1..17
          BY InitPlaces
        <4> QED BY <3>4, <4>1
      <3>6. Op(p)'.op = "commit" /\ Running(p)' /\ proc[p].at \in Nat
        BY <3>1, <3>2, <3>3, <2>1 DEF Op, Running, ProcRecords
      <3>7. SeenStands(p)' /\ SwapFollowsCopy(p)' /\ TableStands(p)' /\ Outcome(p)'
        BY <3>6 DEF SeenStands, SwapFollowsCopy, TableStands, Outcome, At, Running
      <3>8. proc'[p].at \in 1..Len(Program(proc'[p].kind))
        BY <3>1, <3>2, <3>3 DEF n
      <3> QED BY <3>3, <3>5, <3>7, <3>8 DEF ProcessInv
    <2> QED BY <2>2, <2>3
  <1>14. ASSUME NEW p \in Procs, Commit(p) PROVE SchemaInv'
    <2> DEFINE self == [proc[p] EXCEPT !.state = "done"]
    <2>1. /\ Running(p) /\ Op(p).op = "commit" /\ db' = View(p) /\ Moves(p, self)
          /\ txn' = IF txn.by = p THEN NoTransaction ELSE txn
          /\ proc[p] \in ProcRecords /\ ProcessInv(p)
      BY <1>0, <1>14 DEF Commit, At, Running
    <2>2. /\ self \in ProcRecords /\ self.state = "done" /\ self.kind = proc[p].kind
          /\ self.at = proc[p].at
      BY <2>1 DEF ProcRecords
    <2> HIDE DEF self
    <2>3. FileIsSound(NoFile) /\ NoFile \in Files
      BY DEF FileIsSound, NoFile, Files, Tables
    <2>4. /\ txn' \in [by : Procs \cup {NoOne}, view : Files] /\ FileIsSound(txn'.view)
          /\ txn'.by # p
          /\ txn.by \in {p, NoOne} \/ UNCHANGED <<db, txn>>
          /\ txn'.by \in {p, NoOne} \/ UNCHANGED <<db, txn>>
      <3>1. CASE txn.by = p
        BY <1>0, <2>1, <2>3, <3>1 DEF NoTransaction
      <3>2. CASE txn.by # p
        BY <1>0, <2>1, <3>2 DEF View
      <3> QED BY <3>1, <3>2
    <2>5. FileIsSound(db') /\ Grows(db, db')
      BY <1>1, <2>1
    <2>6. proc'[p] = self /\ (ProcessInv(p)' => SchemaInv')
      BY <2>1, <2>2, <2>4, <2>5, StepOf
    <2>7. proc[p].kind = "init" => Ready(db')
      <3> SUFFICES ASSUME proc[p].kind = "init" PROVE Ready(View(p))
        BY <2>1
      <3>1. /\ Len(Program("init")) = 24 /\ proc[p].at \in 1..24
            /\ Op(p) = Program("init")[proc[p].at]
        <4>1. Len(Program("init")) = 24
          BY InitIs, SMTT(60)
        <4> QED BY <2>1, <4>1 DEF ProcessInv, Op
      <3>2. proc[p].at = 24
        <4>2. \A i \in 1..24 : Program("init")[i].op = "commit" <=> i = 24
          BY InitIs, SMTT(90) DEF Create, Index, AddBoth, AddTo, Do
        <4> QED BY <2>1, <3>1, <4>2
      <3>3. /\ \A i \in 1..23 : Program("init")[i].op = "create" =>
                                  View(p).columns[Program("init")[i].table] # {}
            /\ Younger \subseteq View(p).columns["tasks"]
            /\ "legacy" \notin View(p).columns["tasks"]
            /\ "fingerprint" \in View(p).columns["rubrics"]
        <4>1. InitProgress(p) /\ proc[p].at - 1 = 23 /\ proc[p].at >= 10
          BY <2>1, <3>2 DEF ProcessInv
        <4> HIDE DEF Younger
        <4> QED BY <2>1, <3>2, <4>1 DEF InitProgress
      <3>4. ASSUME NEW t \in Tables \ {"tasks_new"} PROVE View(p).columns[t] # {}
        <4>1. PICK i \in 1..16 : Program("init")[i].op = "create" /\ Program("init")[i].table = t
          BY InitPlaces
        <4>2. i \in 1..23
          OBVIOUS
        <4> QED BY <3>3, <4>1, <4>2
      <3> QED BY <3>3, <3>4 DEF Ready
    <2>8. ~Running(p)' /\ Outcome(p)'
      BY <2>2, <2>6, <2>7 DEF Running, Outcome
    <2>9. /\ InitProgress(p)' /\ SeenStands(p)' /\ SwapFollowsCopy(p)' /\ TableStands(p)'
          /\ proc'[p].at \in 1..Len(Program(proc'[p].kind))
      BY <2>1, <2>2, <2>6, <2>8
        DEF InitProgress, SeenStands, SwapFollowsCopy, TableStands, At, Running, ProcessInv
    <2> QED BY <2>6, <2>8, <2>9 DEF ProcessInv
  <1>15. ASSUME NEW p \in Procs, LockTimesOut(p) PROVE SchemaInv'
    <2> DEFINE j == Jump(p, 1)
               self == IF proc[p].tries = MaxTries
                       THEN [j EXCEPT !.state = "failed", !.alone = FALSE]
                       ELSE [j EXCEPT !.tries = @ + 1, !.alone = FALSE]
    <2>1. /\ Running(p) /\ txn.by # p /\ proc' = [proc EXCEPT ![p] = self]
          /\ UNCHANGED <<db, txn>> /\ proc[p] \in ProcRecords
      <3>1. Running(p) /\ ~MayWrite(p) /\ UNCHANGED <<db, txn>>
        BY <1>15 DEF LockTimesOut, Running
      <3>2. proc' = [proc EXCEPT ![p] = self]
        <4> DEFINE new == IF proc[p].tries = MaxTries
                          THEN [Jump(p, 1) EXCEPT !.state = "failed", !.alone = FALSE]
                          ELSE [Jump(p, 1) EXCEPT !.tries = @ + 1, !.alone = FALSE]
        <4>1. proc' = [proc EXCEPT ![p] = new]
          BY <1>15 DEF LockTimesOut
        <4>2. new = self
          OBVIOUS
        <4> HIDE DEF new, self
        <4> QED BY <4>1, <4>2
      <3> QED BY <1>0, <3>1, <3>2 DEF MayWrite
    <2>2. /\ j \in ProcRecords /\ j.at = 1 /\ j.read = FALSE /\ j.state = "running"
          /\ j.tries = proc[p].tries
      BY <2>1, JumpIs DEF Running, Jump, ProcRecords
    <2> HIDE DEF j
    <2>3. /\ self \in ProcRecords /\ self.at = 1 /\ self.read = FALSE
          /\ self.state \in {"running", "failed"} /\ ~self.alone
      <3>1. CASE proc[p].tries = MaxTries
        BY <2>2, <3>1 DEF ProcRecords
      <3>2. CASE proc[p].tries # MaxTries
        <4>1. proc[p].tries + 1 \in 1..MaxTries
          BY <2>1, <3>2, SchemaAssumption DEF SchemaAssumption, ProcRecords
        <4> DEFINE n == j.tries + 1
        <4>2. n \in 1..MaxTries /\ self = [j EXCEPT !.tries = n, !.alone = FALSE]
          BY <2>2, <3>2, <4>1
        <4> HIDE DEF n, self
        <4> QED BY <2>2, <4>2 DEF ProcRecords
      <3> QED BY <3>1, <3>2
    <2> HIDE DEF self
    <2>4. proc'[p] = self /\ (ProcessInv(p)' => SchemaInv')
      BY <2>1, <2>3, EndDoes
    <2>5. ProcessInv(p)'
      BY <2>3, <2>4, Restarts
    <2> QED BY <2>4, <2>5
  <1>16. ASSUME NEW p \in Procs, Crash(p) PROVE SchemaInv'
    <2> DEFINE self == [proc[p] EXCEPT !.state = "failed", !.alone = FALSE]
    <2>1. /\ proc' = [proc EXCEPT ![p] = self] /\ db' = db
          /\ txn' = IF txn.by = p THEN NoTransaction ELSE txn
          /\ proc[p] \in ProcRecords /\ ProcessInv(p)
      BY <1>0, <1>16 DEF Crash
    <2>2. /\ self \in ProcRecords /\ self.state = "failed" /\ self.kind = proc[p].kind
          /\ self.at = proc[p].at /\ ~self.alone
      BY <2>1 DEF ProcRecords
    <2> HIDE DEF self
    <2>3. proc'[p] = self /\ (ProcessInv(p)' => SchemaInv')
      BY <2>1, <2>2, EndDoes
    <2>4. /\ InitProgress(p)' /\ SeenStands(p)' /\ SwapFollowsCopy(p)' /\ TableStands(p)'
          /\ Outcome(p)' /\ proc'[p].at \in 1..Len(Program(proc'[p].kind))
      BY <2>1, <2>2, <2>3
        DEF InitProgress, SeenStands, SwapFollowsCopy, TableStands, Outcome, At, Running,
            ProcessInv
    <2> QED BY <2>3, <2>4 DEF ProcessInv
  <1>17. ASSUME NEW p \in Procs, StartAgain(p) PROVE SchemaInv'
    <2> DEFINE b == Begun(proc[p].kind)
               n == proc[p].starts + 1
               self == [b EXCEPT !.starts = n]
    <2>1. /\ proc' = [proc EXCEPT ![p] = self] /\ UNCHANGED <<db, txn>> /\ ~Running(p)
          /\ proc[p] \in ProcRecords /\ proc[p].starts < MaxStarts
      BY <1>0, <1>17 DEF StartAgain, Running
    <2>2. txn.by # p
      BY <1>0, <2>1 DEF FilesInv, Running
    <2>3. n \in 1..MaxStarts
      BY <2>1, SchemaAssumption DEF SchemaAssumption, ProcRecords
    <2>4. b \in ProcRecords /\ b.at = 1 /\ b.read = FALSE /\ b.state = "running"
      <3>1. 1 \in 1..MaxTries /\ 1 \in 1..MaxStarts
        BY SchemaAssumption DEF SchemaAssumption
      <3> QED BY <2>1, <3>1 DEF Begun, ProcRecords
    <2> HIDE DEF b, n
    <2>5. self \in ProcRecords /\ self.at = 1 /\ self.read = FALSE /\ self.state = "running"
      BY <2>3, <2>4 DEF ProcRecords
    <2> HIDE DEF self
    <2>6. proc'[p] = self /\ (ProcessInv(p)' => SchemaInv')
      BY <2>1, <2>2, <2>5, EndDoes
    <2>7. ProcessInv(p)'
      BY <2>5, <2>6, Restarts
    <2> QED BY <2>6, <2>7
  <1>18. ASSUME UNCHANGED schemaVars PROVE SchemaInv'
    <2>1. db' = db /\ txn' = txn /\ proc' = proc
      BY <1>18 DEF schemaVars
    <2>2. ASSUME NEW p \in Procs PROVE ProcessInv(p)'
      <3>1. /\ Op(p)' = Op(p) /\ View(p)' = View(p) /\ (Running(p)' <=> Running(p))
            /\ \A op : At(p, op)' <=> At(p, op)
        BY <2>1 DEF Op, View, Running, At
      <3>2. ProcessInv(p)
        BY <1>0
      <3>3. InitProgress(p)' /\ SeenStands(p)' /\ SwapFollowsCopy(p)'
        BY <2>1, <3>1, <3>2 DEF ProcessInv, InitProgress, SeenStands, SwapFollowsCopy
      <3>4. TableStands(p)' /\ Outcome(p)'
        BY <2>1, <3>1, <3>2 DEF ProcessInv, TableStands, Outcome
      <3> QED BY <2>1, <3>2, <3>3, <3>4 DEF ProcessInv
    <2>3. FilesInv' /\ proc' \in [Procs -> ProcRecords]
      BY <1>0, <2>1 DEF FilesInv, Running
    <2> QED BY <2>2, <2>3 DEF SchemaInv
  <1> QED
    BY <1>3, <1>4, <1>5, <1>6, <1>7, <1>8, <1>9, <1>11, <1>12, <1>13, <1>14, <1>15, <1>16, <1>17,
      <1>18, <1>19 DEF SchemaNext

LEMMA SchemaStarts == SchemaInit => SchemaInv
  <1> SUFFICES ASSUME SchemaInit PROVE SchemaInv
    OBVIOUS
  <1>1. NoOne \notin Procs /\ \A t \in {1} : t \in 1..MaxTries /\ t \in 1..MaxStarts
    BY SchemaAssumption DEF SchemaAssumption, NoOne
  <1>2. /\ FileIsSound(NoFile) /\ FileIsSound(OldFile) /\ FileIsSound(RubricFile)
        /\ FileIsSound(LaterFile) /\ NoFile \in Files
    <2>1. FileIsSound(NoFile) /\ NoFile \in Files
      BY DEF FileIsSound, NoFile, Files, Tables
    <2>2. FileIsSound(OldFile)
      BY DEF FileIsSound, OldFile, NoFile, Files, Tables, Columns, TaskRows
    <2>4. FileIsSound(RubricFile)
      BY DEF FileIsSound, RubricFile, OldFile, NoFile, Files, Tables, Columns, TaskRows
    <2>3. FileIsSound(LaterFile)
      BY DEF FileIsSound, LaterFile, NoFile, Files, Tables, Columns, TaskRows
    <2> QED BY <2>1, <2>2, <2>3, <2>4
  <1>3. FilesInv
    <2>1. txn = [by |-> NoOne, view |-> NoFile] /\ db \in {NoFile, OldFile, RubricFile, LaterFile}
      BY DEF SchemaInit
    <2> HIDE DEF NoFile, OldFile, RubricFile, LaterFile
    <2> QED BY <1>1, <1>2, <2>1 DEF FilesInv
  <1>4. ASSUME NEW p \in Procs
        PROVE  /\ proc[p] \in ProcRecords /\ proc[p].at = 1 /\ proc[p].read = FALSE
               /\ proc[p].state = "running" /\ proc[p].kind \in Kinds
    <2>1. PICK k \in Kinds : proc[p] = Begun(k)
      BY DEF SchemaInit
    <2> QED BY <1>1, <2>1 DEF Begun, ProcRecords
  <1>5. proc \in [Procs -> ProcRecords]
    <2>1. proc \in [Procs -> {Begun(k) : k \in Kinds}]
      BY DEF SchemaInit
    <2> HIDE DEF ProcRecords
    <2> QED BY <1>4, <2>1
  <1>6. ASSUME NEW p \in Procs PROVE ProcessInv(p)
    <2> DEFINE k == proc[p].kind
               first == Program(k)[1]
    <2>1. /\ k \in Kinds /\ 1 \in 1..Len(Program(k)) /\ Op(p) = first
          /\ first.op \in {"create", "if_legacy", "add"} /\ (first.op = "add" => k = "dao")
      <3>1. k \in Kinds
        BY <1>4
      <3>2. Len(Program(k)) \in Nat \ {0}
        BY <3>1, ProgramShape
      <3>3. 1 \in 1..Len(Program(k))
        BY <3>2
      <3> QED BY <1>4, <3>1, <3>3, ProgramShape DEF Op
    <2>2. InitProgress(p)
      <3>1. proc[p].at = 1
        BY <1>4, Zenon
      <3>2. ~\E i \in 1..0 : TRUE
        OBVIOUS
      <3>3. ~(proc[p].at >= 9) /\ ~(proc[p].at >= 10) /\ ~(proc[p].at >= 18) /\ proc[p].at # 24
        BY <3>1
      <3>4. proc[p].at - 1 = 0
        BY <3>1
      <3> QED BY <3>1, <3>2, <3>3, <3>4 DEF InitProgress
    <2>3. SeenStands(p) /\ SwapFollowsCopy(p) /\ TableStands(p) /\ Outcome(p)
      BY <1>4, <2>1 DEF SeenStands, SwapFollowsCopy, TableStands, Outcome, At
    <2> QED BY <1>4, <2>1, <2>2, <2>3 DEF ProcessInv
  <1> QED BY <1>3, <1>5, <1>6 DEF SchemaInv

LEMMA SchemaKeeps == SchemaSpec => []SchemaInv
  BY SchemaStarts, SchemaSteps, PTL DEF SchemaSpec

(* The type invariant of the migration, for any number of processes,       *)
(* retries and starts: every copy of the file has the tables and columns   *)
(* of the schema, and each process is at a statement of its function       *)
(* (init_db, the script, or the DAO's save_tasks or save_rubric).          *)
THEOREM SchemaIsTyped == SchemaSpec => []SchemaTypeOK
  <1>1. SchemaInv => SchemaTypeOK
    <2> SUFFICES ASSUME SchemaInv PROVE SchemaTypeOK
      OBVIOUS
    <2>1. /\ db \in Files /\ txn.by \in Procs \cup {NoOne} /\ txn.view \in Files
      BY DEF SchemaInv, FilesInv, FileIsSound
    <2>2. ASSUME NEW p \in Procs
          PROVE  proc[p] \in ProcRecords /\ proc[p].at \in 1..Len(Program(proc[p].kind))
      BY DEF SchemaInv, ProcessInv
    <2> QED BY <2>1, <2>2 DEF SchemaTypeOK, ProcRecords
  <1> QED BY <1>1, SchemaKeeps, PTL

(* Once init_db has returned in a process, the file has every table and    *)
(* tasks exactly the columns that the queries name, and the rubrics their  *)
(* fingerprint, whatever the other processes, on any of their statements,  *)
(* do to the file afterwards.                                              *)
THEOREM ReadyStaysMigrated == SchemaSpec => []ReadyMeansMigrated
  <1>1. SchemaInv => ReadyMeansMigrated
    <2> SUFFICES ASSUME SchemaInv, NEW p \in Procs, proc[p].state = "done",
                        proc[p].kind = "init"
                 PROVE  /\ \A t \in Tables \ {"tasks_new"} : db.columns[t] # {}
                        /\ db.columns["tasks"] = {"id", "celery", "teacher"}
                        /\ "fingerprint" \in db.columns["rubrics"]
      BY DEF ReadyMeansMigrated
    <2>1. Ready(db) /\ FileIsSound(db)
      BY DEF SchemaInv, ProcessInv, Outcome, FilesInv
    <2>2. /\ db.columns["tasks"] \subseteq {"id", "celery", "teacher", "legacy"}
          /\ db.columns["tasks"] # {} => "id" \in db.columns["tasks"]
          /\ "celery" \in db.columns["tasks"] /\ "teacher" \in db.columns["tasks"]
          /\ "legacy" \notin db.columns["tasks"]
      BY <2>1 DEF Ready, FileIsSound, Younger
    <2> QED BY <2>1, <2>2 DEF Ready
  <1> QED BY <1>1, SchemaKeeps, PTL

(* The statements around a transaction.                                    *)
LEMMA ProgramOrder ==
  ASSUME NEW k \in Kinds, NEW i \in 1..Len(Program(k))
  PROVE  LET s == Program(k)[i]
             next == Program(k)[i + 1]
         IN /\ s.op = "seed" => \/ k = "init" /\ i = 17
                                \/ k = "rubric" /\ next.op = "commit"
            /\ s.op = "copy" => next.op = "swap"
            /\ s.op \in {"swap", "insert"} => next.op = "commit"
            /\ s.op = "insert" => k = "dao"
            /\ s.op \in {"if_legacy", "drop_new", "create_new", "copy", "swap"} =>
                 k \in {"init", "script"} /\ (k = "init" => i >= 18)
            /\ k = "init" /\ i >= 18 =>
                 s.op \notin {"create", "index"} /\ (s.op = "add" => s = AddBoth)
            /\ k = "init" => (s.op = "commit" <=> i = 24)
  <1>1. CASE k = "init"
    <2> DEFINE P == Program("init")
    <2>1. Len(P) = 24 /\ P = Program(k) /\ i \in 1..24
      <3>1. Len(P) = 24
        BY InitIs, SMTT(60)
      <3>2. P = Program(k)
        BY <1>1
      <3> QED BY <3>1, <3>2
    <2>2. /\ P[i].op = "seed" <=> i = 17
          /\ P[i].op = "swap" <=> i = 23
          /\ P[i].op = "copy" <=> i = 22
          /\ P[i].op = "commit" <=> i = 24
          /\ P[i].op # "insert"
      <3>1. P[i].op = "copy" <=> i = 22
        BY <2>1, InitIs, SMTT(90) DEF Create, Index, AddBoth, AddTo, Do
      <3>2. P[i].op # "insert"
        BY <1>1, <2>1, ProgramShape
      <3>3. P[i].op = "commit" <=> i = 24
        BY <2>1, ProgramShape DEF Kinds
      <3> QED BY <2>1, <3>1, <3>2, <3>3, InitPlaces
    <2>3. /\ P[i].op = "if_legacy" <=> i = 18
          /\ P[i].op = "drop_new" <=> i = 20
          /\ P[i].op = "create_new" <=> i = 21
          /\ P[i].op \in {"create", "index"} => i < 18
      BY <2>1, InitIs, SMTT(90) DEF Create, Index, AddBoth, AddTo, Do
    <2>6. P[23].op = "swap" /\ P[24].op = "commit"
      <3>1. P[23] = Do("swap") /\ P[24] = Do("commit")
        BY InitIs, SMTT(90)
      <3> QED BY <3>1 DEF Do
    <2>4. i >= 18 /\ P[i].op = "add" => P[i] = AddBoth
      <3>1. P[i].op = "add" => i \in {9, 11, 19}
        BY <2>1, InitIs, SMTT(90) DEF Create, Index, AddBoth, AddTo, Do
      <3>2. P[19] = AddBoth
        BY InitIs, SMTT(60)
      <3> QED BY <2>1, <3>1, <3>2
    <2> HIDE DEF P
    <2>5. /\ P[i].op = "copy" => P[i + 1].op = "swap"
          /\ P[i].op = "swap" => P[i + 1].op = "commit"
      BY <2>2, <2>6
    <2> QED BY <1>1, <2>1, <2>2, <2>3, <2>4, <2>5
  <1>2. CASE k = "script"
    <2> DEFINE P == Program("script")
    <2>1. Len(P) = 7 /\ P = Program(k) /\ i \in 1..7
      BY <1>2, ScriptIs
    <2>2. /\ P[i].op # "seed" /\ P[i].op # "insert"
          /\ P[i].op = "copy" <=> i = 5
          /\ P[i].op = "swap" <=> i = 6
          /\ P[6].op = "swap" /\ P[7].op = "commit"
      BY <2>1, ScriptIs DEF AddBoth, AddTo, Do
    <2> HIDE DEF P
    <2>3. /\ P[i].op = "copy" => P[i + 1].op = "swap"
          /\ P[i].op = "swap" => P[i + 1].op = "commit"
      BY <2>2
    <2> QED BY <1>2, <2>1, <2>2, <2>3
  <1>3. CASE k = "dao"
    <2> DEFINE P == Program("dao")
    <2>1. Len(P) = 3 /\ P = Program(k) /\ i \in 1..3
      BY <1>3, DaoIs
    <2>2. /\ P[i].op \in {"add", "insert", "commit"}
          /\ P[i].op = "insert" <=> i = 2
          /\ P[3].op = "commit"
      BY <2>1, DaoIs DEF AddTo, Do
    <2> HIDE DEF P
    <2>3. P[i].op = "insert" => P[i + 1].op = "commit"
      BY <2>2
    <2> QED BY <1>3, <2>1, <2>2, <2>3
  <1>4. CASE k = "rubric"
    <2> DEFINE P == Program("rubric")
    <2>1. Len(P) = 4 /\ P = Program(k) /\ i \in 1..4
      BY <1>4, RubricIs
    <2>2. /\ P[i].op \in {"create", "add", "seed", "commit"}
          /\ P[i].op = "seed" <=> i = 3
          /\ P[4].op = "commit"
      BY <2>1, RubricIs DEF Create, AddTo, Do
    <2> HIDE DEF P
    <2>3. P[i].op = "seed" => P[i + 1].op = "commit"
      BY <2>2
    <2> QED BY <1>4, <2>1, <2>2, <2>3
  <1> QED BY <1>1, <1>2, <1>3, <1>4 DEF Kinds

(* What a process with a transaction has done to the tasks table: a writer *)
(* has its one row, the saving of a rubric has not touched it, and init_db *)
(* or the script has rebuilt it, with the rows that were there, or has not *)
(* touched it either.                                                      *)
Transaction(p) ==
  LET view == txn.view IN
  /\ proc[p].kind # "rubric" => db.columns["tasks"] # {}
  /\ proc[p].kind = "rubric" =>
       /\ Op(p).op = "commit"
       /\ view.columns["tasks"] = db.columns["tasks"] /\ view.rows = db.rows
  /\ proc[p].kind = "dao" =>
       /\ Op(p).op = "commit"
       /\ view.columns["tasks"] = db.columns["tasks"] /\ "teacher" \in db.columns["tasks"]
       /\ view.rows = db.rows \cup {p}
  /\ proc[p].kind = "script" => Op(p).op \in {"swap", "commit"}
  /\ proc[p].kind = "init" => proc[p].at >= 18
  /\ proc[p].kind \in {"init", "script"} =>
       /\ view.rows = db.rows
       /\ \/ view.columns["tasks"] = db.columns["tasks"]
          \/ view.columns["tasks"] = RebuiltColumns /\ Op(p).op = "commit"
  /\ Op(p).op = "swap" => view.copy = view.rows

TransactionInv == SchemaInv /\ \A p \in Procs : txn.by = p => Transaction(p)

TableMoves == [Table!Next]_(Table!table)

LEMMA TableStays ==
  ASSUME db'.columns["tasks"] = db.columns["tasks"], db'.rows = db.rows
  PROVE  TableMoves
  BY DEF TableMoves, Table!table

SchemaStep(p) ==
  \/ CreateTable(p) \/ CreateIndex(p) \/ ReadColumns(p) \/ AddColumn(p) \/ Seed(p)
  \/ IfLegacy(p) \/ DropNew(p) \/ CreateNew(p) \/ CopyRows(p) \/ SwapTables(p) \/ InsertRow(p)
  \/ Commit(p) \/ LockTimesOut(p) \/ Crash(p) \/ StartAgain(p)

(* Nobody disturbs a transaction.                                          *)
LEMMA OthersWait ==
  ASSUME SchemaInv, NEW p \in Procs, SchemaStep(p)
  PROVE  /\ txn'.by \in Procs \ {p} => UNCHANGED <<db, txn>>
         /\ \A q \in Procs \ {p} :
              /\ proc'[q].kind = proc[q].kind /\ proc'[q].at = proc[q].at
              /\ proc'[q].state = proc[q].state
  <1>0. /\ NoOne \notin Procs /\ proc \in [Procs -> ProcRecords]
        /\ txn \in [by : Procs \cup {NoOne}, view : Files]
    BY SchemaAssumption DEF SchemaAssumption, NoOne, SchemaInv, FilesInv
  <1> DEFINE Goal == txn'.by \in Procs \ {p} => UNCHANGED <<db, txn>>
             Others == \A q \in Procs \ {p} :
                         /\ proc'[q].kind = proc[q].kind /\ proc'[q].at = proc[q].at
                         /\ proc'[q].state = proc[q].state
  <1> SUFFICES Goal /\ Others
    OBVIOUS
  <1>1. ASSUME NEW self, Moves(p, self) PROVE Others
    BY <1>0, <1>1 DEF Moves, ProcRecords
  <1>2. ASSUME NEW disk, NEW self, Define(p, disk, self) PROVE Goal /\ Others
    BY <1>0, <1>1, <1>2 DEF Define, MayWrite
  <1>3. ASSUME NEW disk, Modify(p, disk) PROVE Goal /\ Others
    <2>1. Others
      BY <1>1, <1>3 DEF Modify
    <2> QED BY <1>0, <1>3, <2>1 DEF Modify
  <1>4. ASSUME Fails(p) PROVE Goal /\ Others
    <2>1. Others
      BY <1>1, <1>4 DEF Fails
    <2> QED BY <1>0, <1>4, <2>1 DEF Fails, NoTransaction
  <1> HIDE DEF Goal, Others
  <1>5. CASE CreateTable(p)
    BY <1>2, <1>5 DEF CreateTable
  <1>16. CASE CreateIndex(p)
    BY <1>2, <1>4, <1>16 DEF CreateIndex
  <1>6. CASE AddColumn(p)
    <2>1. CASE UNCHANGED <<db, txn>> /\ Moves(p, Advance(p))
      BY <1>1, <2>1 DEF Goal
    <2>2. CASE Fails(p)
      BY <1>4, <2>2
    <2>3. CASE \E disk, self : Define(p, disk, self)
      BY <1>2, <2>3
    <2> QED BY <1>6, <2>1, <2>2, <2>3 DEF AddColumn
  <1>7. CASE Seed(p)
    BY <1>3, <1>7 DEF Seed
  <1>8. CASE DropNew(p)
    BY <1>2, <1>8 DEF DropNew
  <1>9. CASE CreateNew(p)
    BY <1>2, <1>4, <1>9 DEF CreateNew
  <1>10. CASE CopyRows(p)
    BY <1>3, <1>4, <1>10 DEF CopyRows
  <1>11. CASE SwapTables(p)
    BY <1>2, <1>11 DEF SwapTables
  <1>12. CASE InsertRow(p)
    BY <1>3, <1>4, <1>12 DEF InsertRow
  <1>13. CASE Commit(p)
    <2>1. Others
      BY <1>1, <1>13 DEF Commit
    <2>2. Goal
      BY <1>0, <1>13 DEF Commit, NoTransaction, View, Goal
    <2> QED BY <2>1, <2>2 DEF Goal
  <1>14. CASE ReadColumns(p) \/ IfLegacy(p) \/ LockTimesOut(p) \/ StartAgain(p)
    BY <1>0, <1>14 DEF ReadColumns, IfLegacy, LockTimesOut, StartAgain, Goal, Others
  <1>15. CASE Crash(p)
    BY <1>0, <1>15 DEF Crash, NoTransaction, Goal, Others
  <1> QED
    BY <1>5, <1>6, <1>7, <1>8, <1>9, <1>10, <1>11, <1>12, <1>13, <1>14, <1>15, <1>16
      DEF SchemaStep

(* Where a process goes on.                                                *)
LEMMA GoesTo ==
  ASSUME SchemaInv, NEW p \in Procs, Running(p), Op(p).op # "commit", proc'[p] = Advance(p)
  PROVE  /\ proc'[p].kind = proc[p].kind /\ proc'[p].at = proc[p].at + 1 /\ proc[p].at \in Nat
         /\ Op(p)'.op = "swap" => Op(p).op = "copy"
         /\ Op(p).op = "copy" => Op(p)'.op = "swap"
         /\ Op(p).op \in {"swap", "insert"} => Op(p)'.op = "commit"
         /\ Op(p).op = "seed" /\ proc[p].kind = "rubric" => Op(p)'.op = "commit"
  <1> DEFINE k == proc[p].kind
             i == proc[p].at
  <1>1. /\ proc'[p].kind = k /\ proc'[p].at = i + 1 /\ i \in Nat /\ k \in Kinds
        /\ Follows(Op(p), Program(k)[i + 1])
    BY AdvanceIs
  <1>2. i \in 1..Len(Program(k)) /\ Op(p) = Program(k)[i]
    BY DEF SchemaInv, ProcessInv, Op
  <1>3. Op(p)' = Program(k)[i + 1]
    BY <1>1 DEF Op
  <1> HIDE DEF k, i
  <1>4. /\ Op(p).op = "copy" => Op(p)'.op = "swap"
        /\ Op(p).op \in {"swap", "insert"} => Op(p)'.op = "commit"
        /\ Op(p).op = "seed" /\ k = "rubric" => Op(p)'.op = "commit"
    BY <1>1, <1>2, <1>3, ProgramOrder
  <1> QED BY <1>1, <1>3, <1>4 DEF Follows, k, i

(* Which statements a transaction is open at.                              *)
LEMMA Holding ==
  ASSUME TransactionInv, NEW p \in Procs, Running(p), txn.by = p
  PROVE  /\ Transaction(p) /\ View(p) = txn.view
         /\ Op(p).op \notin {"create", "index", "seed", "insert"}
         /\ Op(p).op \notin {"swap", "commit"} => proc[p].kind = "init" /\ proc[p].at >= 18
         /\ Op(p).op = "swap" => proc[p].kind \in {"init", "script"}
         /\ Op(p).op = "add" => Op(p) = AddBoth /\ Younger \subseteq View(p).columns["tasks"]
  <1> DEFINE k == proc[p].kind
             i == proc[p].at
  <1>1. Transaction(p) /\ View(p) = txn.view /\ ProcessInv(p)
    BY DEF TransactionInv, SchemaInv, View
  <1>2. k \in Kinds /\ i \in 1..Len(Program(k)) /\ Op(p) = Program(k)[i]
    BY <1>1 DEF TransactionInv, SchemaInv, ProcessInv, ProcRecords, Op
  <1>3. Op(p).op \notin {"swap", "commit"} => k = "init" /\ i >= 18
    BY <1>1, <1>2 DEF Transaction, Kinds
  <1>4. Op(p).op = "add" => Younger \subseteq View(p).columns["tasks"]
    <2> SUFFICES ASSUME Op(p).op = "add" PROVE Younger \subseteq View(p).columns["tasks"]
      OBVIOUS
    <2>1. k = "init" /\ i >= 10 /\ InitProgress(p)
      <3>1. i \in Int
        BY <1>2
      <3> QED BY <1>1, <1>3, <3>1 DEF ProcessInv
    <2> QED BY <2>1 DEF InitProgress
  <1> HIDE DEF k, i
  <1>5. /\ Op(p).op \notin {"create", "index", "seed", "insert"}
        /\ Op(p).op = "swap" => k \in {"init", "script"}
        /\ Op(p).op = "add" => Op(p) = AddBoth
    <2>1. k = "init" /\ i >= 18 =>
            Op(p).op \notin {"create", "index"} /\ (Op(p).op = "add" => Op(p) = AddBoth)
      BY <1>2, ProgramOrder
    <2>2. /\ Op(p).op = "seed" => i = 17 \/ k = "rubric"
          /\ Op(p).op = "insert" => k = "dao"
          /\ Op(p).op = "swap" => k \in {"init", "script"}
      BY <1>2, ProgramOrder
    <2> QED BY <1>3, <2>1, <2>2
  <1> QED BY <1>1, <1>3, <1>4, <1>5 DEF k, i

(* A statement of the transaction that is not about the rows.              *)
LEMMA Carries ==
  ASSUME TransactionInv, NEW p \in Procs, Running(p), txn.by = p,
         Op(p).op \notin {"swap", "commit"},
         proc'[p].kind = proc[p].kind, proc'[p].at \in Nat, proc'[p].at >= proc[p].at,
         Op(p)'.op # "swap", db' = db,
         txn'.view.columns["tasks"] = txn.view.columns["tasks"], txn'.view.rows = txn.view.rows
  PROVE  Transaction(p)'
  <1>1. Transaction(p) /\ proc[p].kind = "init" /\ proc[p].at >= 18
    BY Holding
  <1>2. proc[p].at \in Nat
    BY DEF TransactionInv, SchemaInv, ProcRecords
  <1>3. proc'[p].at >= 18
    BY <1>1, <1>2
  <1> QED BY <1>1, <1>3 DEF Transaction

HolderInv(p) == txn'.by = p => Transaction(p)'

LEMMA HolderMoves ==
  ASSUME TransactionInv, NEW p \in Procs, SchemaStep(p)
  PROVE  HolderInv(p) /\ TableMoves
  <1> DEFINE Goal == HolderInv(p) /\ TableMoves
  <1> SUFFICES Goal
    OBVIOUS
  <1>0. /\ SchemaInv /\ NoOne \notin Procs /\ proc \in [Procs -> ProcRecords]
        /\ txn \in [by : Procs \cup {NoOne}, view : Files]
        /\ db \in Files /\ View(p) \in Files /\ FileIsSound(View(p))
        /\ txn.by = p => Running(p)
        /\ txn.by # p => View(p) = db
        /\ proc[p].kind \in Kinds /\ proc[p].at \in Nat /\ ProcessInv(p)
    <2>1. SchemaInv /\ FilesInv /\ NoOne \notin Procs /\ proc \in [Procs -> ProcRecords]
      BY SchemaAssumption DEF SchemaAssumption, NoOne, SchemaInv, TransactionInv
    <2>2. proc[p] \in ProcRecords /\ ProcessInv(p)
      BY <2>1 DEF SchemaInv
    <2> QED BY <2>1, <2>2 DEF FilesInv, FileIsSound, View, Running, ProcRecords
  <1>1. ASSUME NEW op, At(p, op) PROVE Running(p) /\ Op(p).op = op
    BY <1>1 DEF At, Running
  <1>2. ASSUME txn'.by # p, db' = db PROVE Goal
    BY <1>2, TableStays DEF HolderInv
  <1>3. ASSUME Fails(p) PROVE Goal
    BY <1>0, <1>2, <1>3 DEF Fails, NoTransaction
  <1>4. ASSUME NEW self, Moves(p, self) PROVE proc'[p] = self
    BY <1>4 DEF Moves
  <1> HIDE DEF Goal
  \* DDL other than the swap of the tables.
  <1>5. ASSUME NEW disk, NEW self, Define(p, disk, self), Running(p),
               Op(p).op \notin {"swap", "commit"},
               disk.rows = View(p).rows,
               disk.columns["tasks"] = View(p).columns["tasks"],
               self.kind = proc[p].kind, self.at \in {proc[p].at, proc[p].at + 1},
               Op(p)'.op # "swap"
        PROVE  Goal
    <2>1. proc'[p] = self
      BY <1>4, <1>5 DEF Define
    <2>2. CASE txn.by = p
      <3>1. db' = db /\ txn' = [txn EXCEPT !.view = disk] /\ View(p) = txn.view
        BY <1>5, <2>2 DEF Define, View
      <3>2. txn'.view = disk /\ txn'.by = p
        BY <1>0, <2>2, <3>1
      <3>3. Transaction(p)'
        BY <1>0, <1>5, <2>1, <2>2, <3>1, <3>2, Carries
      <3> QED BY <3>1, <3>3, TableStays DEF Goal, HolderInv
    <2>3. CASE txn.by # p
      <3>1. db' = disk /\ txn' = txn /\ View(p) = db
        BY <1>0, <1>5, <2>3 DEF Define
      <3> QED BY <1>5, <2>3, <3>1, TableStays DEF Goal, HolderInv
    <2> QED BY <2>2, <2>3
  <1>6. CASE CreateTable(p)
    <2> DEFINE t == Op(p).table
               disk == IF View(p).columns[t] # {} THEN View(p)
                       ELSE [View(p) EXCEPT !.columns[t] = NewColumns(t)]
    <2>1. Running(p) /\ Op(p).op = "create" /\ Define(p, disk, Advance(p))
      BY <1>1, <1>6 DEF CreateTable
    <2>2. /\ txn.by # p /\ db' = disk /\ txn' = txn /\ View(p) = db
      <3>1. txn.by # p
        BY <2>1, Holding
      <3> QED BY <1>0, <2>1, <3>1 DEF Define
    <2>3. CASE View(p).columns[t] # {}
      BY <1>2, <2>2, <2>3
    <2>4. CASE View(p).columns[t] = {} /\ t # "tasks"
      <3>1. db'.rows = db.rows /\ db'.columns["tasks"] = db.columns["tasks"]
        BY <1>0, <2>2, <2>4 DEF Files
      <3> QED BY <2>2, <3>1, TableStays DEF Goal, HolderInv
    <2>5. CASE View(p).columns[t] = {} /\ t = "tasks"
      <3>1. /\ db'.rows = db.rows /\ db.columns["tasks"] = {}
            /\ db'.columns["tasks"] = {"id", "celery"}
        BY <1>0, <2>2, <2>5 DEF Files, NewColumns, Tables
      <3>2. Table!Create
        BY <3>1 DEF Table!Create
      <3> QED BY <2>2, <3>2 DEF Goal, HolderInv, TableMoves, Table!Next
    <2> QED BY <2>3, <2>4, <2>5
  <1>20. CASE CreateIndex(p)
    <2>1. Running(p) /\ Op(p).op = "index"
      BY <1>1, <1>20 DEF CreateIndex
    <2>2. txn.by # p /\ View(p) = db
      BY <1>0, <2>1, Holding
    <2>3. ASSUME Define(p, View(p), Advance(p)) PROVE Goal
      BY <1>0, <1>2, <2>2, <2>3 DEF Define
    <2> QED BY <1>3, <1>20, <2>3 DEF CreateIndex
  <1>7. CASE AddColumn(p)
    <2>1. /\ Running(p) /\ Op(p).op = "add" /\ Shape(Op(p))
          /\ Advance(p).kind = proc[p].kind /\ Advance(p).at = proc[p].at + 1
      <3>1. Running(p) /\ Op(p).op = "add"
        BY <1>1, <1>7 DEF AddColumn
      <3> QED BY <1>0, <3>1, AdvanceIs
    <2>2. CASE ToAdd(p) = {} /\ UNCHANGED <<db, txn>> /\ Moves(p, Advance(p))
      <3>1. proc'[p] = Advance(p)
        BY <1>4, <2>2
      <3>2. Op(p)'.op # "swap" /\ proc'[p].kind = proc[p].kind /\ proc'[p].at = proc[p].at + 1
        BY <1>0, <2>1, <3>1, GoesTo
      <3>3. txn.by = p => Transaction(p)'
        BY <1>0, <2>1, <2>2, <3>2, Carries
      <3> QED BY <2>2, <3>3, TableStays DEF Goal, HolderInv
    <2>3. ASSUME NEW i \in ToAdd(p),
                 LET t == Op(p).table
                     c == Op(p).adds[i]
                 IN IF View(p).columns[t] = {} \/ c \in View(p).columns[t] THEN Fails(p)
                    ELSE Define(p, [View(p) EXCEPT !.columns[t] = @ \cup {c}],
                                [proc[p] EXCEPT !.seen = @ \cup {c}])
          PROVE  Goal
      <3> DEFINE t == Op(p).table
                 c == Op(p).adds[i]
                 disk == [View(p) EXCEPT !.columns[t] = @ \cup {c}]
                 self == [proc[p] EXCEPT !.seen = @ \cup {c}]
      <3>1. /\ t \in Tables \ {"tasks_new"} /\ (t # "tasks" => t = "rubrics")
            /\ t = "tasks" => c \in {"celery", "teacher"}
        <4>1. i \in DOMAIN Op(p).adds
          BY DEF ToAdd
        <4>2. CASE t = "tasks" /\ Op(p).adds \in {<<"celery", "teacher">>, <<"teacher">>}
          BY <2>1, <4>1, <4>2 DEF Shape
        <4>3. CASE t = "rubrics"
          BY <2>1, <4>3 DEF Shape
        <4> QED BY <2>1, <4>2, <4>3 DEF Shape
      <3>2. CASE View(p).columns[t] = {} \/ c \in View(p).columns[t]
        BY <1>3, <2>3, <3>2
      <3>3. CASE View(p).columns[t] # {} /\ c \notin View(p).columns[t]
        <4>1. Define(p, disk, self)
          BY <2>3, <3>3
        <4>2. txn.by # p
          <5> SUFFICES ASSUME txn.by = p PROVE FALSE
            OBVIOUS
          <5>1. Op(p) = AddBoth /\ Younger \subseteq View(p).columns["tasks"]
            BY <2>1, Holding
          <5>2. t = "tasks" /\ c \in Younger
            BY <3>1, <5>1 DEF AddBoth, AddTo, Younger
          <5> QED BY <3>3, <5>1, <5>2
        <4>3. db' = disk /\ txn' = txn /\ View(p) = db
          BY <1>0, <4>1, <4>2 DEF Define
        <4>4. /\ db'.rows = db.rows
              /\ db'.columns["tasks"] =
                   IF t = "tasks" THEN db.columns["tasks"] \cup {c} ELSE db.columns["tasks"]
          <5> HIDE DEF t, c
          <5> QED BY <1>0, <3>1, <4>3 DEF Files, Tables
        <4>5. CASE t = "tasks"
          <5>1. Table!AddColumn(c)
            BY <3>3, <4>3, <4>4, <4>5 DEF Table!AddColumn
          <5> QED BY <3>1, <4>2, <4>3, <4>5, <5>1 DEF Goal, HolderInv, TableMoves, Table!Next
        <4>6. CASE t # "tasks"
          BY <4>2, <4>3, <4>4, <4>6, TableStays DEF Goal, HolderInv
        <4> QED BY <4>5, <4>6
      <3> QED BY <3>2, <3>3
    <2> QED BY <1>7, <2>2, <2>3 DEF AddColumn
  <1>8. CASE Seed(p)
    <2>1. Running(p) /\ Op(p).op = "seed" /\ Modify(p, View(p))
      BY <1>1, <1>8 DEF Seed
    <2>2. txn.by # p /\ View(p) = db
      BY <1>0, <2>1, Holding
    <2>3. /\ db' = db /\ txn' = [by |-> p, view |-> db] /\ proc'[p] = Advance(p)
      BY <1>4, <2>1, <2>2 DEF Modify
    <2>8. \/ proc[p].kind = "init" /\ proc[p].at = 17
          \/ proc[p].kind = "rubric"
      BY <1>0, <2>1, ProgramOrder DEF ProcessInv, Op
    <2>4. CASE proc[p].kind = "init" /\ proc[p].at = 17
      <3>5. Op(p)'.op # "swap" /\ proc'[p].kind = "init" /\ proc'[p].at = 18
        BY <1>0, <2>1, <2>3, <2>4, GoesTo
      <3>6. db.columns["tasks"] # {}
        <4>1. InitProgress(p) /\ proc[p].at - 1 = 16
          BY <1>0, <2>4 DEF ProcessInv
        <4>2. \A j \in 1..16 : Program("init")[j].op = "create" =>
                               View(p).columns[Program("init")[j].table] # {}
          BY <2>1, <2>4, <4>1 DEF InitProgress
        <4>3. Program("init")[1].op = "create" /\ Program("init")[1].table = "tasks"
          BY InitIs, SMTT(60) DEF Create
        <4> QED BY <2>2, <4>2, <4>3
      <3>7. Transaction(p)'
        BY <2>3, <3>5, <3>6 DEF Transaction
      <3> QED BY <2>3, <3>7, TableStays DEF Goal, HolderInv
    <2>5. CASE proc[p].kind = "rubric"
      <3>1. Op(p)'.op = "commit" /\ proc'[p].kind = "rubric"
        BY <1>0, <2>1, <2>3, <2>5, GoesTo
      <3>2. Transaction(p)'
        BY <2>3, <3>1 DEF Transaction
      <3> QED BY <2>3, <3>2, TableStays DEF Goal, HolderInv
    <2> QED BY <2>4, <2>5, <2>8
  <1>9. CASE IfLegacy(p)
    <2>1. Running(p) /\ Op(p).op = "if_legacy" /\ UNCHANGED <<db, txn>>
      BY <1>1, <1>9 DEF IfLegacy
    <2> DEFINE n == Len(Program(proc[p].kind))
    <2>2. CASE proc'[p] = Advance(p)
      <3>1. Op(p)'.op # "swap" /\ proc'[p].kind = proc[p].kind /\ proc'[p].at = proc[p].at + 1
        BY <1>0, <2>1, <2>2, GoesTo
      <3>2. txn.by = p => Transaction(p)'
        BY <1>0, <2>1, <3>1, Carries
      <3> QED BY <2>1, <3>2, TableStays DEF Goal, HolderInv
    <2>3. CASE proc'[p] = Jump(p, n)
      <3>1. n \in Nat \ {0} /\ proc[p].at \in 1..n /\ n \in 1..n
        <4>1. n \in Nat \ {0}
          BY <1>0, ProgramShape
        <4>2. n \in 1..n
          BY <4>1
        <4> QED BY <1>0, <4>1, <4>2 DEF ProcessInv
      <3>2. Program(proc[p].kind)[n].op = "commit"
        BY <1>0, <3>1, ProgramShape
      <3>3. proc'[p].kind = proc[p].kind /\ proc'[p].at = n
        <4>1. \A m \in Nat : Jump(p, m).kind = proc[p].kind /\ Jump(p, m).at = m
          BY <1>0, JumpIs
        <4> QED BY <2>3, <3>1, <4>1
      <3>4. Op(p)'.op = "commit" /\ proc'[p].at \in Nat /\ proc'[p].at >= proc[p].at
        BY <3>1, <3>2, <3>3 DEF Op
      <3>5. txn.by = p => Transaction(p)'
        BY <1>0, <2>1, <3>3, <3>4, Carries
      <3> QED BY <2>1, <3>5, TableStays DEF Goal, HolderInv
    <2>4. proc'[p] = Advance(p) \/ proc'[p] = Jump(p, n)
      BY <1>0, <1>9 DEF IfLegacy
    <2> QED BY <2>2, <2>3, <2>4
  <1>10. CASE DropNew(p)
    <2> DEFINE disk == [View(p) EXCEPT !.columns["tasks_new"] = {}, !.copy = {}]
    <2>1. Running(p) /\ Op(p).op = "drop_new" /\ Define(p, disk, Advance(p))
      BY <1>1, <1>10 DEF DropNew
    <2>2. disk.rows = View(p).rows /\ disk.columns["tasks"] = View(p).columns["tasks"]
      BY <1>0 DEF Files
    <2> HIDE DEF disk
    <2>3. /\ Advance(p).kind = proc[p].kind /\ Advance(p).at = proc[p].at + 1
          /\ Op(p)'.op # "swap"
      <3>1. proc'[p] = Advance(p)
        BY <1>4, <2>1 DEF Define
      <3> QED BY <1>0, <2>1, <3>1, GoesTo, AdvanceIs
    <2> QED BY <1>5, <2>1, <2>2, <2>3
  <1>11. CASE CreateNew(p)
    <2> DEFINE disk == [View(p) EXCEPT !.columns["tasks_new"] = RebuiltColumns]
    <2>1. Running(p) /\ Op(p).op = "create_new" /\ (Fails(p) \/ Define(p, disk, Advance(p)))
      BY <1>1, <1>11 DEF CreateNew
    <2>2. disk.rows = View(p).rows /\ disk.columns["tasks"] = View(p).columns["tasks"]
      BY <1>0 DEF Files
    <2> HIDE DEF disk
    <2>3. ASSUME Define(p, disk, Advance(p))
          PROVE  /\ Advance(p).kind = proc[p].kind /\ Advance(p).at = proc[p].at + 1
                 /\ Op(p)'.op # "swap"
      <3>1. proc'[p] = Advance(p)
        BY <1>4, <2>3 DEF Define
      <3> QED BY <1>0, <2>1, <3>1, GoesTo, AdvanceIs
    <2> QED BY <1>3, <1>5, <2>1, <2>2, <2>3
  <1>12. CASE CopyRows(p)
    <2> DEFINE disk == [View(p) EXCEPT !.copy = View(p).rows]
    <2>1. Running(p) /\ Op(p).op = "copy"
      BY <1>1, <1>12 DEF CopyRows
    <2>2. CASE Fails(p)
      BY <1>3, <2>2
    <2>3. CASE Modify(p, disk) /\ View(p).columns["tasks"] # {}
      <3>1. /\ disk.rows = View(p).rows /\ disk.columns = View(p).columns
            /\ disk.copy = View(p).rows
        BY <1>0 DEF Files
      <3> HIDE DEF disk
      <3>2. db' = db /\ txn' = [by |-> p, view |-> disk] /\ proc'[p] = Advance(p)
        BY <1>4, <2>3 DEF Modify
      <3>3. /\ Op(p)'.op = "swap" /\ proc'[p].kind = proc[p].kind
            /\ proc'[p].at = proc[p].at + 1
        BY <1>0, <2>1, <3>2, GoesTo
      <3>4. /\ proc[p].kind \in {"init", "script"}
            /\ proc[p].kind = "init" => proc[p].at >= 18
        BY <1>0, <2>1, ProgramOrder DEF ProcessInv, Op
      <3>5. View(p).rows = db.rows /\ View(p).columns["tasks"] = db.columns["tasks"]
        <4>1. CASE txn.by = p
          BY <2>1, <3>4, <4>1, Holding DEF Transaction
        <4>2. CASE txn.by # p
          BY <1>0, <4>2
        <4> QED BY <4>1, <4>2
      <3>6. Transaction(p)'
        BY <1>0, <2>3, <3>1, <3>2, <3>3, <3>4, <3>5 DEF Transaction
      <3> QED BY <3>2, <3>6, TableStays DEF Goal, HolderInv
    <2> QED BY <1>12, <2>2, <2>3 DEF CopyRows
  <1>13. CASE SwapTables(p)
    <2> DEFINE disk == [View(p) EXCEPT !.columns["tasks"] = View(p).columns["tasks_new"],
                                       !.columns["tasks_new"] = {},
                                       !.rows = View(p).copy, !.copy = {}]
    <2>1. Running(p) /\ Op(p).op = "swap" /\ Define(p, disk, Advance(p)) /\ At(p, "swap")
      BY <1>1, <1>13 DEF SwapTables
    <2>2. /\ txn.by = p /\ View(p) = txn.view /\ View(p).columns["tasks_new"] = RebuiltColumns
      <3>1. SwapFollowsCopy(p)
        BY <1>0 DEF ProcessInv
      <3> QED BY <1>0, <2>1, <3>1 DEF SwapFollowsCopy, View, FileIsSound
    <2>3. Transaction(p) /\ proc[p].kind \in {"init", "script"}
      BY <2>1, <2>2, Holding
    <2>4. disk.rows = db.rows /\ disk.columns["tasks"] = RebuiltColumns
      <3>1. View(p).copy = db.rows
        BY <2>1, <2>2, <2>3 DEF Transaction
      <3> QED BY <1>0, <2>2, <3>1 DEF Files, Tables
    <2> HIDE DEF disk
    <2>5. /\ db' = db /\ txn'.by = p /\ txn'.view = disk /\ proc'[p] = Advance(p)
      BY <1>0, <1>4, <2>1, <2>2 DEF Define
    <2>6. /\ Op(p)'.op = "commit" /\ proc'[p].kind = proc[p].kind
          /\ proc'[p].at = proc[p].at + 1
      BY <1>0, <2>1, <2>5, GoesTo
    <2>7. Transaction(p)'
      BY <1>0, <2>3, <2>4, <2>5, <2>6 DEF Transaction
    <2> QED BY <2>5, <2>7, TableStays DEF Goal, HolderInv
  <1>14. CASE InsertRow(p)
    <2> DEFINE disk == [View(p) EXCEPT !.rows = @ \cup {p}]
    <2>1. Running(p) /\ Op(p).op = "insert"
      BY <1>1, <1>14 DEF InsertRow
    <2>2. txn.by # p /\ View(p) = db /\ proc[p].kind = "dao"
      <3>1. proc[p].kind = "dao"
        BY <1>0, <2>1, ProgramOrder DEF ProcessInv, Op
      <3> QED BY <1>0, <2>1, <3>1, Holding
    <2>3. CASE Fails(p)
      BY <1>3, <2>3
    <2>4. CASE Modify(p, disk) /\ "teacher" \in View(p).columns["tasks"]
      <3>1. disk.rows = db.rows \cup {p} /\ disk.columns = db.columns
        BY <1>0, <2>2 DEF Files
      <3> HIDE DEF disk
      <3>2. db' = db /\ txn' = [by |-> p, view |-> disk] /\ proc'[p] = Advance(p)
        BY <1>4, <2>4 DEF Modify
      <3>3. Op(p)'.op = "commit" /\ proc'[p].kind = "dao"
        BY <1>0, <2>1, <2>2, <3>2, GoesTo
      <3>4. Transaction(p)'
        BY <2>2, <2>4, <3>1, <3>2, <3>3 DEF Transaction
      <3> QED BY <3>2, <3>4, TableStays DEF Goal, HolderInv
    <2> QED BY <1>14, <2>3, <2>4 DEF InsertRow
  <1>15. CASE Commit(p)
    <2>1. Running(p) /\ Op(p).op = "commit" /\ db' = View(p)
      BY <1>1, <1>15 DEF Commit
    <2>2. HolderInv(p)
      BY <1>0, <1>15 DEF Commit, NoTransaction, HolderInv
    <2>3. CASE txn.by # p
      BY <1>0, <2>1, <2>2, <2>3, TableStays DEF Goal
    <2>4. CASE txn.by = p
      <3>1. Transaction(p) /\ db' = txn.view
        BY <2>1, <2>4, Holding
      <3>2. CASE proc[p].kind = "dao"
        <4>1. Table!Insert(p)
          BY <3>1, <3>2 DEF Transaction, Table!Insert
        <4> QED BY <2>2, <4>1 DEF Goal, TableMoves, Table!Next
      <3>3. CASE proc[p].kind # "dao" /\ txn.view.columns["tasks"] = db.columns["tasks"]
        BY <1>0, <2>2, <3>1, <3>3, TableStays DEF Transaction, Goal, Kinds
      <3>4. CASE /\ proc[p].kind \in {"init", "script"}
                 /\ txn.view.columns["tasks"] = RebuiltColumns
        <4>1. Table!DropLegacyColumns
          BY <3>1, <3>4 DEF Transaction, Table!DropLegacyColumns, RebuiltColumns
        <4> QED BY <2>2, <4>1 DEF Goal, TableMoves, Table!Next
      <3> QED BY <1>0, <3>1, <3>2, <3>3, <3>4 DEF Transaction, Kinds
    <2> QED BY <2>3, <2>4
  <1>16. CASE ReadColumns(p)
    <2>1. /\ Running(p) /\ Op(p).op = "add" /\ UNCHANGED <<db, txn>>
          /\ proc' = [proc EXCEPT ![p].read = TRUE, ![p].seen = View(p).columns[Op(p).table]]
      BY <1>1, <1>16 DEF ReadColumns
    <2>2. proc'[p].kind = proc[p].kind /\ proc'[p].at = proc[p].at
      BY <1>0, <2>1 DEF ProcRecords
    <2>3. Op(p)' = Op(p)
      BY <2>2 DEF Op
    <2>4. txn.by = p => Transaction(p)'
      BY <1>0, <2>1, <2>2, <2>3, Carries
    <2> QED BY <2>1, <2>4, TableStays DEF Goal, HolderInv
  <1>17. CASE LockTimesOut(p)
    BY <1>2, <1>17 DEF LockTimesOut, MayWrite
  <1>18. CASE Crash(p)
    BY <1>0, <1>2, <1>18 DEF Crash, NoTransaction
  <1>19. CASE StartAgain(p)
    BY <1>0, <1>2, <1>19 DEF StartAgain, Running
  <1> QED
    BY <1>6, <1>7, <1>8, <1>9, <1>10, <1>11, <1>12, <1>13, <1>14, <1>15, <1>16, <1>17, <1>18,
      <1>19, <1>20 DEF SchemaStep

LEMMA TransactionSteps ==
  TransactionInv /\ [SchemaNext]_schemaVars => TransactionInv' /\ TableMoves
  <1> SUFFICES ASSUME TransactionInv, [SchemaNext]_schemaVars
               PROVE  TransactionInv' /\ TableMoves
    OBVIOUS
  <1>1. SchemaInv'
    BY SchemaSteps DEF TransactionInv
  <1>2. CASE UNCHANGED schemaVars
    <2>1. \A q \in Procs : Transaction(q)' <=> Transaction(q)
      BY <1>2 DEF schemaVars, Transaction, Op
    <2> QED BY <1>1, <1>2, <2>1, TableStays DEF TransactionInv, schemaVars
  <1>3. ASSUME NEW p \in Procs, SchemaStep(p) PROVE TransactionInv' /\ TableMoves
    <2>1. HolderInv(p) /\ TableMoves
      BY <1>3, HolderMoves
    <2>2. ASSUME NEW q \in Procs \ {p}, txn'.by = q PROVE Transaction(q)'
      <3>1. /\ UNCHANGED <<db, txn>>
            /\ proc'[q].kind = proc[q].kind /\ proc'[q].at = proc[q].at
        BY <1>3, <2>2, OthersWait DEF TransactionInv
      <3>2. Transaction(q)
        BY <2>2, <3>1 DEF TransactionInv
      <3>3. Op(q)' = Op(q)
        BY <3>1 DEF Op
      <3> QED BY <3>1, <3>2, <3>3 DEF Transaction
    <2> QED BY <1>1, <2>1, <2>2 DEF TransactionInv, HolderInv
  <1> QED BY <1>2, <1>3 DEF SchemaNext, SchemaStep

(* Whatever statement each process is at, and whichever dies or gives up,  *)
(* the others see the tasks table as TaskTable has it: a rebuild is one    *)
(* step that keeps every row, because the process that swaps the tables    *)
(* has held the write lock since it copied the rows.                       *)
THEOREM SchemaImplemented == SchemaSpec => TableSpec
  <1>1. SchemaInit => TransactionInv /\ Table!Init
    <2> SUFFICES ASSUME SchemaInit PROVE TransactionInv /\ Table!Init
      OBVIOUS
    <2>1. TransactionInv
      BY SchemaStarts, SchemaAssumption DEF SchemaInit, SchemaAssumption, NoOne, TransactionInv
    <2>2. Table!Init
      <3>1. /\ NoFile.columns["tasks"] = {} /\ NoFile.rows = {}
            /\ OldFile.columns["tasks"] = {"id", "legacy"}
            /\ RubricFile.columns["tasks"] = {"id", "legacy"}
            /\ LaterFile.columns["tasks"] = {"id", "celery", "legacy"}
        BY DEF NoFile, OldFile, RubricFile, LaterFile, Tables
      <3> QED BY <3>1 DEF SchemaInit, Table!Init
    <2> QED BY <2>1, <2>2
  <1> QED
    BY <1>1, TransactionSteps, PTL DEF SchemaSpec, TableSpec, Table!Spec, TableMoves

(* Who fails of itself: of the steps that leave a process, only a          *)
(* statement's error leaves it without another having been in the way, and *)
(* for init_db, the script and the saving of a rubric that is the index.   *)
LEMMA LoneFailure ==
  ASSUME TransactionInv, NEW q \in Procs, SchemaStep(q), NEW p \in Procs,
         proc[p].state = "running", proc'[p].state = "failed", proc[p].kind # "dao",
         proc'[p].alone
  PROVE  proc[p].kind = "init" /\ db.columns["rubrics"] = {"id"}
  <1> DEFINE Goal == proc[p].kind = "init" /\ db.columns["rubrics"] = {"id"}
  <1> SUFFICES Goal
    OBVIOUS
  <1>0. /\ SchemaInv /\ proc \in [Procs -> ProcRecords] /\ Running(p) /\ ProcessInv(p)
        /\ FileIsSound(db) /\ SchemaStep(p) /\ proc[p].kind \in Kinds
    <2>1. SchemaInv
      BY DEF TransactionInv
    <2>2. p = q
      BY <2>1, OthersWait
    <2> QED BY <2>1, <2>2 DEF SchemaInv, FilesInv, Running, ProcRecords
  <1>1. ASSUME NEW self, Moves(p, self) PROVE proc'[p] = self
    BY <1>1 DEF Moves
  <1>2. ASSUME Op(p).op # "commit" PROVE ~Moves(p, Advance(p))
    <2>1. Advance(p).state = "running"
      BY <1>0, <1>2, AdvanceIs
    <2> QED BY <1>1, <2>1
  <1>3. ASSUME NEW disk, Op(p).op # "commit" PROVE ~Define(p, disk, Advance(p))
    BY <1>2, <1>3 DEF Define
  <1>4. ASSUME NEW disk, Op(p).op # "commit" PROVE ~Modify(p, disk)
    BY <1>2, <1>4 DEF Modify
  <1>5. ASSUME Fails(p) PROVE proc[p].alone
    <2> DEFINE j == Jump(p, 1)
               self == [j EXCEPT !.state = "failed"]
    <2>1. j \in ProcRecords /\ j.alone = proc[p].alone
      BY <1>0, JumpIs
    <2>2. proc'[p] = self
      BY <1>1, <1>5 DEF Fails
    <2> HIDE DEF j
    <2> QED BY <2>1, <2>2 DEF ProcRecords
  <1>6. ASSUME NEW op, At(p, op) PROVE Op(p).op = op
    BY <1>6 DEF At
  <1> HIDE DEF Goal
  <1>7. CASE CreateTable(p) \/ DropNew(p) \/ SwapTables(p)
    BY <1>3, <1>6, <1>7 DEF CreateTable, DropNew, SwapTables
  <1>8. CASE Seed(p)
    BY <1>4, <1>6, <1>8 DEF Seed
  <1>9. CASE CreateIndex(p)
    <2>1. At(p, "index") /\ Op(p).op = "index"
      BY <1>6, <1>9 DEF CreateIndex
    <2>2. proc[p].kind = "init" /\ proc[p].at = 8 /\ Op(p) = Index("rubrics", "fingerprint")
      <3>1. /\ proc[p].at \in 1..Len(Program(proc[p].kind))
            /\ Op(p) = Program(proc[p].kind)[proc[p].at]
        BY <1>0 DEF ProcessInv, Op
      <3> QED BY <1>0, <2>1, <3>1, ProgramShape DEF Shape
    <2>3. View(p) = db
      <3>1. txn.by # p
        BY <1>0, <2>1, Holding
      <3> QED BY <3>1 DEF View
    <2>4. "fingerprint" \notin db.columns["rubrics"]
      BY <1>3, <1>9, <2>1, <2>2, <2>3 DEF CreateIndex, Index
    <2>5. db.columns["rubrics"] # {}
      <3>1. InitProgress(p) /\ proc[p].at - 1 = 7
        BY <1>0, <2>2 DEF ProcessInv
      <3>2. \A i \in 1..7 : Program("init")[i].op = "create" =>
                            View(p).columns[Program("init")[i].table] # {}
        BY <1>0, <2>2, <3>1 DEF InitProgress
      <3>3. Program("init")[6].op = "create" /\ Program("init")[6].table = "rubrics"
        BY InitPlaces DEF Create
      <3> QED BY <2>3, <3>2, <3>3
    <2> QED BY <1>0, <2>2, <2>4, <2>5 DEF FileIsSound, Goal
  <1>10. CASE AddColumn(p)
    <2>1. At(p, "add") /\ proc[p].read /\ Op(p).op = "add"
      BY <1>6, <1>10 DEF AddColumn
    <2>2. /\ View(p).columns[Op(p).table] # {}
          /\ proc[p].alone => proc[p].seen = View(p).columns[Op(p).table]
      BY <1>0, <2>1 DEF ProcessInv, TableStands
    <2>3. ASSUME NEW i \in ToAdd(p),
                 LET t == Op(p).table
                     c == Op(p).adds[i]
                 IN IF View(p).columns[t] = {} \/ c \in View(p).columns[t] THEN Fails(p)
                    ELSE Define(p, [View(p) EXCEPT !.columns[t] = @ \cup {c}],
                                [proc[p] EXCEPT !.seen = @ \cup {c}])
          PROVE  Goal
      <3>1. Op(p).adds[i] \notin proc[p].seen
        BY DEF ToAdd
      <3>2. CASE Fails(p)
        <4>1. Op(p).adds[i] \notin View(p).columns[Op(p).table]
          BY <1>5, <2>2, <3>1, <3>2
        <4>2. \E disk, c : Define(p, disk, [proc[p] EXCEPT !.seen = @ \cup {c}])
          BY <2>2, <2>3, <4>1
        <4>3. PICK c : proc'[p] = [proc[p] EXCEPT !.seen = @ \cup {c}]
          BY <1>1, <4>2 DEF Define
        <4> QED BY <1>0, <4>3 DEF ProcRecords
      <3>3. CASE \E disk, c : Define(p, disk, [proc[p] EXCEPT !.seen = @ \cup {c}])
        <4>1. PICK c : proc'[p] = [proc[p] EXCEPT !.seen = @ \cup {c}]
          BY <1>1, <3>3 DEF Define
        <4> QED BY <1>0, <4>1 DEF ProcRecords
      <3> QED BY <2>3, <3>2, <3>3
    <2> QED BY <1>2, <1>10, <2>1, <2>3 DEF AddColumn
  <1>11. CASE CreateNew(p)
    <2>1. At(p, "create_new")
      BY <1>11 DEF CreateNew
    <2>2. proc[p].alone => View(p).columns["tasks_new"] = {}
      BY <1>0, <2>1 DEF ProcessInv, TableStands
    <2> QED BY <1>3, <1>5, <1>6, <1>11, <2>1, <2>2 DEF CreateNew
  <1>12. CASE CopyRows(p)
    <2>1. At(p, "copy") /\ Op(p).op = "copy"
      BY <1>6, <1>12 DEF CopyRows
    <2>2. Op(p).table = "tasks"
      BY <1>0, <2>1, AdvanceIs DEF Shape
    <2>3. /\ View(p).columns["tasks"] # {}
          /\ proc[p].alone => View(p).columns["tasks_new"] # {}
      BY <1>0, <2>1, <2>2 DEF ProcessInv, TableStands
    <2> QED BY <1>4, <1>5, <1>12, <2>1, <2>3 DEF CopyRows
  <1>13. CASE InsertRow(p)
    <2>1. Op(p).op = "insert"
      BY <1>6, <1>13 DEF InsertRow
    <2> QED BY <1>0, <2>1, ProgramOrder DEF ProcessInv, Op
  <1>14. CASE Commit(p)
    <2>1. proc'[p] = [proc[p] EXCEPT !.state = "done"]
      BY <1>1, <1>14 DEF Commit
    <2> QED BY <1>0, <2>1 DEF ProcRecords
  <1>15. CASE LockTimesOut(p)
    <2> DEFINE j == Jump(p, 1)
    <2>1. /\ j \in ProcRecords
          /\ \/ proc'[p] = [j EXCEPT !.state = "failed", !.alone = FALSE]
             \/ proc'[p] = [j EXCEPT !.tries = @ + 1, !.alone = FALSE]
      BY <1>0, <1>15, JumpIs DEF LockTimesOut
    <2> HIDE DEF j
    <2> QED BY <2>1 DEF ProcRecords
  <1>16. CASE ReadColumns(p) \/ Crash(p) \/ StartAgain(p)
    BY <1>0, <1>16 DEF ReadColumns, Crash, StartAgain, Running, ProcRecords
  <1>17. CASE IfLegacy(p)
    <2> DEFINE n == Len(Program(proc[p].kind))
    <2>1. n \in Nat
      BY <1>0, ProgramShape
    <2>2. Op(p).op = "if_legacy"
      BY <1>6, <1>17 DEF IfLegacy
    <2>3. Advance(p).state = "running" /\ Jump(p, n).state = "running"
      BY <1>0, <2>1, <2>2, AdvanceIs, JumpIs DEF Running
    <2>4. proc'[p] \in {Advance(p), Jump(p, n)}
      BY <1>0, <1>17 DEF IfLegacy
    <2> QED BY <2>3, <2>4
  <1> QED BY <1>0, <1>7, <1>8, <1>9, <1>10, <1>11, <1>12, <1>13, <1>14, <1>15, <1>16, <1>17
    DEF SchemaStep

(* What a dead process leaves, tasks_new with or without rows, stops       *)
(* neither init_db nor the script nor the saving of a rubric: one that     *)
(* fails though nobody else changed the schema since it began is a start   *)
(* of the API on rubrics that have no fingerprint yet, which the index of  *)
(* schema.sql needs.                                                       *)
THEOREM LeftoversNeverBlock == SchemaSpec => LeftoversDoNotBlock
  <1> DEFINE Excused == \A p \in Procs :
               /\ proc[p].state = "running" /\ proc'[p].state = "failed"
               /\ proc[p].kind # "dao" /\ proc'[p].alone
               => proc[p].kind = "init" /\ db.columns["rubrics"] = {"id"}
  <1>1. SchemaInit => TransactionInv
    BY SchemaStarts, SchemaAssumption DEF SchemaInit, SchemaAssumption, NoOne, TransactionInv
  <1>2. TransactionInv /\ [SchemaNext]_schemaVars => [Excused]_schemaVars
    <2> SUFFICES ASSUME TransactionInv, SchemaNext PROVE Excused
      OBVIOUS
    <2>1. PICK q \in Procs : SchemaStep(q)
      BY DEF SchemaNext, SchemaStep
    <2> QED BY <2>1, LoneFailure
  <1>3. TransactionInv /\ [SchemaNext]_schemaVars => TransactionInv'
    BY TransactionSteps
  <1> QED BY <1>1, <1>2, <1>3, PTL DEF SchemaSpec, LeftoversDoNotBlock

-----------------------------------------------------------------------------
(***************************************************************************)
(* The operations console.                                                 *)
(***************************************************************************)
Steps == {"idle", "apply", "store", "log"}

CallRecords == [pc : Steps, change : Changes \cup {NoChange}]

ReaderRecords == [page : Nat, from : Nat, seen : SUBSET Nat]

(* The process has it, the log does not.                                   *)
UnderWay(o) == call[o].pc \in {"store", "log"}

Touching(o, s) == UnderWay(o) /\ Touches(call[o].change.action, s)

(* What a change makes of a setting that it touches.                       *)
Effect(change, s) == IF s = change.action THEN change.value ELSE Default(s)

SinceBoot(s) == {i \in boot + 1..Len(audit) : Touches(audit[i].action, s)}
EntriesOf(s)   == {i \in DOMAIN audit : audit[i].action = s}

(* Undisturbed requests that are under way have nothing in common.         *)
Apart ==
  \A o, p \in Operators :
    o # p /\ UnderWay(o) /\ UnderWay(p) =>
      ~Touches(call[o].change.action, call[p].change.action)

(* A setting is what the request under way that touches it has made of it, *)
(* and if there is none, what the log says.                                *)
SettingHolds(s) ==
  /\ \A o \in Operators : Touching(o, s) => live[s] = Effect(call[o].change, s)
  /\ (\A o \in Operators : ~Touching(o, s)) => live[s] = LastSaid(s, SinceBoot(s))

RowHolds(s) ==
  /\ \A o \in Operators :
       call[o].pc = "log" /\ call[o].change.action = s => stored[s] = call[o].change.value
  /\ (\A o \in Operators : ~(call[o].pc = "log" /\ call[o].change.action = s)) =>
       stored[s] = LastSaid(s, EntriesOf(s))

Honest ==
  ~disturbed =>
    /\ Apart
    /\ \A s \in InProcess : SettingHolds(s)
    /\ \A s \in Persisted : RowHolds(s)

ConsoleTyped ==
  /\ DOMAIN live = InProcess /\ DOMAIN stored = Persisted
  /\ \A a \in InProcess : live[a] \in ValuesOf(a)
  /\ \A a \in Persisted : stored[a] \in ValuesOf(a)
  /\ call \in [Operators -> CallRecords]
  /\ \A o \in Operators : call[o].pc # "idle" => call[o].change \in Changes
  /\ \A o \in Operators : call[o].pc = "store" => call[o].change.action \in Persisted
  /\ audit \in Seq(Changes) /\ Len(audit) <= MaxLog
  /\ boot \in 0..Len(audit) /\ disturbed \in BOOLEAN /\ faults \in 0..MaxFaults

(* An entry of interest that was there has been seen, or is still to come. *)
ReaderInv ==
  /\ reader \in ReaderRecords
  /\ reader.from <= Len(audit) /\ reader.seen \subseteq 1..Len(audit)
  /\ reader.page # 0 =>
       \A i \in 1..reader.from :
         audit[i].action \in OpsLogged =>
           i \in reader.seen \/ Len(audit) - i >= reader.page * PageSize

ConsoleInv == ConsoleTyped /\ Honest /\ ReaderInv

LEMMA ChangesAre ==
  ASSUME NEW c
  PROVE  /\ c \in Changes => c.action \in Actions /\ c.value \in ValuesOf(c.action)
         /\ c \in Changes <=> \E a \in Actions : \E v \in ValuesOf(a) :
                                c = [action |-> a, value |-> v]
  <1>1. c \in Changes <=> \E a \in Actions : c \in [action : {a}, value : ValuesOf(a)]
    BY DEF Changes
  <1>2. ASSUME NEW a
        PROVE  c \in [action : {a}, value : ValuesOf(a)] <=>
                 \E v \in ValuesOf(a) : c = [action |-> a, value |-> v]
    OBVIOUS
  <1>3. c \in Changes <=> \E a \in Actions : \E v \in ValuesOf(a) :
                            c = [action |-> a, value |-> v]
    BY <1>1, <1>2
  <1>4. c \in Changes => c.action \in Actions /\ c.value \in ValuesOf(c.action)
    <2> SUFFICES ASSUME c \in Changes
                 PROVE  c.action \in Actions /\ c.value \in ValuesOf(c.action)
      OBVIOUS
    <2>1. PICK a \in Actions : \E v \in ValuesOf(a) : c = [action |-> a, value |-> v]
      BY <1>3
    <2>2. PICK v \in ValuesOf(a) : c = [action |-> a, value |-> v]
      BY <2>1
    <2>3. c.action = a /\ c.value = v
      BY <2>2
    <2> QED BY <2>1, <2>2, <2>3
  <1> QED BY <1>3, <1>4

LEMMA DefaultIs ==
  ASSUME NEW a
  PROVE  Default(a) \in ValuesOf(a)
  BY ConsoleAssumption DEF ConsoleAssumption, Default, ValuesOf

(* The last of some entries is one of them.                                *)
LEMMA LastEntry ==
  ASSUME NEW n \in Nat, NEW S \in SUBSET (1..n), S # {}
  PROVE  Max(S) \in S /\ \A y \in S : Max(S) >= y
  <1> DEFINE T == {n - x : x \in S}
  <1>1. T \in SUBSET Nat /\ T # {}
    <2>1. \A x \in S : x \in 1..n
      OBVIOUS
    <2>2. \A x \in 1..n : n - x \in Nat
      OBVIOUS
    <2> QED BY <2>1, <2>2
  <1>2. PICK t \in T : \A u \in T : ~(<<u, t>> \in OpToRel(<, Nat))
    <2> HIDE DEF T
    <2> QED BY <1>1, NatLessThanWellFounded, WFMin, Zenon
  <1>3. \A u \in T : ~(u < t)
    <2>1. \A u \in T : <<u, t>> \in Nat \X Nat
      BY <1>1
    <2> QED BY <1>2, <2>1 DEF OpToRel
  <1>4. PICK m \in S : t = n - m
    OBVIOUS
  <1>5. ASSUME NEW y \in S PROVE m >= y
    <2>1. n - y \in T /\ ~(n - y < n - m)
      BY <1>3, <1>4
    <2> QED BY <2>1
  <1>6. \E x \in S : \A y \in S : x >= y
    BY <1>5
  <1> QED BY <1>6 DEF Max

LEMMA NewestEntry ==
  ASSUME NEW n \in Nat, NEW S \in SUBSET (1..n), n \in S
  PROVE  Max(S) = n
  <1>1. Max(S) \in S /\ Max(S) >= n
    BY LastEntry
  <1>2. Max(S) \in 1..n
    BY <1>1
  <1> QED BY <1>1, <1>2

(* What the log says after an entry more.                                  *)
LEMMA LogGrows ==
  ASSUME ConsoleTyped, NEW c \in Changes, audit' = Append(audit, c), boot' = boot, NEW s
  PROVE  /\ Touches(c.action, s) => LastSaid(s, SinceBoot(s))' = Effect(c, s)
         /\ ~Touches(c.action, s) => LastSaid(s, SinceBoot(s))' = LastSaid(s, SinceBoot(s))
         /\ c.action = s => LastSaid(s, EntriesOf(s))' = c.value
         /\ c.action # s => LastSaid(s, EntriesOf(s))' = LastSaid(s, EntriesOf(s))
  <1> DEFINE n == Len(audit) + 1
  <1>1. /\ audit \in Seq(Changes) /\ Len(audit) \in Nat /\ boot \in 0..Len(audit)
        /\ audit' \in Seq(Changes) /\ Len(audit)' = n /\ n \in Nat
        /\ DOMAIN audit = 1..Len(audit) /\ DOMAIN audit' = 1..n
        /\ audit'[n] = c /\ \A i \in 1..Len(audit) : audit'[i] = audit[i]
    BY DEF ConsoleTyped
  <1>2. /\ SinceBoot(s) \subseteq 1..Len(audit) /\ EntriesOf(s) \subseteq 1..Len(audit)
        /\ SinceBoot(s)' \subseteq 1..n /\ EntriesOf(s)' \subseteq 1..n
    BY <1>1 DEF SinceBoot, EntriesOf
  <1>3. ASSUME Touches(c.action, s) PROVE LastSaid(s, SinceBoot(s))' = Effect(c, s)
    <2>1. n \in SinceBoot(s)'
      BY <1>1, <1>3 DEF SinceBoot
    <2>2. Max(SinceBoot(s)') = n
      <3> DEFINE S == SinceBoot(s)'
      <3>1. S \in SUBSET (1..n) /\ n \in S /\ n \in Nat
        BY <1>1, <1>2, <2>1
      <3> HIDE DEF S, n
      <3>2. Max(S) = n
        BY <3>1, NewestEntry
      <3> QED BY <3>2 DEF S
    <2> QED BY <1>1, <2>1, <2>2 DEF LastSaid, Effect
  <1>4. ASSUME ~Touches(c.action, s)
        PROVE  LastSaid(s, SinceBoot(s))' = LastSaid(s, SinceBoot(s))
    <2>1. SinceBoot(s)' = SinceBoot(s)
      BY <1>1, <1>4 DEF SinceBoot
    <2>2. SinceBoot(s) # {} => Max(SinceBoot(s)) \in 1..Len(audit)
      BY <1>1, <1>2, LastEntry
    <2> QED BY <1>1, <2>1, <2>2 DEF LastSaid
  <1>5. ASSUME c.action = s PROVE LastSaid(s, EntriesOf(s))' = c.value
    <2>1. n \in EntriesOf(s)'
      BY <1>1, <1>5 DEF EntriesOf
    <2>2. Max(EntriesOf(s)') = n
      <3> DEFINE S == EntriesOf(s)'
      <3>1. S \in SUBSET (1..n) /\ n \in S /\ n \in Nat
        BY <1>1, <1>2, <2>1
      <3> HIDE DEF S, n
      <3>2. Max(S) = n
        BY <3>1, NewestEntry
      <3> QED BY <3>2 DEF S
    <2> QED BY <1>1, <1>5, <2>1, <2>2 DEF LastSaid
  <1>6. ASSUME c.action # s PROVE LastSaid(s, EntriesOf(s))' = LastSaid(s, EntriesOf(s))
    <2>1. EntriesOf(s)' = EntriesOf(s)
      BY <1>1, <1>6 DEF EntriesOf
    <2>2. EntriesOf(s) # {} => Max(EntriesOf(s)) \in 1..Len(audit)
      BY <1>1, <1>2, LastEntry
    <2> QED BY <1>1, <2>1, <2>2 DEF LastSaid
  <1> QED BY <1>3, <1>4, <1>5, <1>6

LEMMA AppliedIs ==
  ASSUME NEW c \in Changes, NEW settings, NEW s \in DOMAIN settings
  PROVE  Applied(settings, c)[s] = IF Touches(c.action, s) THEN Effect(c, s) ELSE settings[s]
  BY DEF Applied, Touches, Effect

LEMMA EffectType ==
  ASSUME NEW c \in Changes, NEW s
  PROVE  Effect(c, s) \in ValuesOf(s)
  BY ChangesAre, DefaultIs DEF Effect

(* A step that leaves the settings, the rows, the log and the requests     *)
(* under way alone.                                                        *)
LEMMA HonestStands ==
  ASSUME Honest, UNCHANGED <<live, stored, audit, boot, disturbed>>,
         \A o \in Operators : UnderWay(o) \/ UnderWay(o)' => call'[o] = call[o]
  PROVE  Honest'
  <1>1. /\ \A o \in Operators : UnderWay(o)' <=> UnderWay(o)
        /\ \A o \in Operators : call'[o].pc = "log" <=> call[o].pc = "log"
    BY DEF UnderWay
  <1>2. \A s : \A o \in Operators : Touching(o, s)' <=> Touching(o, s)
    BY <1>1 DEF Touching
  <1>3. \A s : /\ LastSaid(s, SinceBoot(s))' = LastSaid(s, SinceBoot(s))
               /\ LastSaid(s, EntriesOf(s))' = LastSaid(s, EntriesOf(s))
    BY DEF LastSaid, SinceBoot, EntriesOf
  <1>4. Apart => Apart'
    BY <1>1 DEF Apart
  <1>5. \A s : SettingHolds(s) => SettingHolds(s)'
    <2>1. \A o \in Operators : \A s : Touching(o, s) => call'[o] = call[o]
      BY DEF Touching
    <2> QED BY <1>2, <1>3, <2>1 DEF SettingHolds
  <1>6. \A s : RowHolds(s) => RowHolds(s)'
    <2>1. \A o \in Operators : call[o].pc = "log" => call'[o] = call[o]
      BY DEF UnderWay
    <2> QED BY <1>1, <1>3, <2>1 DEF RowHolds
  <1> QED BY <1>4, <1>5, <1>6 DEF Honest

LEMMA ReaderStands ==
  ASSUME ReaderInv, UNCHANGED <<audit, reader>>
  PROVE  ReaderInv'
  BY DEF ReaderInv

(* The types of what a request changes.                                    *)
LEMMA CallType ==
  ASSUME ConsoleTyped, NEW o \in Operators, NEW pc \in Steps,
         NEW change \in Changes \cup {NoChange}, pc # "idle" => change \in Changes,
         pc = "store" => change.action \in Persisted,
         call' = [call EXCEPT ![o] = [pc |-> pc, change |-> change]]
  PROVE  /\ call' \in [Operators -> CallRecords]
         /\ \A q \in Operators : call'[q].pc # "idle" => call'[q].change \in Changes
         /\ \A q \in Operators : call'[q].pc = "store" => call'[q].change.action \in Persisted
         /\ call'[o].pc = pc /\ call'[o].change = change
         /\ \A q \in Operators \ {o} : call'[q] = call[q]
  <1> DEFINE new == [pc |-> pc, change |-> change]
  <1>1. new \in CallRecords /\ new.pc = pc /\ new.change = change
    BY DEF CallRecords
  <1>2. call \in [Operators -> CallRecords] /\ call' = [call EXCEPT ![o] = new]
    BY DEF ConsoleTyped
  <1> HIDE DEF new, CallRecords
  <1>3. /\ call' \in [Operators -> CallRecords] /\ call'[o] = new
        /\ \A q \in Operators \ {o} : call'[q] = call[q]
    BY <1>1, <1>2
  <1> QED BY <1>1, <1>3 DEF ConsoleTyped

(* From one step of a request to the next.                                 *)
LEMMA PcOnly ==
  ASSUME ConsoleTyped, NEW o \in Operators, NEW pc
  PROVE  [call EXCEPT ![o].pc = pc] =
           [call EXCEPT ![o] = [pc |-> pc, change |-> call[o].change]]
  <1>1. call[o] \in CallRecords
    BY DEF ConsoleTyped
  <1>2. [call[o] EXCEPT !.pc = pc] = [pc |-> pc, change |-> call[o].change]
    BY <1>1 DEF CallRecords
  <1> QED BY <1>2 DEF ConsoleTyped

LEMMA ArriveKeeps ==
  ASSUME ConsoleInv, NEW o \in Operators, NEW change \in Requested, Arrive(o, change)
  PROVE  ConsoleInv'
  <1>1. /\ call' = [call EXCEPT ![o] = [pc |-> "apply", change |-> change]]
        /\ UNCHANGED <<live, stored, audit, boot, disturbed, faults, reader>>
        /\ change \in Changes /\ call[o].pc = "idle" /\ ConsoleTyped /\ Honest /\ ReaderInv
    BY ConsoleAssumption DEF ConsoleAssumption, Arrive, ConsoleInv
  <1>2. /\ call' \in [Operators -> CallRecords]
        /\ \A q \in Operators : call'[q].pc # "idle" => call'[q].change \in Changes
        /\ \A q \in Operators : call'[q].pc = "store" => call'[q].change.action \in Persisted
        /\ call'[o].pc = "apply" /\ \A q \in Operators \ {o} : call'[q] = call[q]
    <2> DEFINE pc == "apply"
    <2>1. pc \in Steps /\ pc # "store"
      BY DEF Steps
    <2> HIDE DEF pc
    <2>2. call' = [call EXCEPT ![o] = [pc |-> pc, change |-> change]]
      BY <1>1 DEF pc
    <2>3. /\ call' \in [Operators -> CallRecords]
          /\ \A q \in Operators : call'[q].pc # "idle" => call'[q].change \in Changes
          /\ \A q \in Operators : call'[q].pc = "store" => call'[q].change.action \in Persisted
          /\ call'[o].pc = pc /\ \A q \in Operators \ {o} : call'[q] = call[q]
      BY <1>1, <2>1, <2>2, CallType
    <2> QED BY <2>3 DEF pc
  <1>3. ConsoleTyped'
    BY <1>1, <1>2 DEF ConsoleTyped
  <1>4. \A q \in Operators : UnderWay(q) \/ UnderWay(q)' => call'[q] = call[q]
    BY <1>1, <1>2 DEF UnderWay
  <1> QED BY <1>1, <1>3, <1>4, HonestStands, ReaderStands DEF ConsoleInv

LEMMA ApplyKeeps ==
  ASSUME ConsoleInv, NEW o \in Operators, Apply(o)
  PROVE  ConsoleInv'
  <1> DEFINE c == call[o].change
             pc == IF c.action \in Persisted THEN "store" ELSE "log"
  <1>1. /\ live' = Applied(live, c)
        /\ call' = [call EXCEPT ![o] = [pc |-> pc, change |-> c]]
        /\ UNCHANGED <<stored, audit, boot, faults, reader>>
        /\ call[o].pc = "apply" /\ ConsoleTyped /\ Honest /\ ReaderInv /\ c \in Changes
    <2>1. ConsoleTyped /\ Honest /\ ReaderInv
      BY DEF ConsoleInv
    <2>2. call' = [call EXCEPT ![o].pc = pc] /\ call[o].pc = "apply"
      BY DEF Apply
    <2> HIDE DEF pc
    <2> QED BY <2>1, <2>2, PcOnly DEF Apply, ConsoleTyped
  <1>2. disturbed' = \/ disturbed
                     \/ \E p \in Operators \ {o} :
                          /\ UnderWay(p)
                          /\ \/ Touches(c.action, call[p].change.action)
                             \/ Touches(call[p].change.action, c.action)
    BY DEF Apply, UnderWay
  <1>3. pc \in {"store", "log"} /\ pc \in Steps /\ (pc = "store" => c.action \in Persisted)
    BY DEF Steps
  <1> HIDE DEF c, pc
  <1>4. /\ call' \in [Operators -> CallRecords]
        /\ \A q \in Operators : call'[q].pc # "idle" => call'[q].change \in Changes
        /\ \A q \in Operators : call'[q].pc = "store" => call'[q].change.action \in Persisted
        /\ call'[o].pc = pc /\ call'[o].change = c
        /\ \A q \in Operators \ {o} : call'[q] = call[q]
    BY <1>1, <1>3, CallType
  <1>5. /\ DOMAIN live' = InProcess
        /\ \A s \in InProcess :
             live'[s] = IF Touches(c.action, s) THEN Effect(c, s) ELSE live[s]
    <2>1. DOMAIN live = InProcess
      BY <1>1 DEF ConsoleTyped
    <2>2. DOMAIN live' = InProcess
      BY <1>1, <2>1 DEF Applied
    <2> QED BY <1>1, <2>1, <2>2, AppliedIs
  <1>6. ConsoleTyped'
    <2>1. \A s \in InProcess : live'[s] \in ValuesOf(s)
      BY <1>1, <1>5, EffectType DEF ConsoleTyped
    <2>2. disturbed' \in BOOLEAN
      BY <1>1, <1>2 DEF ConsoleTyped
    <2> QED BY <1>1, <1>4, <1>5, <2>1, <2>2 DEF ConsoleTyped
  <1>7. Honest'
    <2> SUFFICES ASSUME ~disturbed'
                 PROVE  /\ Apart' /\ \A s \in InProcess : SettingHolds(s)'
                        /\ \A s \in Persisted : RowHolds(s)'
      BY DEF Honest
    <2>1. /\ ~disturbed /\ Apart
          /\ \A p \in Operators \ {o} : UnderWay(p) =>
               /\ ~Touches(c.action, call[p].change.action)
               /\ ~Touches(call[p].change.action, c.action)
          /\ \A s \in InProcess : SettingHolds(s)
          /\ \A s \in Persisted : RowHolds(s)
      BY <1>1, <1>2 DEF Honest
    <2>2. /\ UnderWay(o)' /\ ~UnderWay(o)
          /\ \A q \in Operators \ {o} : UnderWay(q)' <=> UnderWay(q)
      BY <1>1, <1>3, <1>4 DEF UnderWay
    <2>3. Apart'
      BY <1>4, <2>1, <2>2 DEF Apart
    <2>4. ASSUME NEW s \in InProcess PROVE SettingHolds(s)'
      <3>1. \A q \in Operators \ {o} : Touching(q, s)' <=> Touching(q, s)
        BY <1>4, <2>2 DEF Touching
      <3>2. ~Touching(o, s) /\ (Touching(o, s)' <=> Touches(c.action, s))
        BY <1>4, <2>2 DEF Touching
      <3>3. Touches(c.action, s) => \A q \in Operators \ {o} : ~Touching(q, s)
        BY <2>1 DEF Touching, Touches
      <3>4. LastSaid(s, SinceBoot(s))' = LastSaid(s, SinceBoot(s))
        BY <1>1 DEF LastSaid, SinceBoot
      <3>5. CASE Touches(c.action, s)
        BY <1>4, <1>5, <3>1, <3>2, <3>3, <3>5 DEF SettingHolds
      <3>6. CASE ~Touches(c.action, s)
        BY <1>4, <1>5, <2>1, <3>1, <3>2, <3>4, <3>6 DEF SettingHolds
      <3> QED BY <3>5, <3>6
    <2>5. ASSUME NEW s \in Persisted PROVE RowHolds(s)'
      <3>1. LastSaid(s, EntriesOf(s))' = LastSaid(s, EntriesOf(s))
        BY <1>1 DEF LastSaid, EntriesOf
      <3>2. ~(call'[o].pc = "log" /\ call'[o].change.action = s) /\ call[o].pc # "log"
        BY <1>1, <1>4 DEF pc
      <3> QED BY <1>1, <1>4, <2>1, <3>1, <3>2 DEF RowHolds
    <2> QED BY <2>3, <2>4, <2>5
  <1> QED BY <1>1, <1>6, <1>7, ReaderStands DEF ConsoleInv

LEMMA UpsertKeeps ==
  ASSUME ConsoleInv, NEW o \in Operators, Upsert(o)
  PROVE  ConsoleInv'
  <1> DEFINE c == call[o].change
             pc == "log"
  <1>1. /\ stored' = Written(stored, c)
        /\ call' = [call EXCEPT ![o] = [pc |-> pc, change |-> c]]
        /\ UNCHANGED <<live, audit, boot, disturbed, faults, reader>>
        /\ call[o].pc = "store" /\ ConsoleTyped /\ Honest /\ ReaderInv /\ c \in Changes
        /\ c.action \in Persisted
    <2>1. ConsoleTyped /\ Honest /\ ReaderInv
      BY DEF ConsoleInv
    <2>2. call' = [call EXCEPT ![o].pc = pc] /\ call[o].pc = "store"
      BY DEF Upsert
    <2> HIDE DEF pc
    <2> QED BY <2>1, <2>2, PcOnly DEF Upsert, ConsoleTyped
  <1>2. pc = "log" /\ pc \in Steps /\ pc # "store"
    BY DEF Steps
  <1> HIDE DEF c, pc
  <1>3. /\ call' \in [Operators -> CallRecords]
        /\ \A q \in Operators : call'[q].pc # "idle" => call'[q].change \in Changes
        /\ \A q \in Operators : call'[q].pc = "store" => call'[q].change.action \in Persisted
        /\ call'[o].pc = pc /\ call'[o].change = c
        /\ \A q \in Operators \ {o} : call'[q] = call[q]
    BY <1>1, <1>2, CallType
  <1>4. /\ DOMAIN stored' = Persisted
        /\ \A s \in Persisted : stored'[s] = IF s = c.action THEN c.value ELSE stored[s]
    BY <1>1 DEF ConsoleTyped, Written
  <1>5. ConsoleTyped'
    <2>1. \A s \in Persisted : stored'[s] \in ValuesOf(s)
      BY <1>1, <1>4, ChangesAre DEF ConsoleTyped
    <2> QED BY <1>1, <1>3, <1>4, <2>1 DEF ConsoleTyped
  <1>6. Honest'
    <2> SUFFICES ASSUME ~disturbed
                 PROVE  /\ Apart' /\ \A s \in InProcess : SettingHolds(s)'
                        /\ \A s \in Persisted : RowHolds(s)'
      BY <1>1 DEF Honest
    <2>1. Apart /\ (\A s \in InProcess : SettingHolds(s)) /\ (\A s \in Persisted : RowHolds(s))
      BY <1>1 DEF Honest
    <2>2. /\ \A q \in Operators : UnderWay(q)' <=> UnderWay(q)
          /\ \A q \in Operators : call'[q].change = call[q].change
      BY <1>1, <1>2, <1>3 DEF UnderWay, c
    <2>3. Apart'
      BY <2>1, <2>2 DEF Apart
    <2>4. ASSUME NEW s \in InProcess PROVE SettingHolds(s)'
      <3>1. \A q \in Operators : Touching(q, s)' <=> Touching(q, s)
        BY <2>2 DEF Touching
      <3>2. LastSaid(s, SinceBoot(s))' = LastSaid(s, SinceBoot(s))
        BY <1>1 DEF LastSaid, SinceBoot
      <3> QED BY <1>1, <2>1, <2>2, <3>1, <3>2 DEF SettingHolds
    <2>5. ASSUME NEW s \in Persisted PROVE RowHolds(s)'
      <3>1. LastSaid(s, EntriesOf(s))' = LastSaid(s, EntriesOf(s))
        BY <1>1 DEF LastSaid, EntriesOf
      <3>2. CASE s = c.action
        <4>1. \A q \in Operators \ {o} : ~(call[q].pc = "log" /\ call[q].change.action = s)
          BY <1>1, <2>1, <3>2 DEF Apart, UnderWay, Touches, c
        <4> QED BY <1>2, <1>3, <1>4, <3>2, <4>1 DEF RowHolds
      <3>3. CASE s # c.action
        BY <1>1, <1>3, <1>4, <2>1, <3>1, <3>3 DEF RowHolds
      <3> QED BY <3>2, <3>3
    <2> QED BY <2>3, <2>4, <2>5
  <1> QED BY <1>1, <1>5, <1>6, ReaderStands DEF ConsoleInv

LEMMA LogKeeps ==
  ASSUME ConsoleInv, NEW o \in Operators, Log(o)
  PROVE  ConsoleInv'
  <1> DEFINE c == call[o].change
             pc == "idle"
             n == Len(audit) + 1
  <1>1. /\ audit' = Append(audit, c) /\ Len(audit) < MaxLog
        /\ call' = [call EXCEPT ![o] = [pc |-> pc, change |-> NoChange]]
        /\ UNCHANGED <<live, stored, boot, disturbed, faults, reader>>
        /\ call[o].pc = "log" /\ ConsoleTyped /\ Honest /\ ReaderInv /\ c \in Changes
    BY DEF Log, Idle, ConsoleInv, ConsoleTyped
  <1>2. pc = "idle" /\ pc \in Steps /\ pc # "store"
    BY DEF Steps
  <1> HIDE DEF c, pc
  <1>3. /\ call' \in [Operators -> CallRecords]
        /\ \A q \in Operators : call'[q].pc # "idle" => call'[q].change \in Changes
        /\ \A q \in Operators : call'[q].pc = "store" => call'[q].change.action \in Persisted
        /\ call'[o].pc = pc /\ \A q \in Operators \ {o} : call'[q] = call[q]
    BY <1>1, <1>2, CallType
  <1>4. /\ audit' \in Seq(Changes) /\ Len(audit') = n /\ Len(audit) \in Nat
        /\ audit'[n] = c /\ \A i \in 1..Len(audit) : audit'[i] = audit[i]
        /\ n <= MaxLog
    BY <1>1, ConsoleAssumption DEF ConsoleAssumption, ConsoleTyped
  <1>5. ConsoleTyped'
    <2>1. boot \in 0..n
      BY <1>1, <1>4 DEF ConsoleTyped
    <2> HIDE DEF n
    <2> QED BY <1>1, <1>3, <1>4, <2>1 DEF ConsoleTyped
  <1>6. Honest'
    <2> SUFFICES ASSUME ~disturbed
                 PROVE  /\ Apart' /\ \A s \in InProcess : SettingHolds(s)'
                        /\ \A s \in Persisted : RowHolds(s)'
      BY <1>1 DEF Honest
    <2>1. Apart /\ (\A s \in InProcess : SettingHolds(s)) /\ (\A s \in Persisted : RowHolds(s))
      BY <1>1 DEF Honest
    <2>2. /\ UnderWay(o) /\ ~UnderWay(o)'
          /\ \A q \in Operators \ {o} : UnderWay(q)' <=> UnderWay(q)
      BY <1>1, <1>2, <1>3 DEF UnderWay
    <2>3. Apart'
      BY <1>3, <2>1, <2>2 DEF Apart
    <2>4. ASSUME NEW s \in InProcess PROVE SettingHolds(s)'
      <3>1. \A q \in Operators \ {o} : Touching(q, s)' <=> Touching(q, s)
        BY <1>3, <2>2 DEF Touching
      <3>2. ~Touching(o, s)' /\ (Touching(o, s) <=> Touches(c.action, s))
        BY <2>2 DEF Touching, c
      <3>3. /\ Touches(c.action, s) => LastSaid(s, SinceBoot(s))' = Effect(c, s)
            /\ ~Touches(c.action, s) => LastSaid(s, SinceBoot(s))' = LastSaid(s, SinceBoot(s))
        BY <1>1, LogGrows
      <3>4. SettingHolds(s)
        BY <2>1
      <3>5. CASE Touches(c.action, s)
        <4>1. live'[s] = Effect(c, s)
          BY <1>1, <3>2, <3>4, <3>5 DEF SettingHolds, c
        <4> QED BY <1>1, <1>3, <3>1, <3>2, <3>3, <3>4, <3>5, <4>1 DEF SettingHolds
      <3>6. CASE ~Touches(c.action, s)
        BY <1>1, <1>3, <3>1, <3>2, <3>3, <3>4, <3>6 DEF SettingHolds
      <3> QED BY <3>5, <3>6
    <2>5. ASSUME NEW s \in Persisted PROVE RowHolds(s)'
      <3>1. /\ c.action = s => LastSaid(s, EntriesOf(s))' = c.value
            /\ c.action # s => LastSaid(s, EntriesOf(s))' = LastSaid(s, EntriesOf(s))
        BY <1>1, LogGrows
      <3>2. RowHolds(s) /\ call'[o].pc # "log"
        BY <1>2, <1>3, <2>1
      <3>3. CASE c.action = s
        <4>1. stored'[s] = c.value
          BY <1>1, <3>2, <3>3 DEF RowHolds, c
        <4> QED BY <1>1, <1>3, <3>1, <3>2, <3>3, <4>1 DEF RowHolds
      <3>4. CASE c.action # s
        BY <1>1, <1>3, <3>1, <3>2, <3>4 DEF RowHolds, c
      <3> QED BY <3>3, <3>4
    <2> QED BY <2>3, <2>4, <2>5
  <1>7. ReaderInv'
    <2>1. /\ reader \in ReaderRecords /\ reader.from \in Nat /\ reader.from <= Len(audit)
          /\ reader.seen \subseteq 1..Len(audit) /\ reader.page \in Nat
          /\ \A i \in 1..reader.from : i \in 1..Len(audit)
      BY <1>1, <1>4 DEF ReaderInv, ReaderRecords
    <2>2. reader.from <= n /\ reader.seen \subseteq 1..n
      BY <1>4, <2>1
    <2>3. ASSUME NEW i \in 1..reader.from, Len(audit) - i >= reader.page * PageSize
          PROVE  n - i >= reader.page * PageSize
      <3> DEFINE m == reader.page * PageSize
      <3>1. m \in Nat
        BY <2>1, ConsoleAssumption DEF ConsoleAssumption
      <3> HIDE DEF m
      <3>2. Len(audit) - i >= m => n - i >= m
        BY <1>4, <2>1, <3>1
      <3> QED BY <2>3, <3>2 DEF m
    <2> HIDE DEF n
    <2> QED BY <1>1, <1>4, <2>1, <2>2, <2>3 DEF ReaderInv
  <1> QED BY <1>5, <1>6, <1>7 DEF ConsoleInv

LEMMA CallFailsKeeps ==
  ASSUME ConsoleInv, NEW o \in Operators, CallFails(o)
  PROVE  ConsoleInv'
  <1> DEFINE pc == "idle"
  <1>1. /\ call' = [call EXCEPT ![o] = [pc |-> pc, change |-> NoChange]]
        /\ disturbed' = TRUE /\ faults' = faults + 1 /\ faults < MaxFaults
        /\ UNCHANGED <<live, stored, audit, boot, reader>>
        /\ ConsoleTyped /\ ReaderInv
    BY DEF CallFails, Idle, ConsoleInv
  <1>2. pc = "idle" /\ pc \in Steps /\ pc # "store"
    BY DEF Steps
  <1> HIDE DEF pc
  <1>3. /\ call' \in [Operators -> CallRecords]
        /\ \A q \in Operators : call'[q].pc # "idle" => call'[q].change \in Changes
        /\ \A q \in Operators : call'[q].pc = "store" => call'[q].change.action \in Persisted
    BY <1>1, <1>2, CallType
  <1>4. faults' \in 0..MaxFaults
    BY <1>1, ConsoleAssumption DEF ConsoleAssumption, ConsoleTyped
  <1>5. ConsoleTyped'
    BY <1>1, <1>3, <1>4 DEF ConsoleTyped
  <1>6. Honest'
    BY <1>1 DEF Honest
  <1> QED BY <1>1, <1>5, <1>6, ReaderStands DEF ConsoleInv

LEMMA RestartKeeps ==
  ASSUME ConsoleInv, Restart
  PROVE  ConsoleInv'
  <1>1. /\ live' = LiveDefaults /\ boot' = Len(audit)
        /\ disturbed' = (disturbed \/ \E o \in Operators : call[o].pc = "log")
        /\ call' = [o \in Operators |-> [pc |-> "idle", change |-> NoChange]]
        /\ faults' = faults + 1 /\ faults < MaxFaults
        /\ UNCHANGED <<stored, audit, reader>>
        /\ ConsoleTyped /\ Honest /\ ReaderInv
    BY DEF Restart, ConsoleInv
  <1>2. \A o \in Operators : call'[o].pc = "idle" /\ ~UnderWay(o)'
    BY <1>1 DEF UnderWay
  <1>3. ConsoleTyped'
    <2>1. /\ DOMAIN live' = InProcess
          /\ \A s \in InProcess : live'[s] \in ValuesOf(s)
      BY <1>1, DefaultIs DEF LiveDefaults
    <2>2. call' \in [Operators -> CallRecords]
      BY <1>1 DEF CallRecords, Steps
    <2>3. faults' \in 0..MaxFaults /\ boot' \in 0..Len(audit') /\ disturbed' \in BOOLEAN
      <3>1. Len(audit) \in Nat
        BY <1>1 DEF ConsoleTyped
      <3> QED BY <1>1, <3>1, ConsoleAssumption DEF ConsoleAssumption, ConsoleTyped
    <2> QED BY <1>1, <1>2, <2>1, <2>2, <2>3 DEF ConsoleTyped
  <1>4. Honest'
    <2> SUFFICES ASSUME ~disturbed'
                 PROVE  /\ Apart' /\ \A s \in InProcess : SettingHolds(s)'
                        /\ \A s \in Persisted : RowHolds(s)'
      BY DEF Honest
    <2>1. /\ ~disturbed /\ \A o \in Operators : call[o].pc # "log"
          /\ \A s \in Persisted : RowHolds(s)
      BY <1>1 DEF Honest
    <2>2. Apart'
      BY <1>2 DEF Apart
    <2>3. ASSUME NEW s \in InProcess PROVE SettingHolds(s)'
      <3>1. SinceBoot(s)' = {}
        <4>1. Len(audit) \in Nat /\ Len(audit') = Len(audit) /\ boot' = Len(audit)
          BY <1>1 DEF ConsoleTyped
        <4>2. ~\E i \in Len(audit) + 1..Len(audit) : TRUE
          BY <4>1
        <4> QED BY <4>1, <4>2 DEF SinceBoot
      <3>2. LastSaid(s, SinceBoot(s))' = Default(s)
        BY <3>1 DEF LastSaid
      <3>3. live'[s] = Default(s)
        BY <1>1 DEF LiveDefaults
      <3>4. \A o \in Operators : ~Touching(o, s)'
        BY <1>2 DEF Touching
      <3> QED BY <3>2, <3>3, <3>4 DEF SettingHolds
    <2>4. ASSUME NEW s \in Persisted PROVE RowHolds(s)'
      <3>1. LastSaid(s, EntriesOf(s))' = LastSaid(s, EntriesOf(s))
        BY <1>1 DEF LastSaid, EntriesOf
      <3> QED BY <1>1, <1>2, <2>1, <3>1 DEF RowHolds
    <2> QED BY <2>2, <2>3, <2>4
  <1> QED BY <1>1, <1>3, <1>4, ReaderStands DEF ConsoleInv

(* A page shows every entry of interest among the next PageSize rows.      *)
LEMMA PageShows ==
  ASSUME ConsoleTyped, NEW sheet, Offset(sheet) \in Nat, NEW i \in 1..Len(audit),
         audit[i].action \in OpsLogged, Len(audit) - i >= Offset(sheet),
         Len(audit) - i < Offset(sheet) + PageSize
  PROVE  i \in PageOf(sheet)
  <1> DEFINE off == Offset(sheet)
             len == Len(audit)
             rows == {k \in DOMAIN audit : len - k \in off..off + 3 * PageSize - 1}
             items == {k \in rows : audit[k].action \in OpsLogged}
             newer == {j \in items : j > i}
  <1>1. /\ PageSize \in Nat \ {0} /\ len \in Nat /\ off \in Nat /\ DOMAIN audit = 1..len
        /\ i \in 1..len /\ len - i >= off /\ len - i < off + PageSize
    BY ConsoleAssumption DEF ConsoleAssumption, ConsoleTyped
  <1>2. PageOf(sheet) = {k \in items : Cardinality({j \in items : j > k}) < PageSize}
    BY DEF PageOf
  <1> HIDE DEF off, len
  <1>3. i \in items
    BY <1>1
  <1>4. newer \subseteq i + 1..len - off
    BY <1>1
  <1>5. /\ IsFiniteSet(i + 1..len - off)
        /\ Cardinality(i + 1..len - off) = IF i + 1 > len - off THEN 0 ELSE len - off - (i + 1) + 1
    <2> DEFINE a == i + 1
               b == len - off
    <2>1. a \in Int /\ b \in Int
      BY <1>1
    <2> HIDE DEF a, b
    <2>2. IsFiniteSet(a..b) /\ Cardinality(a..b) = IF a > b THEN 0 ELSE b - a + 1
      BY <2>1, FS_Interval
    <2> QED BY <2>2 DEF a, b
  <1>6. Cardinality(i + 1..len - off) < PageSize
    BY <1>1, <1>5
  <1>7. Cardinality(newer) \in Nat /\ Cardinality(newer) < PageSize
    <2> DEFINE all == i + 1..len - off
               a == Cardinality(all)
               b == Cardinality(newer)
    <2>1. IsFiniteSet(all) /\ newer \subseteq all
      BY <1>4, <1>5
    <2> HIDE DEF all, newer
    <2>2. IsFiniteSet(newer) /\ b <= a /\ a \in Nat /\ b \in Nat
      BY <2>1, FS_Subset, FS_CardinalityType
    <2>3. a < PageSize
      BY <1>6 DEF all
    <2> HIDE DEF a, b
    <2>4. b \in Nat /\ b < PageSize
      BY <1>1, <2>2, <2>3
    <2> QED BY <2>4 DEF b
  <1> QED BY <1>2, <1>3, <1>7

LEMMA PageRows ==
  ASSUME ConsoleTyped, NEW sheet
  PROVE  PageOf(sheet) \subseteq 1..Len(audit)
  BY DEF PageOf, ConsoleTyped

LEMMA TurnKeeps ==
  ASSUME ConsoleInv, OpenLog \/ TurnPage
  PROVE  ReaderInv'
  <1> DEFINE n == reader.page
             m == n * PageSize
             len == Len(audit)
  <1>1. /\ PageSize \in Nat \ {0} /\ n \in Nat /\ reader \in ReaderRecords
        /\ reader.from \in Nat /\ reader.seen \subseteq 1..len /\ reader.from <= len
        /\ len \in Nat /\ audit' = audit /\ ConsoleTyped
    BY ConsoleAssumption
      DEF ConsoleAssumption, ConsoleInv, ReaderInv, ReaderRecords, ConsoleTyped, OpenLog, TurnPage
  <1>2. /\ m \in Nat /\ (n + 1) * PageSize = m + PageSize /\ Offset(n + 1) = m
        /\ n = 0 => m = 0
    <2>1. m \in Nat /\ (n + 1) * PageSize = m + PageSize
      BY <1>1
    <2>2. (n + 1) - 1 = n
      BY <1>1
    <2>3. Offset(n + 1) = m
      <3>1. \A sheet : Offset(sheet) = (sheet - 1) * PageSize
        BY DEF Offset
      <3>2. Offset(n + 1) = ((n + 1) - 1) * PageSize
        BY <3>1, Zenon
      <3> QED BY <2>2, <3>2, Zenon
    <2>4. n = 0 => m = 0
      BY <1>1
    <2> QED BY <2>1, <2>3, <2>4
  <1>3. PICK from \in Nat, seen \in SUBSET (1..len) :
          /\ reader' = [page |-> n + 1, from |-> from, seen |-> seen \cup PageOf(n + 1)]
          /\ from <= len
          /\ \A i \in 1..from : audit[i].action \in OpsLogged => i \in seen \/ len - i >= m
    <2>1. CASE OpenLog
      <3>1. /\ reader' = [page |-> 1, from |-> len, seen |-> PageOf(1)] /\ n = 0
        BY <2>1 DEF OpenLog
      <3>2. n + 1 = 1 /\ PageOf(1) = {} \cup PageOf(1)
        BY <3>1
      <3>3. \A i \in 1..len : len - i >= m
        BY <1>1, <1>2, <3>1
      <3> HIDE DEF len, n, m
      <3>4. \E from \in Nat, seen \in SUBSET (1..len) :
              /\ reader' = [page |-> n + 1, from |-> from, seen |-> seen \cup PageOf(n + 1)]
              /\ from <= len
              /\ \A i \in 1..from : audit[i].action \in OpsLogged => i \in seen \/ len - i >= m
        <4>1. {} \in SUBSET (1..len) /\ len <= len /\ len \in Nat
          BY <1>1
        <4>2. reader' = [page |-> n + 1, from |-> len, seen |-> {} \cup PageOf(n + 1)]
          BY <3>1, <3>2
        <4> QED BY <3>3, <4>1, <4>2
      <3> QED BY <3>4
    <2>2. CASE TurnPage
      <3>1. /\ reader' = [reader EXCEPT !.page = n + 1, !.seen = @ \cup PageOf(n + 1)]
            /\ n # 0
        BY <2>2 DEF TurnPage
      <3>2. reader' = [page |-> n + 1, from |-> reader.from,
                       seen |-> reader.seen \cup PageOf(n + 1)]
        BY <1>1, <3>1 DEF ReaderRecords
      <3>3. \A i \in 1..reader.from :
              audit[i].action \in OpsLogged => i \in reader.seen \/ len - i >= m
        BY <3>1 DEF ConsoleInv, ReaderInv
      <3> HIDE DEF n, m, len
      <3> QED BY <1>1, <3>2, <3>3
    <2> QED BY <2>1, <2>2
  <1>4. PageOf(n + 1) \subseteq 1..len
    BY <1>1, PageRows
  <1>5. ASSUME NEW i \in 1..from, audit[i].action \in OpsLogged
        PROVE  i \in seen \cup PageOf(n + 1) \/ len - i >= m + PageSize
    <2>1. i \in 1..len /\ (i \in seen \/ len - i >= m)
      BY <1>1, <1>3, <1>5
    <2>2. CASE len - i >= m /\ len - i < m + PageSize
      <3>1. Offset(n + 1) \in Nat /\ len - i >= Offset(n + 1) /\ len - i < Offset(n + 1) + PageSize
        BY <1>2, <2>2
      <3> DEFINE sheet == n + 1
      <3> HIDE DEF sheet
      <3>2. /\ Offset(sheet) \in Nat /\ Len(audit) - i >= Offset(sheet)
            /\ Len(audit) - i < Offset(sheet) + PageSize
        BY <3>1 DEF sheet
      <3>3. i \in PageOf(sheet)
        BY <1>1, <1>5, <2>1, <3>2, PageShows
      <3> QED BY <3>3 DEF sheet
    <2>3. CASE len - i >= m /\ ~(len - i < m + PageSize)
      BY <1>1, <1>2, <2>1, <2>3
    <2> QED BY <2>1, <2>2, <2>3
  <1>6. /\ reader'.page = n + 1 /\ reader'.from = from /\ reader'.seen = seen \cup PageOf(n + 1)
        /\ n + 1 \in Nat /\ seen \cup PageOf(n + 1) \subseteq 1..len
    <2>1. n + 1 \in Nat
      BY <1>1
    <2> HIDE DEF n, len, m
    <2>2. /\ reader'.page = n + 1 /\ reader'.from = from
          /\ reader'.seen = seen \cup PageOf(n + 1)
      BY <1>3
    <2> QED BY <1>3, <1>4, <2>1, <2>2
  <1>7. reader' \in ReaderRecords
    <2>1. seen \cup PageOf(n + 1) \in SUBSET Nat
      BY <1>1, <1>6
    <2> HIDE DEF n
    <2> QED BY <1>3, <1>6, <2>1 DEF ReaderRecords
  <1>8. reader'.page * PageSize = m + PageSize
    BY <1>2, <1>6
  <1> HIDE DEF n, m
  <1> QED BY <1>1, <1>3, <1>5, <1>6, <1>7, <1>8 DEF ReaderInv

LEMMA ConsoleSteps == ConsoleInv /\ [OpsNext]_opsVars => ConsoleInv'
  <1> SUFFICES ASSUME ConsoleInv, [OpsNext]_opsVars PROVE ConsoleInv'
    OBVIOUS
  <1>1. ASSUME NEW o \in Operators, NEW change \in Requested, Arrive(o, change)
        PROVE  ConsoleInv'
    BY <1>1, ArriveKeeps
  <1>2. ASSUME NEW o \in Operators, Apply(o) \/ Upsert(o) \/ Log(o) \/ CallFails(o)
        PROVE  ConsoleInv'
    BY <1>2, ApplyKeeps, UpsertKeeps, LogKeeps, CallFailsKeeps
  <1>3. ASSUME OpenLog \/ TurnPage PROVE ConsoleInv'
    <2>1. UNCHANGED <<live, stored, call, audit, boot, disturbed, faults>>
      BY <1>3 DEF OpenLog, TurnPage
    <2>2. ConsoleTyped'
      BY <2>1 DEF ConsoleTyped, ConsoleInv
    <2>3. Honest'
      BY <2>1, HonestStands DEF ConsoleInv
    <2> QED BY <1>3, <2>2, <2>3, TurnKeeps DEF ConsoleInv
  <1>4. ASSUME UNCHANGED opsVars PROVE ConsoleInv'
    <2>1. UNCHANGED <<live, stored, call, audit, boot, disturbed, faults, reader>>
      BY <1>4 DEF opsVars
    <2>2. ConsoleTyped'
      BY <2>1 DEF ConsoleTyped, ConsoleInv
    <2>3. Honest' /\ ReaderInv'
      BY <2>1, HonestStands, ReaderStands DEF ConsoleInv
    <2> QED BY <2>2, <2>3 DEF ConsoleInv
  <1> QED BY <1>1, <1>2, <1>3, <1>4, RestartKeeps DEF OpsNext

LEMMA ConsoleStarts == OpsInit => ConsoleInv
  <1> SUFFICES ASSUME OpsInit PROVE ConsoleInv
    OBVIOUS
  <1>1. \A o \in Operators : call[o].pc = "idle"
    BY DEF OpsInit
  <1>2. ConsoleTyped
    <2>1. /\ DOMAIN live = InProcess /\ DOMAIN stored = Persisted
          /\ \A a \in InProcess : live[a] \in ValuesOf(a)
          /\ \A a \in Persisted : stored[a] \in ValuesOf(a)
      BY DefaultIs DEF OpsInit, LiveDefaults, StoredDefaults
    <2>2. call \in [Operators -> CallRecords]
      BY DEF OpsInit, CallRecords, Steps
    <2>3. audit \in Seq(Changes) /\ Len(audit) = 0 /\ boot \in 0..0 /\ 0 <= MaxLog
      BY ConsoleAssumption DEF ConsoleAssumption, OpsInit
    <2>4. disturbed \in BOOLEAN /\ faults \in 0..MaxFaults
      <3>1. faults = 0 /\ disturbed = FALSE
        BY DEF OpsInit
      <3>2. 0 \in 0..MaxFaults
        BY ConsoleAssumption DEF ConsoleAssumption
      <3> QED BY <3>1, <3>2
    <2> QED BY <1>1, <2>1, <2>2, <2>3, <2>4 DEF ConsoleTyped
  <1>3. Honest
    <2>1. \A s : SinceBoot(s) = {} /\ EntriesOf(s) = {}
      BY DEF OpsInit, SinceBoot, EntriesOf
    <2>2. \A s : LastSaid(s, SinceBoot(s)) = Default(s) /\ LastSaid(s, EntriesOf(s)) = Default(s)
      BY <2>1 DEF LastSaid
    <2>3. Apart
      BY <1>1 DEF Apart, UnderWay
    <2>4. \A s \in InProcess : SettingHolds(s)
      BY <1>1, <2>2 DEF OpsInit, LiveDefaults, SettingHolds, Touching, UnderWay
    <2>5. \A s \in Persisted : RowHolds(s)
      BY <1>1, <2>2 DEF OpsInit, StoredDefaults, RowHolds
    <2> QED BY <2>3, <2>4, <2>5 DEF Honest
  <1>4. ReaderInv
    BY DEF OpsInit, ReaderInv, ReaderRecords
  <1> QED BY <1>2, <1>3, <1>4 DEF ConsoleInv

LEMMA ConsoleKeeps == OpsSpec => []ConsoleInv
  BY ConsoleStarts, ConsoleSteps, PTL DEF OpsSpec

(* The type invariant of the console, for any number of requests, settings *)
(* and entries.                                                            *)
THEOREM ConsoleIsTyped == OpsSpec => []OpsTypeOK
  <1>1. ConsoleInv => OpsTypeOK
    <2> SUFFICES ASSUME ConsoleInv PROVE OpsTypeOK
      OBVIOUS
    <2>1. \A o \in Operators : call[o] \in CallRecords
      BY DEF ConsoleInv, ConsoleTyped
    <2>2. /\ Len(audit) \in Nat /\ DOMAIN audit = 1..Len(audit)
          /\ \A i \in DOMAIN audit : audit[i] \in Changes
      BY DEF ConsoleInv, ConsoleTyped
    <2>3. reader.from \in 0..Len(audit) /\ reader.seen \subseteq 1..Len(audit)
      BY <2>2 DEF ConsoleInv, ReaderInv, ReaderRecords
    <2> QED BY <2>1, <2>2, <2>3 DEF OpsTypeOK, ConsoleInv, ConsoleTyped, CallRecords, Steps
  <1> QED BY <1>1, ConsoleKeeps, PTL

(* The audit log tells the truth whenever no conflicting requests have     *)
(* overlapped and none has failed midway: what the process runs with and   *)
(* what the rows say follow from the log, through restarts and the resets  *)
(* that a switch of the provider hides.                                    *)
THEOREM LogTellsTheTruth == OpsSpec => []LogReplays
  <1>1. ConsoleInv => LogReplays
    <2> SUFFICES ASSUME ConsoleInv, ~disturbed,
                        \A o \in Operators : call[o].pc \notin {"store", "log"}
                 PROVE  /\ \A s \in InProcess : live[s] = LastSaid(s, SinceBoot(s))
                        /\ \A s \in Persisted : stored[s] = LastSaid(s, EntriesOf(s))
      BY DEF LogReplays, SinceBoot, EntriesOf
    <2>1. /\ \A s \in InProcess : SettingHolds(s)
          /\ \A s \in Persisted : RowHolds(s)
      BY DEF ConsoleInv, Honest
    <2>2. \A s : \A o \in Operators : ~Touching(o, s)
      BY DEF Touching, UnderWay
    <2> QED BY <2>1, <2>2 DEF SettingHolds, RowHolds
  <1> QED BY <1>1, ConsoleKeeps, PTL

(* Whoever pages to the end of the log misses no entry of interest that    *)
(* was there when they began, however it grows at its head: new entries    *)
(* shift the old ones to later pages, never to earlier ones.               *)
THEOREM ReadersMissNothing == OpsSpec => []ReaderMissesNothing
  <1>1. ConsoleInv => ReaderMissesNothing
    <2> SUFFICES ASSUME ConsoleInv, reader.page # 0, reader.page * PageSize >= Len(audit),
                        NEW i \in 1..reader.from, audit[i].action \in OpsLogged
                 PROVE  i \in reader.seen
      BY DEF ReaderMissesNothing
    <2> DEFINE m == reader.page * PageSize
    <2>1. /\ i \in reader.seen \/ Len(audit) - i >= m
          /\ m >= Len(audit) /\ Len(audit) \in Nat
          /\ reader.page \in Nat /\ reader.from \in Nat
      BY DEF ConsoleInv, ReaderInv, ReaderRecords, ConsoleTyped
    <2>2. m \in Nat
      BY <2>1, ConsoleAssumption DEF ConsoleAssumption
    <2>3. i \in Nat \ {0}
      BY <2>1
    <2> HIDE DEF m
    <2> QED BY <2>1, <2>2, <2>3
  <1> QED BY <1>1, ConsoleKeeps, PTL
-----------------------------------------------------------------------------
(***************************************************************************)
(* The parts side by side: what is proved of each module, here and in      *)
(* PromptCache_proofs, holds in the module the run explores.               *)
(***************************************************************************)
PartsNext ==
  /\ [PromptNext]_promptVars /\ [RoutingNext]_routingVars
  /\ [OpsNext]_opsVars /\ [UploadNext]_uploadVars
  /\ [RubricNext]_rubricVars /\ [DeskNext]_deskVars
  /\ [SchemaNext]_schemaVars

LEMMA ServicesMoveParts == [ServicesNext]_servicesVars => PartsNext
  BY DEF ServicesNext, servicesVars, PartsNext

LEMMA ServicesAreTheirParts ==
  ServicesSpec => /\ PromptSpec /\ RoutingSpec /\ OpsSpec /\ UploadSpec
                  /\ RubricSpec /\ DeskSpec /\ SchemaSpec
  <1>1. ServicesInit => /\ PromptInit /\ RoutingInit /\ OpsInit /\ UploadInit
                        /\ RubricInit /\ DeskInit /\ SchemaInit
    BY DEF ServicesInit
  <1> QED
    BY <1>1, ServicesMoveParts, PTL
    DEF PartsNext, ServicesSpec, PromptSpec, RoutingSpec, OpsSpec, UploadSpec,
        RubricSpec, DeskSpec, SchemaSpec

(* Whichever part of the API process a behaviour is about, for any number  *)
(* of requests, operators, students and processes its state keeps its      *)
(* type, and an answer from the fallback was once rendered.                *)
THEOREM ServicesAreTyped == ServicesSpec => []ServicesTypeOK
  BY ServicesAreTheirParts, PromptTypeCorrect, RoutingIsTyped, ConsoleIsTyped,
     UploadsAreTyped, RubricsAreTyped, DeskIsTyped, SchemaIsTyped, PTL
  DEF ServicesTypeOK
=============================================================================
