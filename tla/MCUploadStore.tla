---------------------------- MODULE MCUploadStore ----------------------------
(***************************************************************************)
(* An instance of UploadStore, and a claim of a docstring that the code    *)
(* does not keep.                                                          *)
(***************************************************************************)
EXTENDS UploadStore

MCStems == {<<"a">>, <<"a", 2>>, <<"a.jpg#">>}
MCHashed == {<<"a.jpg#">>}
MCCut == [s \in MCHashed |-> [stem |-> <<"a">>, ext |-> "jpg"]]

(* api/routers/grade.py, submit_batch_grading_job: "one uploaded image ==  *)
(* one student submission", "each file is graded independently under the   *)
(* same task_id".  Every file of a batch is graded as it was sent, names   *)
(* with a '#' or a '?' aside.                                              *)
EachFileIsItsOwn ==
  \A a \in Runners :
    grader[a].pc = "grading" /\ form = "batch" =>
      \A i \in DOMAIN names : ~Misread(names[i]) => grader[a].read[i] = i
=============================================================================
