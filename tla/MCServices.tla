----------------------------- MODULE MCServices -----------------------------
(***************************************************************************)
(* Instances of the modules about the parts of the API process: the prompt *)
(* provider and its routing, the operations console, the upload store, the *)
(* making of rubrics, the review desk and the schema migration.  They      *)
(* share no variable: a behaviour of this module is a behaviour of one of  *)
(* them, its focus, with each of the others in one initial state, so that  *)
(* one run explores the seven graphs side by side and not their product.   *)
(***************************************************************************)
EXTENDS PromptCache, PromptRouting, OpsConsole, UploadStore, Rubrics, ReviewDesk,
  SchemaMigration, TLC

CONSTANTS a1, a2  \* two requests, operators, students or processes

VARIABLE focus

MCAssets == {<<"A", "B">>, <<"A", "B", "C">>}
MCWeightings == {[A |-> 0, B |-> 0, C |-> 0], [A |-> 1, B |-> 2, C |-> 0],
                 [A |-> 1, B |-> 0, C |-> 1]}

MCStems == {<<"a">>, <<"a", 2>>, <<"a.jpg#">>}
MCHashed == {<<"a.jpg#">>}
MCCut == [s \in MCHashed |-> [stem |-> <<"a">>, ext |-> "jpg"]]
MCReferences == {<<1, 2>>, <<2, 1>>, <<2>>}
MCRosters == {{a1}, {a2}, {a1, a2}}
MCRequested ==
  [action : {"provider"}, value : {1}]
  \cup [action : {"invalidate"}, value : {0}]
  \cup [action : {"flags"}, value : {{}, Gates}]

(* Requests, operators, students and processes are interchangeable among   *)
(* themselves, and only one of these sets matters in a behaviour.          *)
ServicesSymmetry == Permutations({a1, a2})

servicesVars == <<focus, promptVars, routingVars, opsVars, uploadVars, rubricVars,
                  deskVars, schemaVars>>

ServicesInit ==
  /\ focus \in {"prompts", "routing", "console", "uploads", "rubrics", "review", "schema"}
  /\ PromptInit /\ OpsInit
  /\ RoutingInit
  /\ focus # "routing" =>
       /\ asset = <<"A", "B">> /\ ab.weights["B"] = 2
       /\ caller = [segment |-> "s1", plain |-> 0, slice |-> 0, salted |-> 0]
  /\ UploadInit
  \* only the object store reads such a name back as another
  /\ backend = "local" => \A i \in DOMAIN names : names[i].stem \notin Hashed
  /\ focus # "uploads" =>
       /\ form = "batch"
       /\ names = <<CHOOSE f \in Names : f.stem \notin Hashed>>
       /\ backend = "local"
  /\ RubricInit
  /\ focus # "rubrics" => \A m \in Makers : maker[m].files = <<2>>
  /\ DeskInit
  /\ focus # "review" => roster = {a1, a2}
  /\ SchemaInit
  /\ focus # "schema" => db = NoFile /\ \A p \in Procs : proc[p].kind = "init"

ServicesNext ==
  \/ /\ focus = "prompts" /\ PromptNext
     /\ UNCHANGED <<focus, routingVars, opsVars, uploadVars, rubricVars, deskVars, schemaVars>>
  \/ /\ focus = "routing" /\ RoutingNext
     /\ UNCHANGED <<focus, promptVars, opsVars, uploadVars, rubricVars, deskVars, schemaVars>>
  \/ /\ focus = "console" /\ OpsNext
     /\ UNCHANGED <<focus, promptVars, routingVars, uploadVars, rubricVars, deskVars, schemaVars>>
  \/ /\ focus = "uploads" /\ UploadNext
     /\ UNCHANGED <<focus, promptVars, routingVars, opsVars, rubricVars, deskVars, schemaVars>>
  \/ /\ focus = "rubrics" /\ RubricNext
     /\ UNCHANGED <<focus, promptVars, routingVars, opsVars, uploadVars, deskVars, schemaVars>>
  \/ /\ focus = "review" /\ DeskNext
     /\ UNCHANGED <<focus, promptVars, routingVars, opsVars, uploadVars, rubricVars, schemaVars>>
  \/ /\ focus = "schema" /\ SchemaNext
     /\ UNCHANGED <<focus, promptVars, routingVars, opsVars, uploadVars, rubricVars, deskVars>>

ServicesSpec == ServicesInit /\ [][ServicesNext]_servicesVars

(* Every state stays within its type; in particular an answer from the     *)
(* fallback is a prompt that was once rendered.                            *)
ServicesTypeOK ==
  /\ focus = "prompts" => PromptTypeOK
  /\ focus = "routing" => RoutingTypeOK
  /\ focus = "console" => OpsTypeOK
  /\ focus = "uploads" => UploadTypeOK
  /\ focus = "rubrics" => RubricTypeOK
  /\ focus = "review" => ReviewTypeOK
  /\ focus = "schema" => SchemaTypeOK
=============================================================================
