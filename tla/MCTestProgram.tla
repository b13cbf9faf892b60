---------------------------- MODULE MCTestProgram ----------------------------
(* TestProgram for TLC.  The documents: no file, one that is no JSON, JSON  *)
(* that is no object, the config.json of the repository, one that names the *)
(* broker without a scheme and is wrong in the types of some members and in *)
(* the section "logger", and one without a section "uart".                  *)
EXTENDS TestProgram

String(t) == [type |-> "string", text |-> t]
Int(t)    == [type |-> "int", text |-> t]
Bool(t)   == [type |-> "bool", text |-> t]

NoFile == [form |-> "absent", sections |-> <<>>]

Shipped ==
  [form |-> "object",
   sections |->
     [mqtt |-> [object |-> TRUE, members |-> [f \in Members.mqtt |-> Defaults[f]]],
      uart |-> [object |-> TRUE, members |-> [f \in Members.uart |-> Defaults[f]]],
      logger |->
        [object |-> TRUE, members |-> [f \in Members.logger |-> Defaults[f]]]]]

Broken ==
  [form |-> "object",
   sections |->
     [mqtt |-> [object |-> TRUE,
                members |-> [broker |-> String("broker:1883"),
                             timeout |-> String("10")]],
      logger |-> [object |-> FALSE, members |-> <<>>]]]

Partial ==
  [form |-> "object",
   sections |->
     [mqtt |-> [object |-> TRUE,
                members |-> [broker |-> String("broker:1883"),
                             client_id |-> String(""),
                             timeout |-> [type |-> "other", text |-> "1.5"]]],
      logger |-> [object |-> TRUE,
                  members |-> [file_output |-> Bool("false"),
                               level |-> String("info")]]]]

MCTexts == {DefaultText[f] : f \in Fields}
             \cup {"broker:1883", "10", "1.5", "false", "info"}

NoJson == [form |-> "broken", sections |-> <<>>]

NotObject == [form |-> "notObject", sections |-> <<>>]

MCDocuments == {NoFile, NoJson, NotObject, Shipped, Broken, Partial}
=============================================================================
