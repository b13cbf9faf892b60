---------------------------- MODULE Configuration ----------------------------
(***************************************************************************)
(* The class ConfigManager: loadConfig() of a file that may be missing, no *)
(* JSON at all, or JSON of any other shape than the one it expects.        *)
(*                                                                         *)
(* A JSON value is its type and its text.  isMember(), asked of a value    *)
(* that is no object, throws; null passes for an object without members.   *)
(***************************************************************************)
EXTENDS Naturals, Sequences

CONSTANTS
  Texts,       \* what a JSON value may be written as
  Documents,   \* what the file may be
  NoDocument   \* none is being parsed

Sections == <<"mqtt", "uart", "logger">>

Members ==
  [mqtt   |-> {"broker", "client_id", "username", "password",
               "keep_alive_interval", "timeout"},
   uart   |-> {"port", "baud_rate", "data_bits", "stop_bits", "parity"},
   logger |-> {"level", "console_output", "file_output", "log_path",
               "log_name", "max_file_size_mb", "max_files"}]

Names  == DOMAIN Members
Fields == UNION {Members[s] : s \in Names}

TypeOf(f) ==
  CASE f \in {"keep_alive_interval", "timeout", "baud_rate", "data_bits",
              "stop_bits", "max_file_size_mb", "max_files"} -> "int"
    [] f \in {"console_output", "file_output"} -> "bool"
    [] OTHER -> "string"

\* The initializers of the structs MqttConfig, UartConfig and LoggerConfig.
DefaultText ==
  [broker |-> "tcp://localhost:1883", client_id |-> "demo_client",
   username |-> "", password |-> "", keep_alive_interval |-> "60",
   timeout |-> "10000", port |-> "/dev/ttyS0", baud_rate |-> "115200",
   data_bits |-> "8", stop_bits |-> "1", parity |-> "none",
   level |-> "debug", console_output |-> "true", file_output |-> "true",
   log_path |-> "./logs", log_name |-> "app", max_file_size_mb |-> "10",
   max_files |-> "3"]

Defaults == [f \in Fields |-> [type |-> TypeOf(f), text |-> DefaultText[f]]]

\* A document has a form and, if it is a JSON object, sections: for some of
\* the names whether the member is an object, and its members.
Value   == [type : {"string", "int", "bool", "other"}, text : Texts]
Forms   == {"absent", "broken", "notObject", "object"}

ASSUME TextsAssumption == \A f \in Fields : DefaultText[f] \in Texts

ASSUME DocumentsAssumption ==
  /\ NoDocument \notin Documents
  /\ \A d \in Documents :
        /\ d.form \in Forms
        /\ \A s \in DOMAIN d.sections \cap Names :
              /\ d.sections[s].object \in BOOLEAN
              /\ \A f \in DOMAIN d.sections[s].members :
                    d.sections[s].members[f] \in Value

VARIABLES
  config,    \* config: a value for each field
  document,  \* root, while it is parsed
  parsing,   \* which of the Sections is parsed next; 0 outside loadConfig()
  loaded     \* what loadConfig() did: "true", "false", "threw" or, before it
             \* has returned, "unknown"

manager == <<config, document, parsing, loaded>>

\* A new ConfigManager.
NewManager ==
  /\ config' = Defaults /\ document' = NoDocument
  /\ parsing' = 0 /\ loaded' = "unknown"

ManagerInit ==
  /\ config = Defaults /\ document = NoDocument
  /\ parsing = 0 /\ loaded = "unknown"

\* The members that are there, and of the type asked for, replace what the
\* configuration had.
Takes(members, f) == f \in DOMAIN members /\ members[f].type = TypeOf(f)

\* Variant: types are not asked for.
MergeUnchecked(c, s, members) ==
  [f \in Fields |-> IF f \in Members[s] \cap DOMAIN members THEN members[f]
                    ELSE c[f]]

Merge(c, s, members) ==
  [f \in Fields |-> IF f \in Members[s] /\ Takes(members, f) THEN members[f]
                    ELSE c[f]]

LoadStart(file) ==
  /\ parsing = 0 /\ loaded = "unknown"
  /\ \/ /\ file.form \in {"absent", "broken"}
        /\ loaded' = "false"
        /\ UNCHANGED <<document, parsing>>
     \/ /\ file.form = "notObject"
        /\ loaded' = "threw"
        /\ UNCHANGED <<document, parsing>>
     \/ /\ file.form = "object"
        /\ document' = file /\ parsing' = 1
        /\ UNCHANGED loaded
  /\ UNCHANGED config

\* Variant: a section that is missing ends the loading.
ParseSectionOrEnd ==
  /\ parsing \in DOMAIN Sections
  /\ LET s == Sections[parsing] IN
     \/ /\ s \notin DOMAIN document.sections
        /\ parsing' = 4
        /\ UNCHANGED <<config, document, loaded>>
     \/ /\ s \in DOMAIN document.sections
        /\ config' = Merge(config, s, document.sections[s].members)
        /\ parsing' = parsing + 1
        /\ UNCHANGED <<document, loaded>>

\* parseMqttConfig(), parseUartConfig(), parseLoggerConfig().  What an
\* exception leaves is the configuration merged so far.
ParseSection ==
  /\ parsing \in DOMAIN Sections
  /\ LET s == Sections[parsing] IN
     \/ /\ s \notin DOMAIN document.sections
        /\ parsing' = parsing + 1
        /\ UNCHANGED <<config, document, loaded>>
     \/ /\ s \in DOMAIN document.sections
        /\ document.sections[s].object
        /\ config' = Merge(config, s, document.sections[s].members)
        /\ parsing' = parsing + 1
        /\ UNCHANGED <<document, loaded>>
     \/ /\ s \in DOMAIN document.sections
        /\ ~document.sections[s].object
        /\ loaded' = "threw"
        /\ document' = NoDocument /\ parsing' = 0
        /\ UNCHANGED config

LoadEnd ==
  /\ parsing = Len(Sections) + 1
  /\ loaded' = "true"
  /\ document' = NoDocument /\ parsing' = 0
  /\ UNCHANGED config

-----------------------------------------------------------------------------
ManagerTypeOK ==
  /\ config \in [Fields -> Value]
  /\ document \in Documents \cup {NoDocument}
  /\ parsing \in 0..Len(Sections) + 1
  /\ parsing # 0 <=> document # NoDocument
  /\ loaded \in {"unknown", "true", "false", "threw"}

\* Every field keeps a value of the type that the program reads it as.
WellTyped == \A f \in Fields : config[f].type = TypeOf(f)

\* What document d makes of the defaults, if only the sections in S count.
Loaded(d, S) ==
  [f \in Fields |->
     IF \E s \in S \cap DOMAIN d.sections :
           f \in Members[s] /\ Takes(d.sections[s].members, f)
     THEN LET s == CHOOSE s \in Names : f \in Members[s]
          IN d.sections[s].members[f]
     ELSE Defaults[f]]

\* loadConfig() returns true with every well-typed member of the document and
\* the default of every other field; false with all the defaults; and it
\* throws, at a section that is not an object, with those before it merged.
LoadsMean ==
  [][loaded' # loaded /\ loaded' # "unknown" =>
       \/ loaded' = "true" /\ config' = Loaded(document, Names)
       \/ loaded' = "false" /\ config' = Defaults
       \/ /\ loaded' = "threw" /\ parsing = 0
          /\ config' = Defaults
       \/ /\ loaded' = "threw" /\ parsing # 0
          /\ config' = Loaded(document,
                              {Sections[k] : k \in 1..parsing - 1})]_manager
=============================================================================
