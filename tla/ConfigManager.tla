--------------------------- MODULE ConfigManager ---------------------------
(***************************************************************************)
(* ConfigManager: the settings of the process, and the JSON file they are  *)
(* loaded from and saved to.                                               *)
(*                                                                         *)
(* A file is the function of the settings it holds with a value of their   *)
(* type; one that cannot be read or parsed is the empty function. The      *)
(* settings are plain members that no lock protects: an access to one is   *)
(* taken to be atomic.                                                     *)
(***************************************************************************)
EXTENDS Integers, Sequences

CONSTANTS
  NodeIds,      \* values of nodeId
  NoNode,       \* the empty string among them
  ConfigFiles,  \* the files a process may be started with
  Leftovers     \* what memory may hold where the constructor sets nothing

(* The settings, in the order in which they are loaded.                    *)
Settings == <<"nodeId", "defaultPartitionCount", "defaultReplicationCount",
              "defaultISRCount", "webPort", "tcpPort">>

Fields == {Settings[i] : i \in 1 .. Len(Settings)}

ValuesOf(f) == IF f = "nodeId" THEN NodeIds ELSE Int

HasTypes(c) == \A f \in DOMAIN c : f \in Fields /\ c[f] \in ValuesOf(f)

ASSUME ConfigAssumption ==
  /\ NoNode \in NodeIds
  /\ \A c \in ConfigFiles : HasTypes(c)
  /\ Leftovers \subseteq Int

VARIABLES
  config,      \* the members of ConfigManager, a function on Fields
  configFile   \* the file

configVars == <<config, configFile>>

Ports == {"webPort", "tcpPort"}

(* The constructor gives every member a value but the two ports.           *)
ConfigInit ==
  /\ configFile \in ConfigFiles
  /\ \E leftover \in [Ports -> Leftovers] :
       config = [f \in Fields |-> IF f \in Ports THEN leftover[f]
                                  ELSE IF f = "nodeId" THEN NoNode ELSE 0]

(* The settings a load finds: those before the first that is missing.      *)
Loaded ==
  {Settings[i] : i \in {j \in 1 .. Len(Settings) :
                          \A k \in 1 .. j : Settings[k] \in DOMAIN configFile}}

(* The get that fails throws, and the settings read before stay assigned.  *)
LoadConfig ==
  /\ config' = [f \in Fields |-> IF f \in Loaded THEN configFile[f] ELSE config[f]]
  /\ UNCHANGED configFile

SetField(f, v) ==
  /\ config' = [config EXCEPT ![f] = v]
  /\ UNCHANGED configFile

(* Mutant: the ports forgotten. *)
SaveConfig_without_ports ==
  /\ configFile' = [f \in Fields \ Ports |-> config[f]]
  /\ UNCHANGED config

SaveConfig ==
  /\ configFile' = config
  /\ UNCHANGED config

(* A file that does not open for writing stays as it was. One that does is *)
(* empty from then on, and a part of a JSON object does not parse.         *)
SaveFails ==
  /\ configFile' = << >>
  /\ UNCHANGED config

ConfigTypeOK ==
  /\ DOMAIN config = Fields
  /\ HasTypes(config)
  /\ HasTypes(configFile)

(* Whatever a process sets, loads and saves, and whichever save fails: if  *)
(* the file it was started with is loaded as a whole or not at all, so is  *)
(* the one it leaves behind. No later start-up runs on half of a file.     *)
SavedLoadsWhole == Loaded \in {{}, Fields}

=============================================================================
