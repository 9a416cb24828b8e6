------------------------------ MODULE KubeConfig ------------------------------
(***************************************************************************)
(* kubectl azad-proxy generate and menu (generate.go, menu.go): a run reads *)
(* the kubeconfig, looks for its cluster in three sections, fetches the    *)
(* CA certificates of the proxy over the network and writes the whole file *)
(* back.  The menu first lets its user choose the cluster, and runs        *)
(* Generate a second time when the user agrees to overwrite.  Runs share   *)
(* the file without a lock, and clientcmd.WriteToFile truncates it before  *)
(* it writes.  A run that reads the file undoes, when it writes, what      *)
(* others have written in between, and everything if another was writing   *)
(* when it read: missed keeps track.                                       *)
(*                                                                         *)
(* A kubeconfig is a function of section and cluster name.  An absent file *)
(* and an empty one are the same as one without entries: Generate starts   *)
(* from NewConfig() where there is no file, and LoadFromFile returns the   *)
(* same for a file of no bytes.  CurrentContext is left out: every write   *)
(* sets it and nothing reads it.                                           *)
(***************************************************************************)
EXTENDS Integers

CONSTANTS
  Runs,      \* slots of concurrent runs of the plugin
  Names,     \* names of clusters
  Targets,   \* proxies: a proxy URL and its resource
  Foreign,   \* an entry the plugin has not written
  None       \* no entry, "" and url.URL{}

ASSUME EntriesAssumption == None \notin Names \cup Targets \cup {Foreign}

VARIABLES
  file,        \* the kubeconfig as LoadFromFile returns it
  readable,    \* whether LoadFromFile can parse it
  pc,          \* "idle", "select", "generate", "prompt", "dial", "store",
               \* "truncated"
  menu,        \* the run is a menu
  client,      \* its GenerateClient
  kubeCfg,     \* the configuration in a run's memory
  consent,     \* history: --overwrite of generate, or the Yes of the menu
  settled,     \* history: the file before the write that is under way
  missed,      \* history: the clusters that others have changed in the file
               \* since a run read it, all if it was being written
  raced        \* history: two writes overlapped, or one was cut off

fileVars == <<file, readable>>
history == <<settled, missed, raced>>
vars == <<fileVars, pc, menu, client, kubeCfg, consent, history>>

(* In the order clientcmd writes them. *)
Sections == <<"clusters", "contexts", "users">>

Keys == {Sections[i] : i \in 1..3} \X Names

Config == [Keys -> Targets \cup {Foreign, None}]

NewConfig == [k \in Keys |-> None]

GenerateClient ==
  [name : Names \cup {None}, target : Targets \cup {None}, overwrite : BOOLEAN]

NoClient == [name |-> None, target |-> None, overwrite |-> FALSE]

TypeOK ==
  /\ file \in Config /\ settled \in Config
  /\ kubeCfg \in [Runs -> Config]
  /\ pc \in [Runs -> {"idle", "select", "generate", "prompt", "dial", "store",
                      "truncated"}]
  /\ client \in [Runs -> GenerateClient]
  /\ \A r \in Runs : pc[r] \notin {"idle", "select"} =>
       client[r].name # None /\ client[r].target # None
  /\ {menu, consent} \subseteq [Runs -> BOOLEAN]
  /\ missed \in [Runs -> SUBSET Names]
  /\ readable \in BOOLEAN /\ raced \in BOOLEAN

(* The file may be one that an earlier write has left cut off. *)
Init ==
  /\ \/ file \in [Keys -> {Foreign, None}] /\ readable = TRUE
     \/ file = NewConfig /\ readable = FALSE
  /\ pc = [r \in Runs |-> "idle"]
  /\ menu = [r \in Runs |-> FALSE]
  /\ client = [r \in Runs |-> NoClient]
  /\ kubeCfg = [r \in Runs |-> NewConfig]
  /\ consent = [r \in Runs |-> FALSE]
  /\ settled = file
  /\ missed = [r \in Runs |-> {}]
  /\ raced = ~readable
------------------------------------------------------------------------------
Go(r, to) == pc' = [pc EXCEPT ![r] = to]

(* The process exits, with an error or without, and its memory is gone. *)
End(r) ==
  /\ Go(r, "idle")
  /\ menu' = [menu EXCEPT ![r] = FALSE]
  /\ client' = [client EXCEPT ![r] = NoClient]
  /\ kubeCfg' = [kubeCfg EXCEPT ![r] = NewConfig]
  /\ consent' = [consent EXCEPT ![r] = FALSE]

Exit(r) == End(r) /\ missed' = [missed EXCEPT ![r] = {}]

RunGenerate(r, n, t, overwrite) ==
  /\ pc[r] = "idle"
  /\ Go(r, "generate")
  /\ client' = [client EXCEPT ![r] =
                  [name |-> n, target |-> t, overwrite |-> overwrite]]
  /\ consent' = [consent EXCEPT ![r] = overwrite]
  /\ UNCHANGED <<fileVars, menu, kubeCfg, history>>

(* The menu takes the same flags, none of which is required. *)
RunMenu(r, overwrite) ==
  /\ pc[r] = "idle"
  /\ Go(r, "select")
  /\ menu' = [menu EXCEPT ![r] = TRUE]
  /\ client' = [client EXCEPT ![r].overwrite = overwrite]
  /\ UNCHANGED <<fileVars, kubeCfg, consent, history>>

(* Mutant: what new leaves empty is taken over too. *)
MergeEmpty(old, new) == new

Merge(old, new) ==
  [name      |-> IF new.name # None THEN new.name ELSE old.name,
   target    |-> IF new.target # None THEN new.target ELSE old.target,
   overwrite |-> new.overwrite]

(* Discovery finds the cluster and the user selects it. *)
SelectCluster(r, n, t) ==
  /\ pc[r] = "select"
  /\ Go(r, "generate")
  /\ client' = [client EXCEPT ![r] =
                  Merge(@, [name |-> n, target |-> t, overwrite |-> FALSE])]
  /\ UNCHANGED <<fileVars, menu, kubeCfg, consent, history>>

(* Mutant: the section of users is not looked at. *)
FoundInTwo(cfg, n) ==
  \E s \in {"clusters", "contexts"} : cfg[<<s, n>>] # None

(* The three lookups of Generate. *)
Found(cfg, n) == \E i \in 1..3 : cfg[<<Sections[i], n>>] # None

Truncated == \E q \in Runs : pc[q] = "truncated"

(* Mutant: Generate starts from NewConfig() whether there is a file or not. *)
LoadNothing(r) ==
  /\ pc[r] = "generate"
  /\ kubeCfg' = [kubeCfg EXCEPT ![r] = NewConfig]
  /\ missed' = [missed EXCEPT ![r] = IF Truncated THEN Names ELSE {}]
  /\ Go(r, "dial")
  /\ UNCHANGED <<fileVars, menu, client, consent, settled, raced>>

(* Generate up to its overwrite checks, which pass. *)
Load(r) ==
  /\ pc[r] = "generate"
  /\ readable
  /\ Found(file, client[r].name) => client[r].overwrite
  /\ kubeCfg' = [kubeCfg EXCEPT ![r] = file]
  /\ missed' = [missed EXCEPT ![r] = IF Truncated THEN Names ELSE {}]
  /\ Go(r, "dial")
  /\ UNCHANGED <<fileVars, menu, client, consent, settled, raced>>

LoadFails(r) ==
  /\ pc[r] = "generate"
  /\ ~readable
  /\ Exit(r)
  /\ UNCHANGED <<fileVars, settled, raced>>

(* Generate returns an OverwriteConfig error; the menu asks its user. *)
MustNotOverwrite(r) ==
  /\ pc[r] = "generate"
  /\ readable
  /\ Found(file, client[r].name) /\ ~client[r].overwrite
  /\ \/ /\ menu[r]
        /\ Go(r, "prompt")
        /\ UNCHANGED <<menu, client, kubeCfg, consent, missed>>
     \/ ~menu[r] /\ Exit(r)
  /\ UNCHANGED <<fileVars, settled, raced>>

(* The user answers Yes, and Generate runs again from the start. *)
Overwrite(r) ==
  /\ pc[r] = "prompt"
  /\ client' = [client EXCEPT ![r] =
                  Merge(@, [NoClient EXCEPT !.overwrite = TRUE])]
  /\ consent' = [consent EXCEPT ![r] = TRUE]
  /\ Go(r, "generate")
  /\ UNCHANGED <<fileVars, menu, kubeCfg, history>>

(* Mutant: the user of the cluster is not set. *)
DialInTwo(r) ==
  /\ pc[r] = "dial"
  /\ kubeCfg' = [kubeCfg EXCEPT ![r] =
                   [k \in Keys |-> IF k[1] # "users" /\ k[2] = client[r].name
                                     THEN client[r].target ELSE @[k]]]
  /\ Go(r, "store")
  /\ UNCHANGED <<fileVars, menu, client, consent, history>>

(* getCACertificates returns the proxy's certificates within its three     *)
(* seconds, and the entries of the cluster are set in memory.              *)
Dial(r) ==
  /\ pc[r] = "dial"
  /\ kubeCfg' = [kubeCfg EXCEPT ![r] =
                   [k \in Keys |-> IF k[2] = client[r].name
                                     THEN client[r].target ELSE @[k]]]
  /\ Go(r, "store")
  /\ UNCHANGED <<fileVars, menu, client, consent, history>>

Truncate(r) ==
  /\ pc[r] = "store"
  /\ file' = NewConfig /\ readable' = TRUE
  /\ Go(r, "truncated")
  /\ raced' = (raced \/ Truncated)
  /\ UNCHANGED <<menu, client, kubeCfg, consent, settled, missed>>

(* A run has read the file, and still holds what it read. *)
HasRead(r) == pc[r] \in {"dial", "store", "truncated"}

(* The file is written from its start.  Where another run has written since *)
(* the truncation, the end of a longer text of its may be left, and the     *)
(* file counts as one that does not parse.                                  *)
WriteFile(r) ==
  /\ pc[r] = "truncated"
  /\ \/ file' = kubeCfg[r] /\ readable' = TRUE
     \/ /\ file # NewConfig \/ ~readable
        /\ file' = NewConfig /\ readable' = FALSE
  /\ settled' = file'
  /\ missed' = [q \in Runs |->
                  IF q = r THEN {}
                  ELSE IF HasRead(q)
                         THEN missed[q] \cup missed[r] \cup {client[r].name}
                         ELSE missed[q]]
  /\ End(r)
  /\ UNCHANGED raced

(* The disk is full.  What has been written is cut off after a section, or *)
(* no longer parses.                                                       *)
WriteFails(r) ==
  /\ pc[r] = "truncated"
  /\ \/ readable' = FALSE /\ file' = NewConfig
     \/ \E n \in 0..2 :
          /\ readable' = TRUE
          /\ file' = [k \in Keys |-> IF \E i \in 1..n : k[1] = Sections[i]
                                       THEN kubeCfg[r][k] ELSE None]
  /\ settled' = file'
  /\ raced' = TRUE
  /\ Exit(r)

(* Where a run ends early without having touched the file: discovery or a  *)
(* prompt fails, the user answers No, the file cannot be read, the proxy    *)
(* cannot be reached, the file cannot be opened for writing, or the run is *)
(* interrupted.                                                            *)
GiveUp(r) ==
  /\ pc[r] \in {"select", "generate", "prompt", "dial", "store"}
  /\ Exit(r)
  /\ UNCHANGED <<fileVars, settled, raced>>

(* The run is interrupted between the truncation and the write. *)
Killed(r) ==
  /\ pc[r] = "truncated"
  /\ settled' = file
  /\ raced' = TRUE
  /\ Exit(r)
  /\ UNCHANGED fileVars

RunStep(r) ==
  \/ \E n \in Names, t \in Targets, o \in BOOLEAN : RunGenerate(r, n, t, o)
  \/ \E o \in BOOLEAN : RunMenu(r, o)
  \/ \E n \in Names, t \in Targets : SelectCluster(r, n, t)
  \/ Load(r)
  \/ LoadFails(r)
  \/ MustNotOverwrite(r)
  \/ Overwrite(r)
  \/ Dial(r)
  \/ Truncate(r)
  \/ WriteFile(r)
  \/ WriteFails(r)
  \/ GiveUp(r)
  \/ Killed(r)

Next == \E r \in Runs : RunStep(r)

Spec == Init /\ [][Next]_vars
------------------------------------------------------------------------------
(* The file; a write under way counts as not begun. *)
Current == IF Truncated THEN settled ELSE file

(* An entry in the file changes only when a run writes its own cluster, or  *)
(* writes back what it had read before another run wrote that entry, or     *)
(* while another was writing: nothing in the code prevents that, and a      *)
(* menu's prompt or the dial leaves much time for it.  Everything else that *)
(* runs do, and all they do to other entries, keeps the file as it is and   *)
(* readable, until two writes overlap or one is cut off (generate.go:72-83  *)
(* and generate.go:107-176, menu.go:92-111).                                *)
EntriesKept ==
  [][~raced' =>
       /\ readable'
       /\ \A k \in Keys :
            \/ Current'[k] = Current[k]
            \/ \E r \in Runs :
                 /\ pc[r] = "truncated" /\ pc'[r] # "truncated"
                 /\ k[2] \in missed[r] \cup {client[r].name}]_vars

(* A run writes over an entry of any section only with --overwrite, or a    *)
(* menu with its user's Yes, whatever its flags say - unless two writes     *)
(* overlap or one is cut off, another run was writing the file when this    *)
(* one looked for its cluster, or has written that cluster since: the       *)
(* overwrite checks are not repeated when the file is written               *)
(* (generate.go:85-105 and 172, menu.go:82-111).                            *)
OverwritesWithConsent ==
  [][\A r \in Runs :
       WriteFile(r) /\ ~raced /\ ~consent[r] /\ client[r].name \notin missed[r] =>
         \A k \in Keys : k[2] = client[r].name => Current[k] = None]_vars

(* The entries of the clusters in the three sections. *)
Entries(cfg) == [n \in Names |-> [i \in 1..3 |-> cfg[<<Sections[i], n>>]]]

Throughout(x) == [i \in 1..3 |-> x]

Request(n, t) == [name |-> n, entry |-> Throughout(t)]

Asked ==
  [r \in Runs |-> IF pc[r] \in {"idle", "select"}
                    THEN Request(None, None)
                    ELSE Request(client[r].name, client[r].target)]

Store ==
  INSTANCE ConfigStore WITH
    Absent <- Throughout(None),
    Nothing <- Request(None, None),
    config <- Entries(Current),
    asked <- Asked,
    agreed <- consent,
    readers <- {r \in Runs : HasRead(r)},
    writers <- {r \in Runs : pc[r] = "truncated"},
    spoilt <- raced

(* Unless two writes overlap, or one is cut off, a run sets its cluster in   *)
(* all of the sections or in none, over nothing or with consent about that   *)
(* very cluster, in one step for all the clusters that no other run has      *)
(* changed since it read; those it may undo, and any cluster if another was  *)
(* writing when it read (generate.go:72-176, menu.go:60-111).                *)
AtomicUnlessMissed == Store!StoreSpec
==============================================================================
