----------------------------- MODULE ConfigStore -----------------------------
(***************************************************************************)
(* What generate and menu promise the runs that share a kubeconfig, without *)
(* sections, files or copies in memory.  A run asks for one cluster, its   *)
(* user may agree that this cluster is written over, it reads, and then    *)
(* sets the whole entry of its cluster or leaves without a trace.  Setting *)
(* is one step as far as the clusters go that no other run has changed     *)
(* since it read; those it has missed it may set back, all of them if it   *)
(* read while another was writing.  The promise is off once the file is    *)
(* spoilt.  KubeConfig implements it.                                      *)
(***************************************************************************)
CONSTANTS
  Runs,
  Names,     \* names of clusters
  Absent,    \* the entry of a cluster that has none
  Nothing    \* what a run asks for before it has chosen

VARIABLES
  config,    \* the entry of every cluster
  asked,     \* the cluster each run asks for and the entry it is to have
  agreed,    \* whether the user of a run agrees to write over an entry
  readers,   \* the runs that have read the kubeconfig
  writers,   \* those of them that are writing it
  missed,    \* the clusters others have changed since a run read
  spoilt     \* a write was disturbed: nothing is promised of the file

storeVars == <<config, asked, agreed, readers, writers, missed, spoilt>>

StoreInit ==
  /\ asked = [r \in Runs |-> Nothing]
  /\ agreed = [r \in Runs |-> FALSE]
  /\ readers = {} /\ writers = {}
  /\ missed = [r \in Runs |-> {}]

(* The kubeconfig becomes c, but for the clusters of C, unless it is spoilt. *)
BecomesBut(C, c) == ~spoilt' => \A n \in Names \ C : config'[n] = c[n]

Stays == BecomesBut({}, config)

(* Run r has ended, and another may begin in its slot. *)
Left(r) ==
  /\ asked' = [asked EXCEPT ![r] = Nothing]
  /\ agreed' = [agreed EXCEPT ![r] = FALSE]
  /\ readers' = readers \ {r} /\ writers' = writers \ {r}

(* A run chooses its cluster, and its user may agree at once. *)
Ask(r) ==
  /\ asked[r] = Nothing /\ asked'[r] # Nothing
  /\ asked' = [asked EXCEPT ![r] = asked'[r]]
  /\ agreed' = [agreed EXCEPT ![r] = agreed'[r]]
  /\ Stays
  /\ UNCHANGED <<readers, writers, missed, spoilt>>

(* The user agrees about the cluster that has been asked for. *)
Agree(r) ==
  /\ asked[r] # Nothing /\ r \notin readers
  /\ agreed' = [agreed EXCEPT ![r] = TRUE]
  /\ Stays
  /\ UNCHANGED <<asked, readers, writers, missed, spoilt>>

Read(r) ==
  /\ asked[r] # Nothing /\ r \notin readers
  /\ readers' = readers \cup {r}
  /\ missed' = [missed EXCEPT ![r] = IF writers = {} THEN {} ELSE Names]
  /\ Stays
  /\ UNCHANGED <<asked, agreed, writers, spoilt>>

(* Two writes at once spoil the file. *)
Begin(r) ==
  /\ r \in readers \ writers
  /\ writers' = writers \cup {r}
  /\ spoilt' = (spoilt \/ writers # {})
  /\ Stays
  /\ UNCHANGED <<asked, agreed, readers, missed>>

Set(r) ==
  LET n == asked[r].name
  IN
  /\ r \in writers
  /\ ~spoilt => agreed[r] \/ n \in missed[r] \/ config[n] = Absent
  /\ Left(r)
  /\ missed' = [q \in Runs |->
                  IF q = r THEN {}
                  ELSE IF q \in readers THEN missed[q] \cup missed[r] \cup {n}
                                        ELSE missed[q]]
  /\ BecomesBut(missed[r] \ {n}, [config EXCEPT ![n] = asked[r].entry])
  /\ UNCHANGED spoilt

Leave(r) ==
  /\ r \notin writers
  /\ Left(r)
  /\ missed' = [missed EXCEPT ![r] = {}]
  /\ Stays
  /\ UNCHANGED spoilt

(* A write is cut off. *)
CutOff(r) ==
  /\ r \in writers
  /\ Left(r)
  /\ missed' = [missed EXCEPT ![r] = {}]
  /\ spoilt' = TRUE

StoreNext ==
  \E r \in Runs :
    Ask(r) \/ Agree(r) \/ Read(r) \/ Begin(r) \/ Set(r) \/ Leave(r) \/ CutOff(r)

StoreSpec == StoreInit /\ [][StoreNext]_storeVars
==============================================================================
