--------------------------- MODULE KubeConfigProofs ---------------------------
(***************************************************************************)
(* Proofs about KubeConfig, for any number of concurrent runs, clusters    *)
(* and proxies: types, what it takes for an entry to be lost or written    *)
(* over without consent, and that ConfigStore is implemented.              *)
(***************************************************************************)
EXTENDS KubeConfig, TLAPS

(* A run that may overwrite has been told so. *)
OverwriteAllowed(r) ==
  pc[r] # "select" /\ client[r].overwrite => consent[r]

(* Two configurations agree on every cluster but those of C. *)
Agree(cfg, other, C) == \A k \in Keys : k[2] \notin C => cfg[k] = other[k]

(* What a run has read is what is in the file, but for the clusters it has  *)
(* missed; from the dial on its own cluster is set.                         *)
HoldsCopy(r) ==
  /\ pc[r] = "dial" => Agree(kubeCfg[r], settled, missed[r])
  /\ pc[r] \in {"store", "truncated"} =>
       /\ \A k \in Keys : k[2] = client[r].name => kubeCfg[r][k] = client[r].target
       /\ Agree(kubeCfg[r], settled, missed[r] \cup {client[r].name})

(* A run that goes on to write has consent, or nothing to ask it for, or    *)
(* has missed that another run wrote its cluster.                           *)
MayWrite(r) ==
  HasRead(r) /\ client[r].name \notin missed[r] =>
    consent[r] \/ ~Found(settled, client[r].name)

(* While r writes, nobody else does. *)
WritesAlone(r) ==
  pc[r] = "truncated" => \A q \in Runs \ {r} : pc[q] # "truncated"

(* While r writes, the file is empty. *)
EmptyWhile(r) == pc[r] = "truncated" => file = NewConfig

KeptInv ==
  ~raced => /\ readable
            /\ \A r \in Runs :
                 HoldsCopy(r) /\ MayWrite(r) /\ WritesAlone(r) /\ EmptyWhile(r)

SettledInv == ~Truncated => settled = file

IInv == /\ TypeOK /\ SettledInv
        /\ \A r \in Runs : OverwriteAllowed(r)
        /\ KeptInv
------------------------------------------------------------------------------
(* A configuration without entries, and one whose entries of a cluster are  *)
(* set, are configurations.                                                 *)
LEMMA ConfigTypes ==
  /\ NewConfig \in Config
  /\ \A cfg \in Config, n \in Names, t \in Targets :
       [k \in Keys |-> IF k[2] = n THEN t ELSE cfg[k]] \in Config
BY DEF NewConfig, Config

(* Merge returns a client. *)
LEMMA MergeType ==
  ASSUME NEW old \in GenerateClient, NEW new \in GenerateClient
  PROVE  /\ Merge(old, new) \in GenerateClient
         /\ Merge(old, new).overwrite = new.overwrite
         /\ new.name # None => Merge(old, new).name = new.name
         /\ new.name = None => Merge(old, new).name = old.name
         /\ new.target # None => Merge(old, new).target = new.target
         /\ new.target = None => Merge(old, new).target = old.target
BY DEF Merge, GenerateClient

(* The end of a run keeps the types. *)
LEMMA ExitTypes ==
  ASSUME TypeOK, NEW r \in Runs, Exit(r), file' \in Config,
         settled' \in Config, readable' \in BOOLEAN, raced' \in BOOLEAN
  PROVE  TypeOK'
<1>1. NoClient \in GenerateClient /\ NewConfig \in Config
  BY ConfigTypes DEF NoClient, GenerateClient
<1> QED
  BY <1>1 DEF TypeOK, Exit, End, Go

(* Every step keeps the types (TypeOK is inductive).                        *)
LEMMA TypesStep ==
  ASSUME TypeOK, [Next]_vars
  PROVE  TypeOK'
<1> USE DEF Go, fileVars, history
<1>1. ASSUME NEW r \in Runs, NEW n \in Names, NEW t \in Targets,
             NEW o \in BOOLEAN, RunGenerate(r, n, t, o)
      PROVE  TypeOK'
  <2>1. /\ [name |-> n, target |-> t, overwrite |-> o] \in GenerateClient
        /\ n # None /\ t # None
    BY EntriesAssumption DEF GenerateClient
  <2> QED
    BY <1>1, <2>1 DEF TypeOK, RunGenerate
<1>2. ASSUME NEW r \in Runs, NEW o \in BOOLEAN, RunMenu(r, o)
      PROVE  TypeOK'
  <2>1. [client[r] EXCEPT !.overwrite = o] \in GenerateClient
    BY DEF TypeOK, GenerateClient
  <2>2. client' = [client EXCEPT ![r] = [client[r] EXCEPT !.overwrite = o]]
    BY <1>2 DEF RunMenu, TypeOK
  <2> QED
    BY <1>2, <2>1, <2>2 DEF TypeOK, RunMenu
<1>3. ASSUME NEW r \in Runs, NEW n \in Names, NEW t \in Targets,
             SelectCluster(r, n, t)
      PROVE  TypeOK'
  <2> DEFINE new == [name |-> n, target |-> t, overwrite |-> FALSE]
             c == Merge(client[r], new)
  <2>1. new \in GenerateClient /\ client[r] \in GenerateClient
        /\ new.name # None /\ new.target # None
    BY EntriesAssumption DEF GenerateClient, TypeOK
  <2>2. c \in GenerateClient /\ c.name # None /\ c.target # None
    BY <2>1, MergeType
  <2>3. client' = [client EXCEPT ![r] = c]
    BY <1>3 DEF SelectCluster
  <2> HIDE DEF c
  <2> QED
    BY <1>3, <2>2, <2>3 DEF TypeOK, SelectCluster
<1>4. ASSUME NEW r \in Runs, Load(r)
      PROVE  TypeOK'
  <2>1. Truncated \in BOOLEAN
    BY DEF Truncated
  <2> QED
    BY <1>4, <2>1 DEF TypeOK, Load
<1>5. ASSUME NEW r \in Runs, LoadFails(r) \/ GiveUp(r) \/ Killed(r)
      PROVE  TypeOK'
  BY <1>5, ExitTypes DEF TypeOK, LoadFails, GiveUp, Killed
<1>6. ASSUME NEW r \in Runs, MustNotOverwrite(r)
      PROVE  TypeOK'
  <2>1. CASE Exit(r)
    BY <1>6, <2>1, ExitTypes DEF TypeOK, MustNotOverwrite
  <2>2. CASE ~Exit(r)
    BY <1>6, <2>2 DEF TypeOK, MustNotOverwrite
  <2> QED
    BY <2>1, <2>2
<1>7. ASSUME NEW r \in Runs, Overwrite(r)
      PROVE  TypeOK'
  <2> DEFINE new == [NoClient EXCEPT !.overwrite = TRUE]
             c == Merge(client[r], new)
  <2>1. new \in GenerateClient /\ client[r] \in GenerateClient
        /\ new.name = None /\ new.target = None
    BY DEF GenerateClient, TypeOK, NoClient
  <2>2. c \in GenerateClient /\ c.name = client[r].name
        /\ c.target = client[r].target
    BY <2>1, MergeType
  <2>3. client' = [client EXCEPT ![r] = c]
    BY <1>7 DEF Overwrite
  <2> HIDE DEF c
  <2> QED
    BY <1>7, <2>2, <2>3 DEF TypeOK, Overwrite
<1>8. ASSUME NEW r \in Runs, Dial(r)
      PROVE  TypeOK'
  <2>1. /\ kubeCfg[r] \in Config
        /\ client[r].name \in Names /\ client[r].target \in Targets
    BY <1>8 DEF TypeOK, Dial, GenerateClient
  <2>2. [k \in Keys |-> IF k[2] = client[r].name
                          THEN client[r].target ELSE kubeCfg[r][k]] \in Config
    BY <2>1, ConfigTypes
  <2> QED
    BY <1>8, <2>2 DEF TypeOK, Dial
<1>9. ASSUME NEW r \in Runs, Truncate(r)
      PROVE  TypeOK'
  BY <1>9, ConfigTypes DEF TypeOK, Truncate
<1>10. ASSUME NEW r \in Runs, WriteFile(r)
       PROVE  TypeOK'
  <2>1. client[r].name \in Names
    BY <1>10 DEF TypeOK, WriteFile, GenerateClient
  <2>2. file' \in Config /\ readable' \in BOOLEAN
    BY <1>10, ConfigTypes DEF TypeOK, WriteFile
  <2>3. missed' \in [Runs -> SUBSET Names]
    BY <1>10, <2>1 DEF TypeOK, WriteFile
  <2>4. NoClient \in GenerateClient /\ NewConfig \in Config
    BY ConfigTypes DEF NoClient, GenerateClient
  <2> QED
    BY <1>10, <2>2, <2>3, <2>4 DEF TypeOK, WriteFile, End
<1>11. ASSUME NEW r \in Runs, WriteFails(r)
       PROVE  TypeOK'
  <2>1. ASSUME NEW m \in 0..2,
               file' = [k \in Keys |-> IF \E i \in 1..m : k[1] = Sections[i]
                                         THEN kubeCfg[r][k] ELSE None]
        PROVE  file' \in Config
    BY <2>1 DEF TypeOK, Config
  <2>2. file' \in Config /\ readable' \in BOOLEAN
    BY <1>11, <2>1, ConfigTypes DEF WriteFails
  <2> QED
    BY <1>11, <2>2, ExitTypes DEF TypeOK, WriteFails
<1>12. CASE UNCHANGED vars
  BY <1>12 DEF TypeOK, vars
<1> QED
  BY <1>1, <1>2, <1>3, <1>4, <1>5, <1>6, <1>7, <1>8, <1>9, <1>10, <1>11, <1>12
     DEF Next, RunStep
------------------------------------------------------------------------------
(* Every step leaves the flag to overwrite to runs that have consent.       *)
LEMMA ConsentStep ==
  ASSUME TypeOK, \A r \in Runs : OverwriteAllowed(r), [Next]_vars
  PROVE  \A r \in Runs : OverwriteAllowed(r)'
<1> USE DEF Go, fileVars, history, OverwriteAllowed
<1>1. ASSUME NEW r \in Runs, NEW n \in Names, NEW t \in Targets,
             NEW o \in BOOLEAN, RunGenerate(r, n, t, o)
      PROVE  \A q \in Runs : OverwriteAllowed(q)'
  BY <1>1 DEF TypeOK, RunGenerate
<1>2. ASSUME NEW r \in Runs, NEW o \in BOOLEAN, RunMenu(r, o)
      PROVE  \A q \in Runs : OverwriteAllowed(q)'
  BY <1>2 DEF TypeOK, RunMenu
<1>3. ASSUME NEW r \in Runs, NEW n \in Names, NEW t \in Targets,
             SelectCluster(r, n, t)
      PROVE  \A q \in Runs : OverwriteAllowed(q)'
  BY <1>3 DEF TypeOK, SelectCluster, Merge
<1>4. ASSUME NEW r \in Runs,
             \/ LoadFails(r) \/ GiveUp(r) \/ Killed(r)
             \/ WriteFile(r) \/ WriteFails(r)
      PROVE  \A q \in Runs : OverwriteAllowed(q)'
  <2>1. End(r)
    BY <1>4 DEF LoadFails, GiveUp, Killed, WriteFile, WriteFails, Exit
  <2> QED
    BY <2>1 DEF TypeOK, End, NoClient
<1>5. ASSUME NEW r \in Runs, MustNotOverwrite(r)
      PROVE  \A q \in Runs : OverwriteAllowed(q)'
  <2>1. CASE Exit(r)
    BY <2>1 DEF TypeOK, Exit, End, NoClient
  <2>2. CASE ~Exit(r)
    BY <1>5, <2>2 DEF TypeOK, MustNotOverwrite
  <2> QED
    BY <2>1, <2>2
<1>6. ASSUME NEW r \in Runs, Overwrite(r)
      PROVE  \A q \in Runs : OverwriteAllowed(q)'
  BY <1>6 DEF TypeOK, Overwrite
<1>7. ASSUME NEW r \in Runs, Load(r) \/ Dial(r) \/ Truncate(r)
      PROVE  \A q \in Runs : OverwriteAllowed(q)'
  BY <1>7 DEF TypeOK, Load, Dial, Truncate
<1>8. CASE UNCHANGED vars
  BY <1>8 DEF vars
<1> QED
  BY <1>1, <1>2, <1>3, <1>4, <1>5, <1>6, <1>7, <1>8 DEF Next, RunStep
------------------------------------------------------------------------------
(* Every step ends with the file settled, or with a write under way. *)
LEMMA SettledStep ==
  ASSUME TypeOK, SettledInv, [Next]_vars
  PROVE  SettledInv'
<1> USE DEF Go, fileVars, history
<1>1. ASSUME NEW r \in Runs, pc[r] # "truncated", pc'[r] # "truncated",
             \A q \in Runs \ {r} : pc'[q] = pc[q], UNCHANGED <<file, settled>>
      PROVE  SettledInv'
  BY <1>1 DEF SettledInv, Truncated
<1>2. ASSUME NEW r \in Runs,
             \/ \E n \in Names, t \in Targets, o \in BOOLEAN : RunGenerate(r, n, t, o)
             \/ \E o \in BOOLEAN : RunMenu(r, o)
             \/ \E n \in Names, t \in Targets : SelectCluster(r, n, t)
             \/ Load(r) \/ LoadFails(r) \/ MustNotOverwrite(r) \/ Overwrite(r)
             \/ Dial(r) \/ GiveUp(r)
      PROVE  SettledInv'
  BY <1>1, <1>2
     DEF RunGenerate, RunMenu, SelectCluster, Load, LoadFails, MustNotOverwrite,
         Overwrite, Dial, GiveUp, Exit, End, TypeOK
<1>3. ASSUME NEW r \in Runs, Truncate(r)
      PROVE  SettledInv'
  BY <1>3 DEF Truncate, SettledInv, Truncated, TypeOK
<1>4. ASSUME NEW r \in Runs, WriteFile(r) \/ WriteFails(r) \/ Killed(r)
      PROVE  SettledInv'
  BY <1>4 DEF WriteFile, WriteFails, Killed, SettledInv
<1>5. CASE UNCHANGED vars
  BY <1>5 DEF vars, SettledInv, Truncated
<1> QED
  BY <1>2, <1>3, <1>4, <1>5 DEF Next, RunStep

(* A step of r that writes nothing keeps what is in the file, and what the  *)
(* others have read of it.                                                  *)
LEMMA ReaderKeeps ==
  ASSUME TypeOK, KeptInv, NEW r \in Runs,
         UNCHANGED <<file, readable, settled, raced>>,
         pc[r] # "truncated", pc'[r] # "truncated",
         \A q \in Runs \ {r} :
           /\ pc'[q] = pc[q] /\ client'[q] = client[q]
           /\ kubeCfg'[q] = kubeCfg[q] /\ consent'[q] = consent[q]
           /\ missed'[q] = missed[q],
         ~raced => HoldsCopy(r)' /\ MayWrite(r)'
  PROVE  KeptInv'
<1> SUFFICES ASSUME ~raced, NEW q \in Runs
             PROVE  HoldsCopy(q)' /\ MayWrite(q)' /\ WritesAlone(q)' /\ EmptyWhile(q)'
  BY DEF KeptInv
<1>1. HoldsCopy(q) /\ MayWrite(q) /\ WritesAlone(q) /\ EmptyWhile(q)
  BY DEF KeptInv
<1>2. CASE q = r
  BY <1>2 DEF WritesAlone, EmptyWhile
<1>3. CASE q # r
  <2>1. HoldsCopy(q)'
    BY <1>1, <1>3 DEF HoldsCopy
  <2>2. MayWrite(q)'
    BY <1>1, <1>3 DEF MayWrite, HasRead, Found
  <2>3. WritesAlone(q)' /\ EmptyWhile(q)'
    BY <1>1, <1>3 DEF WritesAlone, EmptyWhile
  <2> QED
    BY <2>1, <2>2, <2>3
<1> QED
  BY <1>2, <1>3

(* A run that has not read holds no copy. *)
LEMMA NoCopyHeld ==
  ASSUME NEW r \in Runs, pc'[r] \in {"idle", "select", "generate", "prompt"}
  PROVE  HoldsCopy(r)' /\ MayWrite(r)'
BY DEF HoldsCopy, MayWrite, HasRead

(* Where a run writes back a copy that agrees with the file but for what it *)
(* has missed and its own cluster, every other copy agrees with the new     *)
(* file but for what its run has now missed.                                *)
LEMMA CopiesAgree ==
  ASSUME NEW copy, NEW other, NEW old, NEW C, NEW D, NEW own,
         Agree(copy, old, C \cup {own}), Agree(other, old, D)
  PROVE  Agree(other, copy, D \cup C \cup {own})
BY DEF Agree

(* Where two configurations agree on a cluster, both have it or neither.    *)
LEMMA FoundAgrees ==
  ASSUME NEW cfg, NEW other, NEW C, Agree(cfg, other, C), NEW n \in Names,
         n \notin C
  PROVE  Found(cfg, n) <=> Found(other, n)
<1>1. \A i \in 1..3 : <<Sections[i], n>> \in Keys /\ <<Sections[i], n>>[2] = n
  BY DEF Keys
<1> QED
  BY <1>1 DEF Agree, Found

(* While no write has overlapped or been cut off, every step keeps what     *)
(* nobody has changed in the file, and the consent to write over it.        *)
LEMMA KeptStep ==
  ASSUME IInv, [Next]_vars
  PROVE  KeptInv'
<1> USE DEF IInv, Go, fileVars, history
<1>1. ASSUME NEW r \in Runs, NEW n \in Names, NEW t \in Targets,
             NEW o \in BOOLEAN, RunGenerate(r, n, t, o)
      PROVE  KeptInv'
  BY <1>1, ReaderKeeps, NoCopyHeld DEF RunGenerate, TypeOK
<1>2. ASSUME NEW r \in Runs, NEW o \in BOOLEAN, RunMenu(r, o)
      PROVE  KeptInv'
  BY <1>2, ReaderKeeps, NoCopyHeld DEF RunMenu, TypeOK
<1>3. ASSUME NEW r \in Runs, NEW n \in Names, NEW t \in Targets,
             SelectCluster(r, n, t)
      PROVE  KeptInv'
  BY <1>3, ReaderKeeps, NoCopyHeld DEF SelectCluster, TypeOK
<1>4. ASSUME NEW r \in Runs, Load(r)
      PROVE  KeptInv'
  <2>1. /\ pc' = [pc EXCEPT ![r] = "dial"] /\ pc[r] = "generate"
        /\ kubeCfg' = [kubeCfg EXCEPT ![r] = file]
        /\ missed' = [missed EXCEPT ![r] = IF Truncated THEN Names ELSE {}]
        /\ UNCHANGED <<file, readable, client, consent, settled, raced>>
        /\ Found(file, client[r].name) => client[r].overwrite
    BY <1>4 DEF Load
  <2>2. client[r].name \in Names
    BY <2>1 DEF TypeOK, GenerateClient
  <2>3. ~Truncated => file = settled
    BY DEF SettledInv
  <2>4. Agree(file, settled, missed'[r])
    BY <2>1, <2>3 DEF Agree, Keys, TypeOK
  <2>5. HoldsCopy(r)'
    BY <2>1, <2>4 DEF HoldsCopy, TypeOK
  <2>6. MayWrite(r)'
    <3>1. SUFFICES ASSUME ~Truncated
                   PROVE  consent[r] \/ ~Found(settled, client[r].name)
      BY <2>1, <2>2 DEF MayWrite, Found, TypeOK
    <3> QED
      BY <2>1, <2>3, <3>1 DEF OverwriteAllowed
  <2> QED
    BY <2>1, <2>5, <2>6, ReaderKeeps DEF TypeOK
<1>5. ASSUME NEW r \in Runs, LoadFails(r) \/ GiveUp(r)
      PROVE  KeptInv'
  <2>1. /\ Exit(r) /\ UNCHANGED <<file, readable, settled, raced>>
        /\ pc[r] # "truncated"
    BY <1>5 DEF LoadFails, GiveUp
  <2> QED
    BY <2>1, ReaderKeeps, NoCopyHeld DEF Exit, End, TypeOK
<1>6. ASSUME NEW r \in Runs, MustNotOverwrite(r)
      PROVE  KeptInv'
  <2>1. CASE Exit(r)
    BY <1>6, <2>1, ReaderKeeps, NoCopyHeld DEF MustNotOverwrite, Exit, End, TypeOK
  <2>2. CASE ~Exit(r)
    BY <1>6, <2>2, ReaderKeeps, NoCopyHeld DEF MustNotOverwrite, TypeOK
  <2> QED
    BY <2>1, <2>2
<1>7. ASSUME NEW r \in Runs, Overwrite(r)
      PROVE  KeptInv'
  BY <1>7, ReaderKeeps, NoCopyHeld DEF Overwrite, TypeOK
<1>8. ASSUME NEW r \in Runs, Dial(r)
      PROVE  KeptInv'
  <2>1. /\ pc' = [pc EXCEPT ![r] = "store"] /\ pc[r] = "dial"
        /\ kubeCfg'[r] = [k \in Keys |-> IF k[2] = client[r].name
                             THEN client[r].target ELSE kubeCfg[r][k]]
        /\ \A q \in Runs \ {r} : kubeCfg'[q] = kubeCfg[q]
        /\ UNCHANGED <<file, readable, client, consent, settled, missed, raced>>
    BY <1>8 DEF Dial, TypeOK
  <2>2. ~raced => HoldsCopy(r) /\ MayWrite(r)
    BY DEF KeptInv
  <2>3. ~raced => HoldsCopy(r)'
    BY <2>1, <2>2 DEF HoldsCopy, Agree, TypeOK
  <2>4. ~raced => MayWrite(r)'
    BY <2>1, <2>2 DEF MayWrite, HasRead, Found, TypeOK
  <2> QED
    BY <2>1, <2>3, <2>4, ReaderKeeps DEF TypeOK
<1>9. ASSUME NEW r \in Runs, Truncate(r)
      PROVE  KeptInv'
  <2> SUFFICES ASSUME ~raced', NEW q \in Runs
               PROVE  /\ readable'
                      /\ HoldsCopy(q)' /\ MayWrite(q)' /\ WritesAlone(q)'
                      /\ EmptyWhile(q)'
    BY <1>9 DEF KeptInv, Truncate
  <2>1. /\ ~raced /\ ~Truncated /\ pc[r] = "store"
        /\ pc' = [pc EXCEPT ![r] = "truncated"]
        /\ file' = NewConfig /\ readable'
        /\ UNCHANGED <<kubeCfg, client, consent, settled, missed>>
    BY <1>9 DEF Truncate, TypeOK
  <2>2. HoldsCopy(q)'
    BY <2>1 DEF KeptInv, HoldsCopy, TypeOK
  <2>3. MayWrite(q)'
    BY <2>1 DEF KeptInv, MayWrite, HasRead, Found, TypeOK
  <2>4. WritesAlone(q)' /\ EmptyWhile(q)'
    BY <2>1 DEF WritesAlone, EmptyWhile, Truncated, TypeOK
  <2> QED
    BY <2>1, <2>2, <2>3, <2>4
<1>10. ASSUME NEW r \in Runs, WriteFile(r)
       PROVE  KeptInv'
  <2> SUFFICES ASSUME ~raced, NEW q \in Runs
               PROVE  /\ readable'
                      /\ HoldsCopy(q)' /\ MayWrite(q)' /\ WritesAlone(q)'
                      /\ EmptyWhile(q)'
    BY <1>10 DEF KeptInv, WriteFile
  <2> DEFINE n == client[r].name
  <2>1. /\ pc[r] = "truncated" /\ pc' = [pc EXCEPT ![r] = "idle"]
        /\ \A p \in Runs \ {r} :
             /\ client'[p] = client[p] /\ kubeCfg'[p] = kubeCfg[p]
             /\ consent'[p] = consent[p]
        /\ \A p \in Runs \ {r} :
             HasRead(p) => missed'[p] = missed[p] \cup missed[r] \cup {n}
        /\ settled' = file'
    BY <1>10 DEF WriteFile, End, TypeOK
  <2>2. /\ Agree(kubeCfg[r], settled, missed[r] \cup {n})
        /\ readable /\ file = NewConfig
        /\ \A p \in Runs \ {r} : pc[p] # "truncated"
    BY <2>1 DEF KeptInv, HoldsCopy, WritesAlone, EmptyWhile
  <2>3. readable' /\ settled' = kubeCfg[r]
    BY <1>10, <2>2 DEF WriteFile
  <2>4. CASE q = r
    BY <2>1, <2>3, <2>4, NoCopyHeld DEF WritesAlone, EmptyWhile, TypeOK
  <2>5. CASE q # r
    <3>1. pc'[q] = pc[q] /\ pc[q] # "truncated"
      BY <2>1, <2>2, <2>5 DEF TypeOK
    <3>2. WritesAlone(q)' /\ EmptyWhile(q)'
      BY <3>1 DEF WritesAlone, EmptyWhile
    <3>3. CASE ~HasRead(q)
      BY <2>3, <3>1, <3>2, <3>3 DEF HoldsCopy, MayWrite, HasRead
    <3>4. ASSUME pc[q] = "dial"
          PROVE  HoldsCopy(q)'
      <4>1. /\ Agree(kubeCfg[q], settled, missed[q])
            /\ missed'[q] = missed[q] \cup missed[r] \cup {n}
        BY <2>1, <2>5, <3>4 DEF KeptInv, HoldsCopy, HasRead
      <4>2. Agree(kubeCfg[q], kubeCfg[r], missed[q] \cup missed[r] \cup {n})
        BY <2>2, <4>1, CopiesAgree
      <4> QED
        BY <2>1, <2>3, <2>5, <3>1, <3>4, <4>1, <4>2 DEF HoldsCopy
    <3>5. ASSUME pc[q] = "store"
          PROVE  HoldsCopy(q)'
      <4>1. /\ \A k \in Keys : k[2] = client[q].name => kubeCfg[q][k] = client[q].target
            /\ Agree(kubeCfg[q], settled, missed[q] \cup {client[q].name})
            /\ missed'[q] = missed[q] \cup missed[r] \cup {n}
        BY <2>1, <2>5, <3>5 DEF KeptInv, HoldsCopy, HasRead
      <4>2. Agree(kubeCfg[q], kubeCfg[r],
                  missed[q] \cup {client[q].name} \cup missed[r] \cup {n})
        BY <2>2, <4>1, CopiesAgree
      <4>3. missed[q] \cup {client[q].name} \cup missed[r] \cup {n}
              = missed'[q] \cup {client[q].name}
        BY <4>1
      <4> QED
        BY <2>1, <2>3, <2>5, <3>1, <3>5, <4>1, <4>2, <4>3 DEF HoldsCopy
    <3>6. CASE HasRead(q)
      <4>1. HoldsCopy(q)'
        BY <3>1, <3>4, <3>5, <3>6 DEF HasRead, HoldsCopy
      <4>2. MayWrite(q)'
        <5>1. SUFFICES ASSUME client[q].name \notin missed'[q]
                       PROVE  consent[q] \/ ~Found(settled', client[q].name)
          BY <2>1, <2>5 DEF MayWrite, Found
        <5>2. /\ client[q].name \in Names
              /\ client[q].name \notin missed[q]
              /\ client[q].name \notin missed[r] \cup {n}
          BY <2>1, <2>5, <3>6, <5>1 DEF TypeOK, GenerateClient, HasRead
        <5>3. consent[q] \/ ~Found(settled, client[q].name)
          BY <3>6, <5>2 DEF KeptInv, MayWrite
        <5> QED
          BY <2>2, <2>3, <5>2, <5>3, FoundAgrees
      <4> QED
        BY <2>3, <3>2, <4>1, <4>2
    <3> QED
      BY <2>3, <3>3, <3>2, <3>6
  <2> QED
    BY <2>4, <2>5
<1>11. ASSUME NEW r \in Runs, WriteFails(r) \/ Killed(r)
       PROVE  KeptInv'
  BY <1>11 DEF WriteFails, Killed, KeptInv
<1>12. CASE UNCHANGED vars
  BY <1>12 DEF vars, KeptInv, HoldsCopy, MayWrite, HasRead, Found, WritesAlone,
               EmptyWhile
<1> QED
  BY <1>1, <1>2, <1>3, <1>4, <1>5, <1>6, <1>7, <1>8, <1>9, <1>10, <1>11, <1>12
     DEF Next, RunStep
------------------------------------------------------------------------------
(* The inductive invariant: types, who may overwrite, and what a run has in *)
(* memory compared with what is in the file.                                *)
THEOREM Invariant == Spec => []IInv
<1>1. Init => IInv
  <2> SUFFICES ASSUME Init PROVE IInv
    OBVIOUS
  <2>1. NoClient \in GenerateClient /\ NewConfig \in Config
    BY ConfigTypes DEF NoClient, GenerateClient
  <2>2. TypeOK
    BY <2>1 DEF Init, TypeOK, Config
  <2>3. (\A r \in Runs : OverwriteAllowed(r)) /\ SettledInv
    BY DEF Init, OverwriteAllowed, NoClient, SettledInv
  <2>4. KeptInv
    BY DEF Init, KeptInv, HoldsCopy, MayWrite, HasRead, WritesAlone, EmptyWhile
  <2> QED
    BY <2>2, <2>3, <2>4 DEF IInv
<1>2. IInv /\ [Next]_vars => IInv'
  BY TypesStep, SettledStep, ConsentStep, KeptStep DEF IInv
<1> QED
  BY <1>1, <1>2, PTL DEF Spec

(* The variables keep their types: from the choice of the cluster on, every *)
(* run has the name and the address of one (generate.go:183-211).           *)
THEOREM TypeCorrect == Spec => []TypeOK
<1>1. IInv => TypeOK
  BY DEF IInv
<1> QED
  BY <1>1, Invariant, PTL

(* What counts as in the file is what was there before a write under way.   *)
LEMMA CurrentIsSettled ==
  /\ IInv => Current = settled
  /\ IInv' => Current' = settled'
BY DEF IInv, SettledInv, Current

(* What a write leaves of the entries its run has not missed. *)
LEMMA WriteKeeps ==
  ASSUME IInv, NEW r \in Runs, WriteFile(r), ~raced
  PROVE  /\ readable' /\ settled' = kubeCfg[r]
         /\ \A k \in Keys : k[2] = client[r].name => settled'[k] = client[r].target
         /\ Agree(settled', settled, missed[r] \cup {client[r].name})
<1>1. /\ pc[r] = "truncated" /\ HoldsCopy(r) /\ EmptyWhile(r) /\ readable
  BY DEF WriteFile, IInv, KeptInv
<1>2. readable' /\ settled' = kubeCfg[r]
  BY <1>1 DEF WriteFile, EmptyWhile
<1> QED
  BY <1>1, <1>2 DEF HoldsCopy

(* For any number of runs, an entry of the kubeconfig changes only when a   *)
(* run writes its own cluster, one that another has written since the run   *)
(* read the file, or any if another was writing then, until writes overlap  *)
(* or one is cut off (generate.go:72-83 and 107-176).                       *)
THEOREM EntriesAreKept == Spec => EntriesKept
<1>1. ASSUME IInv, IInv', [Next]_vars, ~raced'
      PROVE  /\ readable'
             /\ \A k \in Keys :
                  \/ settled'[k] = settled[k]
                  \/ \E r \in Runs :
                       /\ pc[r] = "truncated" /\ pc'[r] # "truncated"
                       /\ k[2] \in missed[r] \cup {client[r].name}
  <2>1. readable'
    BY <1>1 DEF IInv, KeptInv
  <2>2. CASE \E r \in Runs : WriteFile(r)
    <3>1. PICK r \in Runs : WriteFile(r)
      BY <2>2
    <3>2. ~raced /\ pc[r] = "truncated" /\ pc'[r] # "truncated"
      BY <1>1, <3>1 DEF WriteFile, End, Go, IInv, TypeOK
    <3>3. Agree(settled', settled, missed[r] \cup {client[r].name})
      BY <1>1, <3>1, <3>2, WriteKeeps
    <3> QED
      BY <2>1, <3>2, <3>3 DEF Agree
  <2>3. CASE ~\E r \in Runs : WriteFile(r)
    <3>1. UNCHANGED settled
      BY <1>1, <2>3
         DEF Next, RunStep, RunGenerate, RunMenu, SelectCluster, Load, LoadFails,
             MustNotOverwrite, Overwrite, Dial, Truncate, WriteFails, GiveUp,
             Killed, vars, history
    <3> QED
      BY <2>1, <3>1
  <2> QED
    BY <2>2, <2>3
<1>2. IInv /\ IInv' /\ [Next]_vars =>
        [~raced' =>
           /\ readable'
           /\ \A k \in Keys :
                \/ Current'[k] = Current[k]
                \/ \E r \in Runs :
                     /\ pc[r] = "truncated" /\ pc'[r] # "truncated"
                     /\ k[2] \in missed[r] \cup {client[r].name}]_vars
  BY <1>1, CurrentIsSettled
<1> QED
  BY <1>2, Invariant, PTL DEF Spec, EntriesKept

(* For any number of runs, none writes over an entry without --overwrite or *)
(* the user's Yes, unless another was writing the file when the run looked  *)
(* for its cluster or has written that cluster since, or writes overlap or  *)
(* one is cut off (generate.go:85-105, menu.go:82-111).                     *)
THEOREM OverwritesHaveConsent == Spec => OverwritesWithConsent
<1>1. ASSUME IInv, NEW r \in Runs, WriteFile(r), ~raced, ~consent[r],
             client[r].name \notin missed[r],
             NEW k \in Keys, k[2] = client[r].name
      PROVE  Current[k] = None
  <2>1. ~Found(settled, client[r].name)
    BY <1>1 DEF IInv, KeptInv, MayWrite, HasRead, WriteFile
  <2>2. PICK i \in 1..3 : k = <<Sections[i], client[r].name>>
    BY <1>1 DEF Keys
  <2> QED
    BY <1>1, <2>1, <2>2, CurrentIsSettled DEF Found
<1>2. IInv /\ [Next]_vars =>
        [\A r \in Runs :
           WriteFile(r) /\ ~raced /\ ~consent[r] /\ client[r].name \notin missed[r] =>
             \A k \in Keys : k[2] = client[r].name => Current[k] = None]_vars
  BY <1>1
<1> QED
  BY <1>2, Invariant, PTL DEF Spec, OverwritesWithConsent
------------------------------------------------------------------------------
(* The runs that have read and those that write, as ConfigStore sees them.  *)
Readers == {r \in Runs : HasRead(r)}

Writers == {r \in Runs : pc[r] = "truncated"}

(* Where configurations agree on a cluster, so do its entries. *)
LEMMA EntriesAgree ==
  ASSUME NEW cfg, NEW other, NEW C, Agree(cfg, other, C), NEW n \in Names \ C
  PROVE  Entries(cfg)[n] = Entries(other)[n]
<1>1. \A i \in 1..3 : <<Sections[i], n>> \in Keys /\ <<Sections[i], n>>[2] = n
  BY DEF Keys
<1> QED
  BY <1>1 DEF Agree, Entries

(* The entry of a cluster whose entries are set in all the sections. *)
LEMMA EntrySet ==
  ASSUME NEW cfg, NEW n \in Names, NEW t,
         \A k \in Keys : k[2] = n => cfg[k] = t
  PROVE  Entries(cfg)[n] = Throughout(t)
<1>1. \A i \in 1..3 : <<Sections[i], n>> \in Keys /\ <<Sections[i], n>>[2] = n
  BY DEF Keys
<1> QED
  BY <1>1 DEF Entries, Throughout

(* A cluster that Generate does not find has no entry. *)
LEMMA NotFoundIsAbsent ==
  ASSUME NEW cfg \in Config, NEW n \in Names, ~Found(cfg, n)
  PROVE  Entries(cfg)[n] = Throughout(None)
BY DEF Entries, Throughout, Found

(* A step that leaves the file as it is, or spoils it. *)
LEMMA FileStays ==
  ASSUME IInv, IInv', UNCHANGED settled \/ raced'
  PROVE  Store!Stays
<1>1. CASE UNCHANGED settled
  <2>1. Current' = Current
    BY <1>1, CurrentIsSettled
  <2>2. Entries(Current)' = Entries(Current)
    BY <2>1 DEF Entries
  <2> QED
    BY <2>2 DEF Store!Stays, Store!BecomesBut
<1>2. CASE raced'
  BY <1>2 DEF Store!Stays, Store!BecomesBut
<1> QED
  BY <1>1, <1>2

(* The end of a run, as ConfigStore sees it. *)
LEMMA EndIsLeft ==
  ASSUME IInv, NEW r \in Runs, End(r)
  PROVE  Store!Left(r)
<1>1. /\ pc \in [Runs -> {"idle", "select", "generate", "prompt", "dial", "store",
                          "truncated"}]
      /\ pc' = [pc EXCEPT ![r] = "idle"] /\ consent' = [consent EXCEPT ![r] = FALSE]
      /\ \A q \in Runs \ {r} : client'[q] = client[q]
  BY DEF End, Go, IInv, TypeOK
<1>2. Asked' = [Asked EXCEPT ![r] = Request(None, None)]
  BY <1>1 DEF Asked, Request, Throughout
<1>3. Readers' = Readers \ {r} /\ Writers' = Writers \ {r}
  BY <1>1 DEF Readers, HasRead, Writers
<1> QED
  BY <1>1, <1>2, <1>3 DEF Store!Left, Readers, Writers

(* Each step of a run is one of ConfigStore or a stutter. *)
LEMMA RunImplements ==
  ASSUME IInv, IInv', NEW r \in Runs, RunStep(r)
  PROVE  Store!StoreNext \/ UNCHANGED Store!storeVars
<1> USE DEF Go, fileVars, history
<1>1. /\ TypeOK /\ KeptInv /\ TypeOK' /\ raced \in BOOLEAN
      /\ pc \in [Runs -> {"idle", "select", "generate", "prompt", "dial", "store",
                          "truncated"}]
  BY DEF IInv, TypeOK
<1>2. ASSUME NEW n \in Names, NEW t \in Targets, NEW o \in BOOLEAN,
             RunGenerate(r, n, t, o) \/ SelectCluster(r, n, t)
      PROVE  Store!Ask(r)
  <2>1. /\ pc[r] \in {"idle", "select"} /\ pc' = [pc EXCEPT ![r] = "generate"]
        /\ \A q \in Runs \ {r} : client'[q] = client[q]
        /\ consent' = [consent EXCEPT ![r] = consent'[r]]
        /\ UNCHANGED <<settled, missed, raced>>
    BY <1>1, <1>2 DEF RunGenerate, SelectCluster, TypeOK
  <2>2. /\ Asked[r] = Request(None, None)
        /\ Asked' = [Asked EXCEPT ![r] = Request(client'[r].name, client'[r].target)]
    BY <1>1, <2>1 DEF Asked
  <2>3. client'[r].name # None
    BY <1>1, <2>1 DEF TypeOK
  <2>4. Asked'[r] = Request(client'[r].name, client'[r].target)
    BY <2>2 DEF Asked
  <2>5. Asked'[r] # Request(None, None)
    BY <2>3, <2>4 DEF Request
  <2>6. Readers' = Readers /\ Writers' = Writers
    BY <1>1, <2>1 DEF Readers, HasRead, Writers
  <2> QED
    BY <2>1, <2>2, <2>4, <2>5, <2>6, FileStays DEF Store!Ask, Readers, Writers
<1>3. CASE Overwrite(r)
  <2>1. /\ pc[r] = "prompt" /\ pc' = [pc EXCEPT ![r] = "generate"]
        /\ consent' = [consent EXCEPT ![r] = TRUE]
        /\ UNCHANGED <<settled, missed, raced>>
        /\ client' = [client EXCEPT ![r] =
                        Merge(client[r], [NoClient EXCEPT !.overwrite = TRUE])]
    BY <1>3 DEF Overwrite
  <2>2. /\ client'[r].name = client[r].name /\ client'[r].target = client[r].target
        /\ \A q \in Runs \ {r} : client'[q] = client[q]
    BY <1>1, <2>1 DEF TypeOK, Merge, NoClient
  <2>3. Asked' = Asked
    BY <1>1, <2>1, <2>2 DEF Asked
  <2>4. Asked[r] # Request(None, None)
    BY <1>1, <2>1 DEF Asked, Request, TypeOK
  <2>5. Readers' = Readers /\ Writers' = Writers /\ r \notin Readers
    BY <1>1, <2>1 DEF Readers, HasRead, Writers
  <2>6. Store!Agree(r)
    BY <2>1, <2>3, <2>4, <2>5, FileStays DEF Store!Agree, Readers, Writers
  <2> QED
    BY <2>6 DEF Store!StoreNext
<1>4. CASE \/ \E o \in BOOLEAN : RunMenu(r, o)
           \/ Dial(r)
           \/ MustNotOverwrite(r) /\ ~Exit(r)
  <2>1. /\ \A q \in Runs : pc[q] \in {"idle", "select"} <=> pc'[q] \in {"idle", "select"}
        /\ \A q \in Runs : HasRead(q) <=> HasRead(q)'
        /\ \A q \in Runs : pc[q] = "truncated" <=> pc'[q] = "truncated"
        /\ \A q \in Runs : pc[q] \notin {"idle", "select"} => client'[q] = client[q]
        /\ UNCHANGED <<consent, settled, missed, raced>>
    BY <1>1, <1>4 DEF RunMenu, Dial, MustNotOverwrite, HasRead, TypeOK
  <2>2. Asked' = Asked
    BY <2>1 DEF Asked, Request, Throughout
  <2>3. Readers' = Readers /\ Writers' = Writers
    BY <2>1 DEF Readers, Writers
  <2>4. Current' = Current
    BY <2>1, CurrentIsSettled
  <2>5. Entries(Current)' = Entries(Current)
    BY <2>4 DEF Entries
  <2> QED
    BY <2>1, <2>2, <2>3, <2>5 DEF Store!storeVars, Readers, Writers
<1>5. CASE Load(r)
  <2>1. /\ pc[r] = "generate" /\ pc' = [pc EXCEPT ![r] = "dial"]
        /\ missed' = [missed EXCEPT ![r] = IF Truncated THEN Names ELSE {}]
        /\ UNCHANGED <<client, consent, settled, raced>>
    BY <1>5 DEF Load
  <2>2. Asked' = Asked /\ Asked[r] # Request(None, None)
    BY <1>1, <2>1 DEF Asked, Request, TypeOK
  <2>3. /\ Readers' = Readers \cup {r} /\ r \notin Readers /\ Writers' = Writers
        /\ Truncated <=> Writers # {}
    BY <1>1, <2>1 DEF Readers, HasRead, Writers, Truncated
  <2>4. missed' = [missed EXCEPT ![r] = IF Writers = {} THEN {} ELSE Names]
    BY <2>1, <2>3
  <2>5. Store!Read(r)
    BY <2>1, <2>2, <2>3, <2>4, FileStays DEF Store!Read, Readers, Writers
  <2> QED
    BY <2>5 DEF Store!StoreNext
<1>6. CASE Truncate(r)
  <2>1. /\ pc[r] = "store" /\ pc' = [pc EXCEPT ![r] = "truncated"]
        /\ UNCHANGED <<client, consent, settled, missed>>
        /\ raced' = (raced \/ Truncated)
    BY <1>6 DEF Truncate
  <2>2. Asked' = Asked
    BY <1>1, <2>1 DEF Asked
  <2>3. /\ Readers' = Readers /\ r \in Readers \ Writers
        /\ Writers' = Writers \cup {r} /\ (Truncated <=> Writers # {})
    BY <1>1, <2>1 DEF Readers, HasRead, Writers, Truncated
  <2>4. raced' = (raced \/ Writers # {})
    BY <2>1, <2>3
  <2>5. Store!Begin(r)
    BY <2>1, <2>2, <2>3, <2>4, FileStays DEF Store!Begin, Readers, Writers
  <2> QED
    BY <2>5 DEF Store!StoreNext
<1>7. CASE LoadFails(r) \/ GiveUp(r) \/ (MustNotOverwrite(r) /\ Exit(r))
  <2>1. /\ pc[r] # "truncated" /\ UNCHANGED <<settled, raced>>
        /\ End(r) /\ missed' = [missed EXCEPT ![r] = {}]
    BY <1>7 DEF LoadFails, GiveUp, MustNotOverwrite, Exit
  <2>2. r \notin Writers
    BY <2>1 DEF Writers
  <2>3. Store!Leave(r)
    BY <2>1, <2>2, EndIsLeft, FileStays DEF Store!Leave, Writers
  <2> QED
    BY <2>3 DEF Store!StoreNext
<1>8. CASE WriteFails(r) \/ Killed(r)
  <2>1. /\ pc[r] = "truncated" /\ raced' = TRUE
        /\ End(r) /\ missed' = [missed EXCEPT ![r] = {}]
    BY <1>8 DEF WriteFails, Killed, Exit
  <2>2. r \in Writers
    BY <2>1 DEF Writers
  <2>3. Store!CutOff(r)
    BY <2>1, <2>2, EndIsLeft DEF Store!CutOff, Writers
  <2> QED
    BY <2>3 DEF Store!StoreNext
<1>9. CASE WriteFile(r)
  <2> DEFINE n == client[r].name
             t == client[r].target
             old == Entries(Current)
             new == [old EXCEPT ![n] = Throughout(t)]
  <2>1. /\ pc[r] = "truncated" /\ n \in Names /\ t \in Targets
        /\ End(r) /\ UNCHANGED raced
        /\ missed' = [q \in Runs |->
                        IF q = r THEN {}
                        ELSE IF HasRead(q) THEN missed[q] \cup missed[r] \cup {n}
                                           ELSE missed[q]]
    BY <1>1, <1>9 DEF TypeOK, WriteFile, GenerateClient
  <2>2. /\ Asked[r] = Request(n, t)
        /\ Asked[r].name = n /\ Asked[r].entry = Throughout(t)
    <3>1. Asked[r] = Request(n, t)
      BY <2>1 DEF Asked
    <3> QED
      BY <3>1 DEF Request
  <2>3. r \in Writers
    BY <2>1 DEF Writers
  <2>4. missed' = [q \in Runs |->
                    IF q = r THEN {}
                    ELSE IF q \in Readers THEN missed[q] \cup missed[r] \cup {n}
                                          ELSE missed[q]]
    BY <2>1 DEF Readers
  <2>5. ~raced => consent[r] \/ n \in missed[r] \/ old[n] = Throughout(None)
    <3>1. settled \in Config /\ (~raced => MayWrite(r) /\ Current = settled)
      BY <1>1, CurrentIsSettled DEF KeptInv, TypeOK
    <3> QED
      BY <2>1, <3>1, NotFoundIsAbsent DEF MayWrite, HasRead
  <2>6. ASSUME ~raced', NEW m \in Names \ (missed[r] \ {n})
        PROVE  Entries(Current)'[m] = new[m]
    <3>1. /\ Current = settled /\ Current' = settled'
          /\ \A k \in Keys : k[2] = n => settled'[k] = t
          /\ Agree(settled', settled, missed[r] \cup {n})
      BY <1>9, <2>1, <2>6, CurrentIsSettled, WriteKeeps
    <3>2. Entries(Current)' = Entries(settled')
      BY <3>1 DEF Entries
    <3>3. new[m] = IF m = n THEN Throughout(t) ELSE Entries(settled)[m]
      BY <3>1 DEF Entries
    <3>4. CASE m = n
      BY <2>1, <3>1, <3>2, <3>3, <3>4, EntrySet
    <3>5. CASE m # n
      BY <2>6, <3>1, <3>2, <3>3, <3>5, EntriesAgree
    <3> QED
      BY <3>4, <3>5
  <2> HIDE DEF n, t
  <2>7. Store!Set(r)
    BY <2>1, <2>2, <2>3, <2>4, <2>5, <2>6, EndIsLeft
    DEF Store!Set, Store!BecomesBut, Readers, Writers
  <2> QED
    BY <2>7 DEF Store!StoreNext
<1> QED
  BY <1>2, <1>3, <1>4, <1>5, <1>6, <1>7, <1>8, <1>9 DEF RunStep, Store!StoreNext

(* KubeConfig implements ConfigStore: unless writes overlap or are cut off, *)
(* a run sets the whole entry of the one cluster it was asked for, over     *)
(* nothing or with its user's consent about that cluster, in one step for   *)
(* the clusters no other run has changed since it read, where no other was  *)
(* writing then, for any number of runs (generate.go:72-176,                *)
(* menu.go:60-111).                                                         *)
THEOREM ImplementsStore == Spec => AtomicUnlessMissed
<1>1. Init => Store!StoreInit
  <2> SUFFICES ASSUME Init PROVE Store!StoreInit
    OBVIOUS
  <2>1. /\ Asked = [r \in Runs |-> Request(None, None)]
        /\ Readers = {} /\ Writers = {}
    BY DEF Init, Asked, Readers, HasRead, Writers
  <2> QED
    BY <2>1 DEF Init, Store!StoreInit, Readers, Writers
<1>2. IInv /\ IInv' /\ [Next]_vars => [Store!StoreNext]_(Store!storeVars)
  <2> SUFFICES ASSUME IInv, IInv', [Next]_vars
               PROVE  Store!StoreNext \/ UNCHANGED Store!storeVars
    OBVIOUS
  <2>1. CASE \E r \in Runs : RunStep(r)
    BY <2>1, RunImplements
  <2>2. CASE UNCHANGED vars
    <3>1. /\ Current' = Current /\ Asked' = Asked
          /\ Readers' = Readers /\ Writers' = Writers
      BY <2>2 DEF vars, fileVars, history, Current, Truncated, Asked, Request,
                  Throughout, Readers, HasRead, Writers
    <3>2. Entries(Current)' = Entries(Current)
      BY <3>1 DEF Entries
    <3> QED
      BY <2>2, <3>1, <3>2 DEF vars, history, Store!storeVars, Readers, Writers
  <2> QED
    BY <2>1, <2>2 DEF Next
<1> QED
  BY <1>1, <1>2, Invariant, PTL DEF Spec, AtomicUnlessMissed, Store!StoreSpec
==============================================================================
