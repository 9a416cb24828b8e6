--------------------------- MODULE TokenCacheProofs ---------------------------
(***************************************************************************)
(* Proofs about TokenCache, for any number of concurrent logins, clusters, *)
(* resources and lifetimes: types, that no expired token is handed out,    *)
(* what it takes for a token to get lost, and that a login is atomic for   *)
(* the clusters no other has changed since it read, as TokenStore promises.*)
(***************************************************************************)
EXTENDS TokenCache, TLAPS

(* Every token of a map is under the name of its cluster. *)
Named(m) == \A c \in DOMAIN m : m[c].name = c

Types ==
  /\ TypeOK
  /\ cachedTokens = [p \in Processes |-> cachedTokens[p]]

MapsNamed ==
  /\ Named(fileTokens)
  /\ \A p \in Processes : Named(cachedTokens[p])

(* A login that has its token has it for its cluster, and for the time it   *)
(* still takes.                                                             *)
TokenLasts(p) ==
  HasToken(p) =>
    /\ token[p] \in TokenType
    /\ token[p].name = clusterName[p]
    /\ token[p].exp >= since[p] + MaxLatency
    /\ now <= since[p] + MaxLatency

HandedInv == MapsNamed /\ \A p \in Processes : TokenLasts(p)

(* Two maps agree on every cluster but those of C. *)
Agree(m, n, C) ==
  \A c \in Clusters \ C :
    /\ c \in DOMAIN m <=> c \in DOMAIN n
    /\ c \in DOMAIN n => m[c] = n[c]

(* What a login has read is what is stored, but for the clusters it has     *)
(* missed; a new token for its own cluster has been entered.                *)
HoldsCopy(p) ==
  /\ pc[p] = "loaded" => Agree(cachedTokens[p], fileTokens, missed[p])
  /\ pc[p] \in {"store", "truncated"} =>
       /\ clusterName[p] \in DOMAIN cachedTokens[p]
       /\ cachedTokens[p][clusterName[p]] = token[p]
       /\ Agree(cachedTokens[p], fileTokens, missed[p] \cup {clusterName[p]})

(* While p writes, the file is empty and nobody else writes. *)
WritesAlone(p) ==
  pc[p] = "truncated" =>
    fileState = "empty" /\ \A q \in Processes \ {p} : pc[q] # "truncated"

(* The file holds the tokens last stored, but for those undone. *)
KeptInv ==
  ~raced =>
    /\ fileState \in {"absent", "whole"} \/ \E p \in Processes : pc[p] = "truncated"
    /\ Agree(fileTokens, obtained, undone)
    /\ \A p \in Processes : HoldsCopy(p) /\ WritesAlone(p)
------------------------------------------------------------------------------
(* A map stays one when a token is entered. *)
LEMMA EnteredIsMap ==
  ASSUME NEW m, IsMap(m), NEW c \in Clusters, NEW t \in TokenType
  PROVE  IsMap([x \in DOMAIN m \cup {c} |-> IF x = c THEN t ELSE m[x]])
BY DEF IsMap

(* The token of a new request has its type. *)
LEMMA NewTokenType ==
  ASSUME TypeOK, NEW p \in Processes, NEW l \in Lifetimes
  PROVE  [name |-> clusterName[p], resource |-> resource[p], exp |-> now + l]
           \in TokenType
BY TimesAssumption DEF TypeOK, TokenType

(* The end of a process keeps the types. *)
LEMMA ExitTypes ==
  ASSUME Types, NEW p \in Processes, Exit(p), UNCHANGED now,
         fileState' \in {"absent", "empty", "whole", "torn"},
         IsMap(fileTokens'), IsMap(obtained'), UNCHANGED undone,
         raced' \in BOOLEAN
  PROVE  Types'
<1> USE DEF Types, TypeOK, Exit, Go
<1>1. IsMap(NoTokens)
  BY DEF IsMap, NoTokens
<1>2. \A q \in Processes : IsMap(cachedTokens'[q])
  BY <1>1
<1>3. cachedTokens' = [q \in Processes |-> cachedTokens'[q]]
  OBVIOUS
<1> QED
  BY <1>2, <1>3

(* Every step keeps the types (TypeOK is inductive with the domain of the   *)
(* maps in memory).                                                         *)
LEMMA TypesStep ==
  ASSUME Types, HandedInv, [Next]_vars
  PROVE  Types'
<1> USE DEF Types, Go, fileVars, history
<1>0. IsMap(NoTokens)
  BY DEF IsMap, NoTokens
<1>1. ASSUME NEW p \in Processes, NEW c \in Clusters, NEW r \in Resources,
             Start(p, c, r)
      PROVE  Types'
  BY <1>1 DEF TypeOK, Start
<1>2. ASSUME NEW p \in Processes, Load(p)
      PROVE  Types'
  BY <1>2 DEF TypeOK, Load
<1>3. ASSUME NEW p \in Processes,
             ReadFails(p) \/ LoadFails(p) \/ GetAccessTokenFails(p)
               \/ OpenFails(p) \/ Output(p) \/ Killed(p)
      PROVE  Types'
  BY <1>3, ExitTypes
     DEF TypeOK, ReadFails, LoadFails, GetAccessTokenFails, OpenFails, Output,
         Killed
<1>4. ASSUME NEW p \in Processes, UseCachedToken(p)
      PROVE  Types'
  <2>1. cachedTokens[p][clusterName[p]] \in TokenType
    BY <1>4 DEF TypeOK, UseCachedToken, HasValidToken, IsMap
  <2> QED
    BY <1>4, <2>1 DEF TypeOK, UseCachedToken
<1>5. ASSUME NEW p \in Processes, NEW l \in Lifetimes, GetAccessToken(p, l)
      PROVE  Types'
  <2> DEFINE t == [name |-> clusterName[p], resource |-> resource[p],
                   exp |-> now + l]
             m == [c \in DOMAIN cachedTokens[p] \cup {clusterName[p]} |->
                     IF c = clusterName[p] THEN t ELSE cachedTokens[p][c]]
  <2>1. t \in TokenType /\ t.name = clusterName[p]
    BY NewTokenType
  <2> HIDE DEF t
  <2>2. IsMap(m)
    <3>1. IsMap(cachedTokens[p]) /\ clusterName[p] \in Clusters
      BY DEF TypeOK
    <3> QED
      BY <2>1, <3>1, EnteredIsMap
  <2>3. cachedTokens' = [cachedTokens EXCEPT ![p] = m] /\ token'[p] = t
    BY <1>5 DEF GetAccessToken, TypeOK, t
  <2> HIDE DEF m
  <2>4. /\ \A q \in Processes : IsMap(cachedTokens'[q])
        /\ cachedTokens' = [q \in Processes |-> cachedTokens'[q]]
    BY <2>2, <2>3 DEF TypeOK
  <2>5. token' \in [Processes -> TokenType \cup {NoToken}]
    BY <1>5, <2>1 DEF TypeOK, GetAccessToken, t
  <2> QED
    BY <1>5, <2>4, <2>5 DEF TypeOK, GetAccessToken
<1>6. ASSUME NEW p \in Processes, Truncate(p)
      PROVE  Types'
  BY <1>6, <1>0 DEF TypeOK, Truncate
<1>7. ASSUME NEW p \in Processes, WriteFile(p)
      PROVE  Types'
  <2>1. IsMap(fileTokens')
    BY <1>7, <1>0 DEF TypeOK, WriteFile
  <2>2. token[p] \in TokenType
    BY <1>7 DEF WriteFile, HandedInv, TokenLasts, HasToken
  <2>3. IsMap(obtained')
    <3>1. IsMap(obtained) /\ clusterName[p] \in Clusters
      BY DEF TypeOK
    <3> QED
      BY <1>7, <2>2, <3>1, EnteredIsMap DEF WriteFile
  <2> QED
    BY <1>7, <2>1, <2>3 DEF TypeOK, WriteFile
<1>8. ASSUME NEW p \in Processes, WriteFails(p)
      PROVE  Types'
  <2>1. IsMap(fileTokens') /\ fileState' \in {"absent", "empty", "whole", "torn"}
    BY <1>8, <1>0 DEF TypeOK, WriteFails
  <2> QED
    BY <1>8, <2>1, ExitTypes DEF TypeOK, WriteFails
<1>9. CASE ClockAdvances
  BY <1>9 DEF TypeOK, ClockAdvances
<1>10. CASE UNCHANGED vars
  BY <1>10 DEF TypeOK, vars
<1> QED
  BY <1>1, <1>2, <1>3, <1>4, <1>5, <1>6, <1>7, <1>8, <1>9, <1>10
     DEF Next, LoginStep
------------------------------------------------------------------------------
(* A login that ends, or does not touch tokens, keeps the promise of the    *)
(* others.                                                                  *)
LEMMA OthersLast ==
  ASSUME Types, HandedInv, NEW p \in Processes, UNCHANGED now,
         \A q \in Processes \ {p} :
           /\ pc'[q] = pc[q] /\ token'[q] = token[q] /\ since'[q] = since[q]
           /\ clusterName'[q] = clusterName[q]
           /\ cachedTokens'[q] = cachedTokens[q],
         Named(fileTokens'), Named(cachedTokens'[p]), TokenLasts(p)'
  PROVE  HandedInv'
BY DEF HandedInv, MapsNamed, Named, TokenLasts, HasToken

(* Every step keeps a token in hand valid for as long as a login takes.     *)
LEMMA HandedStep ==
  ASSUME Types, HandedInv, [Next]_vars
  PROVE  HandedInv'
<1> USE DEF Types, Go, fileVars, history
<1>0. Named(NoTokens)
  BY DEF Named, NoTokens
<1>1. ASSUME NEW p \in Processes, LoginStep(p)
      PROVE  HandedInv'
  <2> SUFFICES /\ UNCHANGED now
               /\ \A q \in Processes \ {p} :
                    /\ pc'[q] = pc[q] /\ token'[q] = token[q]
                    /\ since'[q] = since[q] /\ clusterName'[q] = clusterName[q]
                    /\ cachedTokens'[q] = cachedTokens[q]
               /\ Named(fileTokens') /\ Named(cachedTokens'[p])
               /\ TokenLasts(p)'
    BY OthersLast
  <2>0. Named(fileTokens) /\ Named(cachedTokens[p]) /\ TokenLasts(p)
    BY DEF HandedInv, MapsNamed
  <2>1. ASSUME NEW c \in Clusters, NEW r \in Resources, Start(p, c, r)
        PROVE  /\ UNCHANGED now
               /\ \A q \in Processes \ {p} :
                    /\ pc'[q] = pc[q] /\ token'[q] = token[q]
                    /\ since'[q] = since[q] /\ clusterName'[q] = clusterName[q]
                    /\ cachedTokens'[q] = cachedTokens[q]
               /\ Named(fileTokens') /\ Named(cachedTokens'[p])
               /\ TokenLasts(p)'
    BY <2>0, <2>1 DEF Start, TypeOK, TokenLasts, HasToken
  <2>2. CASE Load(p)
    BY <2>0, <2>2 DEF Load, TypeOK, TokenLasts, HasToken
  <2>3. CASE \/ ReadFails(p) \/ LoadFails(p) \/ GetAccessTokenFails(p)
             \/ OpenFails(p) \/ Output(p) \/ Killed(p)
    BY <2>0, <2>3, <1>0
       DEF ReadFails, LoadFails, GetAccessTokenFails, OpenFails, Output, Killed, Exit,
           TypeOK, TokenLasts, HasToken
  <2>4. CASE UseCachedToken(p)
    <3> DEFINE t == cachedTokens[p][clusterName[p]]
    <3>1. /\ t \in TokenType /\ t.name = clusterName[p]
          /\ ~(t.exp - ExpiryDelta < now)
      BY <2>0, <2>4
         DEF UseCachedToken, HasValidToken, Valid, TypeOK, IsMap, Named
    <3>2. t.exp >= now + MaxLatency
      BY <3>1, TimesAssumption DEF TypeOK, TokenType
    <3> QED
      BY <2>0, <2>4, <3>1, <3>2, TimesAssumption
         DEF UseCachedToken, TypeOK, TokenLasts, HasToken
  <2>5. ASSUME NEW l \in Lifetimes, GetAccessToken(p, l)
        PROVE  /\ UNCHANGED now
               /\ \A q \in Processes \ {p} :
                    /\ pc'[q] = pc[q] /\ token'[q] = token[q]
                    /\ since'[q] = since[q] /\ clusterName'[q] = clusterName[q]
                    /\ cachedTokens'[q] = cachedTokens[q]
               /\ Named(fileTokens') /\ Named(cachedTokens'[p])
               /\ TokenLasts(p)'
    <3> DEFINE t == [name |-> clusterName[p], resource |-> resource[p],
                     exp |-> now + l]
    <3>1. t \in TokenType /\ t.name = clusterName[p]
      BY NewTokenType
    <3>2. t.exp = now + l /\ l >= MaxLatency
      BY TimesAssumption
    <3> HIDE DEF t
    <3>3. /\ token'[p] = t /\ since'[p] = now
          /\ cachedTokens'[p] =
               [c \in DOMAIN cachedTokens[p] \cup {t.name} |->
                  IF c = t.name THEN t ELSE cachedTokens[p][c]]
      BY <2>5 DEF GetAccessToken, TypeOK, t
    <3>4. Named(cachedTokens'[p])
      BY <2>0, <3>3 DEF Named
    <3>5. TokenLasts(p)'
      BY <2>5, <3>1, <3>2, <3>3, TimesAssumption
         DEF GetAccessToken, TypeOK, TokenLasts, HasToken
    <3> QED
      BY <2>0, <2>5, <3>4, <3>5 DEF GetAccessToken, TypeOK
  <2>6. CASE Truncate(p)
    BY <2>0, <2>6, <1>0 DEF Truncate, TypeOK, TokenLasts, HasToken
  <2>7. CASE WriteFile(p)
    BY <2>0, <2>7, <1>0 DEF WriteFile, TypeOK, TokenLasts, HasToken
  <2>8. CASE WriteFails(p)
    BY <2>0, <2>8, <1>0 DEF WriteFails, Exit, TypeOK, TokenLasts, HasToken
  <2> QED
    BY <1>1, <2>1, <2>2, <2>3, <2>4, <2>5, <2>6, <2>7, <2>8 DEF LoginStep
<1>2. CASE ClockAdvances
  BY <1>2, TimesAssumption
     DEF ClockAdvances, TypeOK, HandedInv, MapsNamed, Named, TokenLasts,
         HasToken
<1>3. CASE UNCHANGED vars
  BY <1>3 DEF vars, HandedInv, MapsNamed, Named, TokenLasts, HasToken
<1> QED
  BY <1>1, <1>2, <1>3 DEF Next
------------------------------------------------------------------------------
(* A step of p that leaves the file and the copies of the others alone      *)
(* loses nothing.                                                           *)
LEMMA ReaderKeeps ==
  ASSUME Types, KeptInv, NEW p \in Processes,
         UNCHANGED <<fileVars, obtained, undone, raced>>,
         pc[p] # "truncated", pc'[p] # "truncated",
         \A q \in Processes \ {p} :
           /\ pc'[q] = pc[q] /\ token'[q] = token[q]
           /\ missed'[q] = missed[q] /\ clusterName'[q] = clusterName[q]
           /\ cachedTokens'[q] = cachedTokens[q],
         ~raced => HoldsCopy(p)'
  PROVE  KeptInv'
<1> SUFFICES ASSUME ~raced
             PROVE  /\ \/ fileState' \in {"absent", "whole"}
                       \/ \E q \in Processes : pc'[q] = "truncated"
                    /\ Agree(fileTokens', obtained', undone')
                    /\ \A q \in Processes : HoldsCopy(q)' /\ WritesAlone(q)'
  BY DEF KeptInv
<1>1. \A q \in Processes : HoldsCopy(q) /\ WritesAlone(q)
  BY DEF KeptInv
<1>2. \/ fileState' \in {"absent", "whole"}
      \/ \E q \in Processes : pc'[q] = "truncated"
  BY DEF KeptInv, fileVars
<1>3. Agree(fileTokens', obtained', undone')
  BY DEF KeptInv, fileVars
<1>4. ASSUME NEW q \in Processes
      PROVE  HoldsCopy(q)' /\ WritesAlone(q)'
  <2>1. CASE q = p
    BY <2>1 DEF WritesAlone
  <2>2. CASE q # p
    <3>1. HoldsCopy(q)'
      BY <1>1, <2>2 DEF HoldsCopy, fileVars
    <3>2. WritesAlone(q)'
      BY <1>1, <2>2 DEF WritesAlone, fileVars
    <3> QED
      BY <3>1, <3>2
  <2> QED
    BY <2>1, <2>2
<1> QED
  BY <1>2, <1>3, <1>4

(* Where p writes back a copy that agrees with the file but for what it has *)
(* missed and its own token, every other copy agrees with the new file but  *)
(* for what its login has now missed.                                       *)
LEMMA CopiesAgree ==
  ASSUME NEW copy, NEW other, NEW old, NEW C, NEW D, NEW own,
         Agree(copy, old, C \cup {own}), Agree(other, old, D)
  PROVE  Agree(other, copy, D \cup C \cup {own})
BY DEF Agree

(* While no write has overlapped or been cut off, every step keeps what     *)
(* nobody has undone in the file (KeptInv is inductive).                    *)
LEMMA KeptStep ==
  ASSUME Types, KeptInv, [Next]_vars
  PROVE  KeptInv'
<1> USE DEF Types, Go, fileVars, history
<1>1. ASSUME NEW p \in Processes, NEW c \in Clusters, NEW r \in Resources,
             Start(p, c, r)
      PROVE  KeptInv'
  BY <1>1, ReaderKeeps DEF Start, TypeOK, HoldsCopy
<1>2. ASSUME NEW p \in Processes, Load(p)
      PROVE  KeptInv'
  <2>1. HoldsCopy(p)'
    BY <1>2 DEF Load, HoldsCopy, Agree, TypeOK
  <2> QED
    BY <1>2, <2>1, ReaderKeeps DEF Load, TypeOK
<1>3. ASSUME NEW p \in Processes, pc[p] # "truncated",
             ReadFails(p) \/ LoadFails(p) \/ GetAccessTokenFails(p)
               \/ OpenFails(p) \/ Output(p) \/ Killed(p)
      PROVE  KeptInv'
  <2>1. Exit(p) /\ UNCHANGED <<fileVars, obtained, undone, raced>>
    BY <1>3
       DEF ReadFails, LoadFails, GetAccessTokenFails, OpenFails, Output, Killed,
           TypeOK
  <2> QED
    BY <1>3, <2>1, ReaderKeeps DEF Exit, TypeOK, HoldsCopy
<1>4. ASSUME NEW p \in Processes, UseCachedToken(p)
      PROVE  KeptInv'
  BY <1>4, ReaderKeeps DEF UseCachedToken, TypeOK, HoldsCopy
<1>5. ASSUME NEW p \in Processes, NEW l \in Lifetimes, GetAccessToken(p, l)
      PROVE  KeptInv'
  <2> DEFINE t == [name |-> clusterName[p], resource |-> resource[p],
                   exp |-> now + l]
  <2>1. t.name = clusterName[p]
    OBVIOUS
  <2> HIDE DEF t
  <2>2. /\ pc[p] = "loaded" /\ pc' = [pc EXCEPT ![p] = "store"]
        /\ token' = [token EXCEPT ![p] = t]
        /\ cachedTokens' = [cachedTokens EXCEPT ![p] =
                              [c \in DOMAIN @ \cup {clusterName[p]} |->
                                 IF c = clusterName[p] THEN t ELSE @[c]]]
        /\ UNCHANGED <<fileVars, clusterName, history>>
    BY <1>5, <2>1 DEF GetAccessToken, t
  <2>3. ~raced => Agree(cachedTokens[p], fileTokens, missed[p])
    BY <2>2 DEF KeptInv, HoldsCopy
  <2>4. ~raced => HoldsCopy(p)'
    BY <2>2, <2>3 DEF HoldsCopy, Agree, TypeOK
  <2> QED
    BY <2>2, <2>4, ReaderKeeps DEF TypeOK
<1>6. ASSUME NEW p \in Processes, Truncate(p)
      PROVE  KeptInv'
  <2> SUFFICES ASSUME ~raced'
               PROVE  /\ \E q \in Processes : pc'[q] = "truncated"
                      /\ Agree(fileTokens', obtained', undone')
                      /\ \A q \in Processes : HoldsCopy(q)' /\ WritesAlone(q)'
    BY DEF KeptInv
  <2>1. /\ ~raced /\ pc[p] = "store" /\ pc' = [pc EXCEPT ![p] = "truncated"]
        /\ \A q \in Processes : pc[q] # "truncated"
        /\ fileState' = "empty"
        /\ UNCHANGED <<fileTokens, cachedTokens, clusterName, token, obtained,
                       missed, undone>>
    BY <1>6 DEF Truncate, TypeOK
  <2>2. Agree(fileTokens', obtained', undone')
    BY <2>1 DEF KeptInv
  <2>3. \A q \in Processes : HoldsCopy(q)'
    BY <2>1 DEF KeptInv, HoldsCopy, TypeOK
  <2>4. pc'[p] = "truncated" /\ \A q \in Processes : WritesAlone(q)'
    BY <2>1 DEF WritesAlone, TypeOK
  <2> QED
    BY <2>2, <2>3, <2>4
<1>7. ASSUME NEW p \in Processes, WriteFile(p)
      PROVE  KeptInv'
  <2> SUFFICES ASSUME ~raced
               PROVE  /\ fileState' = "whole"
                      /\ Agree(fileTokens', obtained', undone')
                      /\ \A q \in Processes : HoldsCopy(q)' /\ WritesAlone(q)'
    BY <1>7 DEF KeptInv, WriteFile
  <2> DEFINE own == clusterName[p]
  <2>1. /\ pc[p] = "truncated" /\ pc' = [pc EXCEPT ![p] = "output"]
        /\ UNCHANGED <<cachedTokens, clusterName, token>>
        /\ obtained' = [c \in DOMAIN obtained \cup {own} |->
                          IF c = own THEN token[p] ELSE obtained[c]]
        /\ undone' = (undone \cup missed[p]) \ {own}
        /\ \A q \in Processes \ {p} :
             pc[q] \in {"loaded", "store", "truncated"} =>
               missed'[q] = missed[q] \cup missed[p] \cup {own}
    BY <1>7 DEF WriteFile, HasRead
  <2>2. /\ own \in DOMAIN cachedTokens[p] /\ cachedTokens[p][own] = token[p]
        /\ Agree(cachedTokens[p], fileTokens, missed[p] \cup {own})
        /\ Agree(fileTokens, obtained, undone)
        /\ fileState = "empty" /\ \A q \in Processes \ {p} : pc[q] # "truncated"
    BY <2>1 DEF KeptInv, HoldsCopy, WritesAlone
  <2>3. fileState' = "whole" /\ fileTokens' = cachedTokens[p]
    BY <1>7, <2>2 DEF WriteFile
  <2>4. Agree(fileTokens', obtained', undone')
    BY <2>1, <2>2, <2>3 DEF Agree
  <2>5. ASSUME NEW q \in Processes \ {p}
        PROVE  HoldsCopy(q)'
    <3>1. CASE pc[q] = "loaded"
      <4>1. Agree(cachedTokens[q], fileTokens, missed[q])
        BY <3>1 DEF KeptInv, HoldsCopy
      <4>2. Agree(cachedTokens[q], cachedTokens[p], missed[q] \cup missed[p] \cup {own})
        BY <2>2, <4>1, CopiesAgree
      <4> QED
        BY <2>1, <2>3, <3>1, <4>2 DEF HoldsCopy, TypeOK
    <3>2. CASE pc[q] = "store"
      <4>1. /\ clusterName[q] \in DOMAIN cachedTokens[q]
            /\ cachedTokens[q][clusterName[q]] = token[q]
            /\ Agree(cachedTokens[q], fileTokens, missed[q] \cup {clusterName[q]})
        BY <3>2 DEF KeptInv, HoldsCopy
      <4>2. Agree(cachedTokens[q], cachedTokens[p],
                  missed[q] \cup {clusterName[q]} \cup missed[p] \cup {own})
        BY <2>2, <4>1, CopiesAgree
      <4>3. missed[q] \cup {clusterName[q]} \cup missed[p] \cup {own}
              = missed'[q] \cup {clusterName[q]}
        BY <2>1, <3>2
      <4> QED
        BY <2>1, <2>3, <3>2, <4>1, <4>2, <4>3 DEF HoldsCopy, TypeOK
    <3>3. CASE pc[q] \notin {"loaded", "store"}
      BY <2>1, <2>2, <3>3 DEF HoldsCopy, TypeOK
    <3> QED
      BY <3>1, <3>2, <3>3
  <2>6. HoldsCopy(p)' /\ \A q \in Processes : WritesAlone(q)'
    BY <2>1, <2>2 DEF HoldsCopy, WritesAlone, TypeOK
  <2> QED
    BY <2>3, <2>4, <2>5, <2>6
<1>8. ASSUME NEW p \in Processes,
             WriteFails(p) \/ (Killed(p) /\ pc[p] = "truncated")
      PROVE  KeptInv'
  BY <1>8 DEF WriteFails, Killed, KeptInv
<1>9. CASE ClockAdvances
  BY <1>9 DEF ClockAdvances, KeptInv, HoldsCopy, WritesAlone
<1>10. CASE UNCHANGED vars
  BY <1>10 DEF vars, KeptInv, HoldsCopy, WritesAlone
<1>11. ASSUME NEW p \in Processes, pc[p] = "truncated",
              ReadFails(p) \/ LoadFails(p) \/ GetAccessTokenFails(p)
                \/ OpenFails(p) \/ Output(p)
       PROVE  FALSE
  BY <1>11 DEF ReadFails, LoadFails, GetAccessTokenFails, OpenFails, Output
<1> QED
  BY <1>1, <1>2, <1>3, <1>4, <1>5, <1>6, <1>7, <1>8, <1>9, <1>10, <1>11
     DEF Next, LoginStep
------------------------------------------------------------------------------
(* The inductive invariant: types, tokens in hand that last, and what a     *)
(* login has in memory compared with what is stored.                        *)
THEOREM Invariant == Spec => [](Types /\ HandedInv /\ KeptInv)
<1>1. Init => Types /\ HandedInv /\ KeptInv
  <2> SUFFICES ASSUME Init PROVE Types /\ HandedInv /\ KeptInv
    OBVIOUS
  <2>1. IsMap(NoTokens) /\ Named(NoTokens)
    BY DEF IsMap, Named, NoTokens
  <2>2. ASSUME NEW m \in EarlierTokens
        PROVE  IsMap(m) /\ Named(m)
    <3> DEFINE E == [name : Clusters, resource : Resources, exp : {0} \cup Lifetimes]
    <3>1. E \subseteq TokenType
      <4>1. {0} \cup Lifetimes \subseteq Int
        BY TimesAssumption
      <4> QED
        BY <4>1 DEF TokenType
    <3>2. /\ \E C \in SUBSET Clusters : m \in [C -> E]
          /\ \A c \in DOMAIN m : m[c].name = c
      BY <2>2 DEF EarlierTokens
    <3> HIDE DEF E
    <3> QED
      BY <3>1, <3>2 DEF IsMap, Named
  <2>3. IsMap(fileTokens) /\ Named(fileTokens)
    BY <2>1, <2>2 DEF Init
  <2>4. Types
    BY <2>1, <2>3 DEF Init, Types, TypeOK
  <2>5. HandedInv
    BY <2>1, <2>3 DEF Init, HandedInv, MapsNamed, TokenLasts, HasToken
  <2>6. KeptInv
    BY DEF Init, KeptInv, Agree, HoldsCopy, WritesAlone
  <2> QED
    BY <2>4, <2>5, <2>6
<1>2. Types /\ HandedInv /\ KeptInv /\ [Next]_vars
        => (Types /\ HandedInv /\ KeptInv)'
  BY TypesStep, HandedStep, KeptStep
<1> QED
  BY <1>1, <1>2, PTL DEF Spec

(* The variables of the token cache keep their types (token.go:25-40).      *)
THEOREM TypeCorrect == Spec => []TypeOK
<1>1. Types => TypeOK
  BY DEF Types
<1> QED
  BY <1>1, Invariant, PTL

(* No login hands out a token that has expired, or one of another cluster,  *)
(* however many logins share the file (token.go:43-46, token.go:103-141).   *)
THEOREM HandedOutIsUnexpired == Spec => []HandedOutUnexpired
<1>1. Types /\ HandedInv => HandedOutUnexpired
  <2> SUFFICES ASSUME Types, HandedInv, NEW p \in Processes, pc[p] = "output"
               PROVE  token[p].name = clusterName[p] /\ now <= token[p].exp
    BY DEF HandedOutUnexpired
  <2>1. TokenLasts(p) /\ HasToken(p)
    BY DEF HandedInv, HasToken
  <2> QED
    BY <2>1, TimesAssumption DEF TokenLasts, TokenType, Types, TypeOK
<1> QED
  BY <1>1, Invariant, PTL

(* A stored token is lost only by overlapping or interrupted writes, or by  *)
(* a login that had read the file before the token was stored and then      *)
(* wrote its own copy back, for any number of logins and clusters           *)
(* (token.go:81-94, token.go:143-162).                                      *)
THEOREM TokensAreKept == Spec => []TokensKept
<1>1. Types /\ KeptInv => TokensKept
  BY DEF Types, TypeOK, IsMap, KeptInv, TokensKept, Agree
<1> QED
  BY <1>1, Invariant, PTL

(* A login that finds a file that does not parse does so during a write, or *)
(* after one that overlapped another or was cut off, however many logins    *)
(* have written copies that were out of date (token.go:87-91).              *)
THEOREM LoadFailuresHaveCause == Spec => LoadFailureHasCause
<1>1. KeptInv /\ [Next]_vars =>
        [\A p \in Processes :
           LoadFails(p) => raced \/ \E q \in Processes : pc[q] = "truncated"]_vars
  BY DEF KeptInv, LoadFails
<1> QED
  BY <1>1, Invariant, PTL DEF Spec, LoadFailureHasCause
------------------------------------------------------------------------------
------------------------------------------------------------------------------
(* When a login replaces a token, it no longer lasts, unless another login  *)
(* has stored it since.                                                     *)
NothingLasts(p) ==
  pc[p] \in {"store", "truncated"} /\ clusterName[p] \notin missed[p] =>
    ~(/\ clusterName[p] \in DOMAIN fileTokens
      /\ Valid(fileTokens[clusterName[p]]))

AtomicInv == ~raced => \A p \in Processes : NothingLasts(p)

(* A token that no longer lasts never lasts again. *)
LEMMA ValidityEnds ==
  ASSUME now \in Nat, now' \in Nat, now <= now', NEW t \in TokenType
  PROVE  ~(t.exp - ExpiryDelta < now') => Valid(t)
BY TimesAssumption DEF Valid, TokenType

(* A step of p that leaves the file alone. *)
LEMMA OthersAtomic ==
  ASSUME AtomicInv, NEW p \in Processes, UNCHANGED <<now, fileTokens, raced>>,
         \A q \in Processes \ {p} :
           /\ pc'[q] = pc[q] /\ clusterName'[q] = clusterName[q]
           /\ missed'[q] = missed[q],
         ~raced => NothingLasts(p)'
  PROVE  AtomicInv'
BY DEF AtomicInv, NothingLasts, Valid

(* No step makes a lasting token of a cluster that nobody has changed.      *)
LEMMA AtomicStep ==
  ASSUME Types, HandedInv, KeptInv, AtomicInv, [Next]_vars
  PROVE  AtomicInv'
<1> USE DEF Types, Go, fileVars, history
<1>1. ASSUME NEW p \in Processes,
             \/ \E c \in Clusters, r \in Resources : Start(p, c, r)
             \/ Load(p) \/ UseCachedToken(p)
      PROVE  AtomicInv'
  BY <1>1, OthersAtomic DEF Start, Load, UseCachedToken, TypeOK, NothingLasts
<1>2. ASSUME NEW p \in Processes, pc[p] # "truncated",
             ReadFails(p) \/ LoadFails(p) \/ GetAccessTokenFails(p)
               \/ OpenFails(p) \/ Output(p) \/ Killed(p)
      PROVE  AtomicInv'
  <2>1. Exit(p) /\ UNCHANGED <<now, fileTokens, raced>>
    BY <1>2
       DEF ReadFails, LoadFails, GetAccessTokenFails, OpenFails, Output, Killed,
           TypeOK
  <2> QED
    BY <2>1, OthersAtomic DEF Exit, TypeOK, NothingLasts
<1>3. ASSUME NEW p \in Processes, NEW l \in Lifetimes, GetAccessToken(p, l)
      PROVE  AtomicInv'
  <2>1. /\ pc[p] = "loaded" /\ pc' = [pc EXCEPT ![p] = "store"]
        /\ ~HasValidToken(p)
        /\ UNCHANGED <<now, fileTokens, raced, clusterName, missed>>
    BY <1>3 DEF GetAccessToken
  <2>2. ~raced => Agree(cachedTokens[p], fileTokens, missed[p])
    BY <2>1 DEF KeptInv, HoldsCopy
  <2>3. ~raced => NothingLasts(p)'
    BY <2>1, <2>2 DEF NothingLasts, HasValidToken, Agree, Valid, TypeOK
  <2> QED
    BY <2>1, <2>3, OthersAtomic DEF TypeOK
<1>4. ASSUME NEW p \in Processes, Truncate(p)
      PROVE  AtomicInv'
  <2>1. /\ raced => raced'
        /\ pc[p] = "store" /\ pc' = [pc EXCEPT ![p] = "truncated"]
        /\ UNCHANGED <<now, fileTokens, clusterName, missed>>
    BY <1>4 DEF Truncate, TypeOK
  <2> QED
    BY <2>1 DEF TypeOK, AtomicInv, NothingLasts, Valid
<1>5. ASSUME NEW p \in Processes, WriteFile(p)
      PROVE  AtomicInv'
  <2> SUFFICES ASSUME ~raced, NEW q \in Processes
               PROVE  NothingLasts(q)'
    BY <1>5 DEF AtomicInv, WriteFile
  <2> DEFINE own == clusterName[p]
  <2>1. /\ pc[p] = "truncated" /\ pc' = [pc EXCEPT ![p] = "output"]
        /\ UNCHANGED <<now, clusterName>>
        /\ q # p /\ pc[q] \in {"loaded", "store", "truncated"} =>
             missed'[q] = missed[q] \cup missed[p] \cup {own}
    BY <1>5 DEF WriteFile, HasRead
  <2>2. /\ Agree(cachedTokens[p], fileTokens, missed[p] \cup {own})
        /\ fileState = "empty" /\ NothingLasts(q)
    BY <2>1 DEF KeptInv, HoldsCopy, WritesAlone, AtomicInv
  <2>3. fileTokens' = cachedTokens[p]
    BY <1>5, <2>2 DEF WriteFile
  <2>4. CASE q = p
    BY <2>1, <2>4 DEF TypeOK, NothingLasts
  <2>5. CASE q # p
    <3>1. SUFFICES ASSUME pc[q] \in {"store", "truncated"},
                          clusterName[q] \notin missed'[q]
                   PROVE  ~(/\ clusterName[q] \in DOMAIN fileTokens'
                            /\ ~(fileTokens'[clusterName[q]].exp - ExpiryDelta < now))
      BY <2>1, <2>5 DEF NothingLasts, TypeOK, Valid
    <3>2. /\ clusterName[q] \notin missed[q]
          /\ clusterName[q] \in Clusters \ (missed[p] \cup {own})
      BY <2>1, <2>5, <3>1 DEF TypeOK
    <3>3. ~(/\ clusterName[q] \in DOMAIN fileTokens
            /\ Valid(fileTokens[clusterName[q]]))
      BY <2>2, <3>1, <3>2 DEF NothingLasts
    <3> HIDE DEF own
    <3> QED
      BY <2>1, <2>2, <2>3, <3>2, <3>3 DEF Agree, Valid
  <2> QED
    BY <2>4, <2>5
<1>6. ASSUME NEW p \in Processes, WriteFails(p) \/ (Killed(p) /\ pc[p] = "truncated")
      PROVE  AtomicInv'
  BY <1>6 DEF WriteFails, Killed, AtomicInv
<1>7. CASE ClockAdvances
  <2> SUFFICES ASSUME ~raced, NEW p \in Processes
               PROVE  NothingLasts(p)'
    BY <1>7 DEF AtomicInv, ClockAdvances
  <2> DEFINE c == clusterName[p]
  <2>1. /\ now \in Nat /\ now' \in Nat /\ now <= now'
        /\ UNCHANGED <<pc, clusterName, fileTokens, missed>>
    BY <1>7 DEF ClockAdvances, TypeOK
  <2>2. NothingLasts(p)
    BY DEF AtomicInv
  <2>3. c \in DOMAIN fileTokens => fileTokens[c] \in TokenType
    BY DEF TypeOK, IsMap
  <2>4. c \in DOMAIN fileTokens /\ ~(fileTokens[c].exp - ExpiryDelta < now') =>
             Valid(fileTokens[c])
    BY <2>1, <2>3, ValidityEnds
  <2> QED
    BY <2>1, <2>2, <2>4 DEF NothingLasts, Valid
<1>8. CASE UNCHANGED vars
  BY <1>8 DEF vars, AtomicInv, NothingLasts, Valid
<1>9. ASSUME NEW p \in Processes, pc[p] = "truncated",
              ReadFails(p) \/ LoadFails(p) \/ GetAccessTokenFails(p)
                \/ OpenFails(p) \/ Output(p)
      PROVE  FALSE
  BY <1>9 DEF ReadFails, LoadFails, GetAccessTokenFails, OpenFails, Output
<1> QED
  BY <1>1, <1>2, <1>3, <1>4, <1>5, <1>6, <1>7, <1>8, <1>9 DEF Next, LoginStep
------------------------------------------------------------------------------
(* The logins that have read and the tokens being handed out, as TokenStore *)
(* sees them.                                                               *)
Readers == {p \in Processes : HasRead(p)}

Handed == [p \in Processes |-> IF pc[p] = "output" THEN token[p] ELSE NoToken]

IInv == Types /\ HandedInv /\ KeptInv /\ AtomicInv

(* A login that ends without having written leaves the store. *)
LEMMA EndLeaves ==
  ASSUME Types, NEW p \in Processes, Exit(p), UNCHANGED <<now, fileTokens, raced>>
  PROVE  Store!Leave(p)
<1>1. /\ pc \in [Processes -> {"idle", "login", "loaded", "store", "truncated", "output"}]
      /\ pc' = [pc EXCEPT ![p] = "idle"] /\ token' = [token EXCEPT ![p] = NoToken]
      /\ token \in [Processes -> TokenType \cup {NoToken}]
      /\ missed' = [missed EXCEPT ![p] = {}] /\ UNCHANGED clusterName
  BY DEF Exit, Go, Types, TypeOK
<1>2. Readers' = Readers \ {p}
  BY <1>1 DEF Readers, HasRead
<1>3. Handed' = [Handed EXCEPT ![p] = NoToken]
  BY <1>1 DEF Handed
<1> QED
  BY <1>1, <1>2, <1>3
  DEF Store!Leave, Store!Stays, Store!BecomesBut, Readers, Handed

(* Each step of a login is one of TokenStore or a stutter. *)
LEMMA LoginImplements ==
  ASSUME IInv, IInv', NEW p \in Processes, LoginStep(p)
  PROVE  Store!StoreNext \/ UNCHANGED Store!storeVars
<1> USE DEF IInv, Types, Go, fileVars, history
<1>0. /\ pc \in [Processes -> {"idle", "login", "loaded", "store", "truncated", "output"}]
      /\ token \in [Processes -> TokenType \cup {NoToken}]
      /\ clusterName \in [Processes -> Clusters] /\ now \in Nat /\ raced \in BOOLEAN
      /\ missed \in [Processes -> SUBSET Clusters]
  BY DEF TypeOK
<1>1. ASSUME NEW c \in Clusters, NEW r \in Resources, Start(p, c, r)
      PROVE  Store!Ask(p)
  <2>1. /\ Handed' = Handed /\ Readers' = Readers /\ p \notin Readers
        /\ Handed[p] = NoToken
    BY <1>0, <1>1 DEF Start, Handed, Readers, HasRead
  <2> QED
    BY <1>1, <2>1
    DEF Start, Store!Ask, Store!Stays, Store!BecomesBut, Handed, Readers
<1>2. CASE Load(p)
  <2>1. /\ Handed' = Handed /\ Readers' = Readers \cup {p} /\ p \notin Readers
        /\ Handed[p] = NoToken
    BY <1>0, <1>2 DEF Load, Handed, Readers, HasRead
  <2>2. Store!Read(p)
    BY <1>2, <2>1
    DEF Load, Store!Read, Store!Stays, Store!BecomesBut, Handed, Readers
  <2> QED
    BY <2>2 DEF Store!StoreNext
<1>3. CASE \/ ReadFails(p) \/ LoadFails(p) \/ GetAccessTokenFails(p)
           \/ OpenFails(p) \/ Output(p) \/ (Killed(p) /\ pc[p] # "truncated")
  <2>1. Exit(p) /\ UNCHANGED <<now, fileTokens, raced>>
    BY <1>0, <1>3
    DEF ReadFails, LoadFails, GetAccessTokenFails, OpenFails, Output, Killed
  <2> QED
    BY <2>1, EndLeaves DEF Store!StoreNext
<1>4. ASSUME NEW l \in Lifetimes, GetAccessToken(p, l)
      PROVE  UNCHANGED Store!storeVars
  <2>1. Handed' = Handed /\ Readers' = Readers
    BY <1>0, <1>4 DEF GetAccessToken, Handed, Readers, HasRead
  <2> QED
    BY <1>4, <2>1 DEF GetAccessToken, Store!storeVars, Handed, Readers
<1>5. CASE UseCachedToken(p)
  <2> DEFINE c == clusterName[p]
             t == cachedTokens[p][c]
  <2>1. /\ pc[p] = "loaded" /\ c \in DOMAIN cachedTokens[p] /\ Valid(t)
        /\ token' = [token EXCEPT ![p] = t] /\ pc' = [pc EXCEPT ![p] = "output"]
        /\ UNCHANGED <<now, fileTokens, missed, clusterName, raced>>
    BY <1>5 DEF UseCachedToken, HasValidToken
  <2>2. t \in TokenType /\ t.name = c /\ t # NoToken
    BY <2>1, TimesAssumption DEF HandedInv, MapsNamed, Named, TypeOK, IsMap
  <2>3. t.exp >= now
    BY <1>0, <2>1, <2>2, TimesAssumption DEF Valid, TokenType
  <2>4. /\ Handed' = [Handed EXCEPT ![p] = t]
        /\ Readers' = Readers \ {p} /\ p \in Readers
    BY <1>0, <2>1 DEF Handed, Readers, HasRead
  <2>5. ~raced /\ c \notin missed[p] => c \in DOMAIN fileTokens /\ fileTokens[c] = t
    BY <1>0, <2>1 DEF KeptInv, HoldsCopy, Agree
  <2>6. Store!Lasting(t)
    BY <1>0, <2>1, <2>2, TimesAssumption DEF Store!Lasting, Valid, TokenType
  <2> HIDE DEF t
  <2>7. Handed'[p] = t
    BY <2>4 DEF Handed
  <2>8. Store!Get(p)
    BY <2>1, <2>2, <2>3, <2>4, <2>7 DEF Store!Get, Handed, Readers
  <2>9. Store!Take(p)
    BY <2>1, <2>5, <2>6, <2>7, <2>8
    DEF Store!Take, Store!HasLasting, Store!Stays, Store!BecomesBut, Handed
  <2> QED
    BY <2>9 DEF Store!StoreNext
<1>6. CASE Truncate(p)
  <2>1. /\ pc[p] = "store" /\ pc' = [pc EXCEPT ![p] = "truncated"]
        /\ UNCHANGED <<now, clusterName, token, fileTokens, missed>>
        /\ raced' \in BOOLEAN /\ (raced => raced')
    BY <1>0, <1>6 DEF Truncate
  <2>2. Handed' = Handed /\ Readers' = Readers
    BY <1>0, <2>1 DEF Handed, Readers, HasRead
  <2>3. CASE raced'
    BY <2>1, <2>2, <2>3 DEF Store!StoreNext, Store!Spoil, Handed, Readers
  <2>4. CASE ~raced'
    <3>1. raced' = raced
      BY <1>0, <2>1, <2>4
    <3> QED
      BY <2>1, <2>2, <3>1 DEF Store!storeVars, Handed, Readers
  <2> QED
    BY <2>3, <2>4
<1>7. CASE WriteFile(p)
  <2> DEFINE c == clusterName[p]
             t == token[p]
  <2>1. /\ pc[p] = "truncated" /\ pc' = [pc EXCEPT ![p] = "output"]
        /\ UNCHANGED <<now, clusterName, token, raced>>
        /\ missed' = [q \in Processes |->
                        IF q # p /\ HasRead(q)
                          THEN missed[q] \cup missed[p] \cup {c} ELSE missed[q]]
    BY <1>7 DEF WriteFile
  <2>2. t \in TokenType /\ t.name = c /\ t.exp >= now /\ t # NoToken
    <3>1. TokenLasts(p) /\ HasToken(p)
      BY <2>1 DEF HandedInv, HasToken
    <3> QED
      BY <1>0, <3>1, TimesAssumption DEF TokenLasts, TokenType, TypeOK
  <2>3. /\ Handed' = [Handed EXCEPT ![p] = t] /\ Handed'[p] = t
        /\ Readers' = Readers \ {p} /\ p \in Readers
    BY <1>0, <2>1 DEF Handed, Readers, HasRead
  <2>4. missed' = [q \in Processes |->
                    IF q \in Readers \ {p}
                      THEN missed[q] \cup missed[p] \cup {c} ELSE missed[q]]
    BY <2>1 DEF Readers
  <2>5. ~raced /\ c \notin missed[p] => ~(c \in DOMAIN fileTokens /\ Valid(fileTokens[c]))
    BY <2>1 DEF AtomicInv, NothingLasts
  <2>6. c \in DOMAIN fileTokens =>
          (Store!Lasting(fileTokens[c]) <=> Valid(fileTokens[c]))
    <3>1. c \in DOMAIN fileTokens => fileTokens[c] \in TokenType
      BY DEF TypeOK, IsMap
    <3> QED
      BY <1>0, <3>1, TimesAssumption DEF Store!Lasting, Valid, TokenType
  <2>7. ~raced => Agree(fileTokens', Store!Entered(t), missed[p] \ {c})
    <3>1. ~raced => /\ fileTokens' = cachedTokens[p]
                    /\ c \in DOMAIN cachedTokens[p] /\ cachedTokens[p][c] = t
                    /\ Agree(cachedTokens[p], fileTokens, missed[p] \cup {c})
      BY <1>7, <2>1 DEF WriteFile, KeptInv, HoldsCopy, WritesAlone
    <3> QED
      BY <2>2, <3>1 DEF Store!Entered, Agree
  <2> HIDE DEF t
  <2>8. Store!Get(p)
    BY <2>1, <2>2, <2>3 DEF Store!Get, Handed, Readers
  <2>9. Store!Renew(p)
    BY <2>1, <2>3, <2>4, <2>5, <2>6, <2>7, <2>8
    DEF Store!Renew, Store!HasLasting, Store!BecomesBut, Agree, Handed, Readers
  <2> QED
    BY <2>9 DEF Store!StoreNext
<1>8. CASE WriteFails(p) \/ (Killed(p) /\ pc[p] = "truncated")
  <2>1. /\ pc[p] = "truncated" /\ pc' = [pc EXCEPT ![p] = "idle"] /\ raced' = TRUE
        /\ token' = [token EXCEPT ![p] = NoToken] /\ UNCHANGED <<now, clusterName>>
        /\ missed' = [missed EXCEPT ![p] = {}]
    BY <1>8 DEF WriteFails, Killed, Exit
  <2>2. Handed' = Handed /\ Readers' = Readers \ {p}
    BY <1>0, <2>1 DEF Handed, Readers, HasRead
  <2> QED
    BY <2>1, <2>2 DEF Store!StoreNext, Store!Spoil, Handed, Readers
<1> QED
  BY <1>1, <1>2, <1>3, <1>4, <1>5, <1>6, <1>7, <1>8 DEF LoginStep, Store!StoreNext

(* The clock moves on only while no token in hand expires. *)
LEMMA ClockImplements ==
  ASSUME IInv, ClockAdvances
  PROVE  Store!Tick
<1> USE DEF IInv, Types, fileVars, history
<1>1. /\ now \in Nat /\ now' = now + 1 /\ Handed' = Handed /\ Readers' = Readers
      /\ UNCHANGED <<clusterName, raced, fileTokens, missed>>
  BY DEF ClockAdvances, Handed, Readers, HasRead, TypeOK
<1>2. ASSUME NEW p \in Processes, Handed[p] # NoToken
      PROVE  Handed[p].exp >= now'
  <2>1. Handed[p] = token[p] /\ HasToken(p) /\ TokenLasts(p)
    BY <1>2 DEF Handed, HasToken, HandedInv
  <2>2. token[p].exp \in Int /\ since[p] \in Nat
    BY <2>1 DEF TokenLasts, TokenType, TypeOK
  <2> QED
    BY <1>1, <2>1, <2>2, TimesAssumption DEF ClockAdvances, TokenLasts
<1> QED
  BY <1>1, <1>2 DEF Store!Tick, Store!Stays, Store!BecomesBut, Handed, Readers

(* TokenCache implements TokenStore: unless writes overlap or are cut off,  *)
(* looking a token up and handing it out, or finding none and storing a new *)
(* one, are one step for every cluster that no other login has changed      *)
(* since the file was read, for any number of logins (token.go:66-162).     *)
THEOREM ImplementsStore == Spec => AtomicUnlessMissed
<1>1. Init => AtomicInv
  BY DEF Init, AtomicInv, NothingLasts
<1>2. Types /\ HandedInv /\ KeptInv /\ AtomicInv /\ [Next]_vars => AtomicInv'
  BY AtomicStep
<1>3. Spec => []IInv
  BY <1>1, <1>2, Invariant, PTL DEF Spec, IInv
<1>4. Init => Store!StoreInit
  <2> SUFFICES ASSUME Init PROVE Store!StoreInit
    OBVIOUS
  <2>1. Handed = [p \in Processes |-> NoToken] /\ Readers = {}
    BY DEF Init, Handed, Readers, HasRead
  <2> QED
    BY <2>1 DEF Init, Store!StoreInit, Handed, Readers
<1>5. IInv /\ IInv' /\ [Next]_vars => [Store!StoreNext]_(Store!storeVars)
  <2> SUFFICES ASSUME IInv, IInv', [Next]_vars
               PROVE  Store!StoreNext \/ UNCHANGED Store!storeVars
    OBVIOUS
  <2>1. CASE \E p \in Processes : LoginStep(p)
    BY <2>1, LoginImplements
  <2>2. CASE ClockAdvances
    BY <2>2, ClockImplements DEF Store!StoreNext
  <2>3. CASE UNCHANGED vars
    <3>1. Handed' = Handed /\ Readers' = Readers
      BY <2>3 DEF vars, fileVars, history, Handed, Readers, HasRead
    <3> QED
      BY <2>3, <3>1 DEF vars, fileVars, history, Store!storeVars, Handed, Readers
  <2> QED
    BY <2>1, <2>2, <2>3 DEF Next
<1> QED
  BY <1>3, <1>4, <1>5, PTL DEF Spec, AtomicUnlessMissed, Store!StoreSpec
==============================================================================
