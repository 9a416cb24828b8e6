------------------------------ MODULE TokenCache ------------------------------
(***************************************************************************)
(* kubectl azad-proxy login (login.go, token.go): every kubectl command    *)
(* runs it as a process of its own, which reads azad-proxy.json, hands out *)
(* the token cached for its cluster or requests one from Azure AD, and     *)
(* writes the whole map back.  Processes share the file without a lock,    *)
(* and os.WriteFile truncates it before it writes.                         *)
(*                                                                         *)
(* A slot of Processes runs one login after the other.  Loading is one     *)
(* step: the file, once there, is never removed, so that fileExists and    *)
(* getFileContent together see what the file is at the moment of reading.  *)
(* A login that reads the file while no other writes it, and writes it     *)
(* later, undoes what others have written in between: missed keeps track.  *)
(***************************************************************************)
EXTENDS Integers

CONSTANTS
  Processes,    \* slots of concurrent logins
  Clusters,     \* values of CLUSTER_NAME, the keys of the map
  Resources,    \* values of RESOURCE
  Lifetimes,    \* how long a token Azure AD hands out may still last
  ExpiryDelta,  \* the ten seconds of Valid
  MaxLatency,   \* longest a login takes once it has its token
  MaxTime,      \* bound of the model: the clock stops here
  NoToken       \* Token{}

TokenType == [name : Clusters, resource : Resources, exp : Int]

ASSUME TimesAssumption ==
  /\ MaxLatency \in Nat /\ MaxTime \in Nat
  /\ ExpiryDelta \in Nat /\ ExpiryDelta >= MaxLatency
  /\ Lifetimes \subseteq Nat /\ \A l \in Lifetimes : l >= MaxLatency
  /\ NoToken \notin TokenType  \* no cluster has the name ""

VARIABLES
  now,
  fileState,    \* of azad-proxy.json: "absent", "empty", "whole" or "torn"
  fileTokens,   \* the map the file holds, or held when it was last whole
  pc,           \* "idle", "login", "loaded", "store", "truncated", "output"
  clusterName,  \* of the LoginClient
  resource,     \* of the LoginClient
  cachedTokens, \* the map in a process's memory
  token,        \* the token a process is about to hand out
  since,        \* when it found or received that token
  obtained,     \* history: the tokens last stored, by cluster
  missed,       \* history: the clusters whose tokens others have changed in
                \* the file since a login read it
  undone,       \* history: the clusters whose tokens were last changed by a
                \* login that had missed the token last stored
  raced         \* history: two writes overlapped, or one was cut off

fileVars == <<fileState, fileTokens>>
history == <<obtained, missed, undone, raced>>
vars == <<now, fileVars, pc, clusterName, resource, cachedTokens, token, since,
          history>>

NoTokens == [c \in {} |-> NoToken]

IsMap(m) == DOMAIN m \subseteq Clusters /\ \A c \in DOMAIN m : m[c] \in TokenType

TypeOK ==
  /\ now \in Nat
  /\ fileState \in {"absent", "empty", "whole", "torn"}
  /\ IsMap(fileTokens) /\ IsMap(obtained)
  /\ pc \in [Processes -> {"idle", "login", "loaded", "store", "truncated",
                           "output"}]
  /\ clusterName \in [Processes -> Clusters]
  /\ resource \in [Processes -> Resources]
  /\ \A p \in Processes : IsMap(cachedTokens[p])
  /\ token \in [Processes -> TokenType \cup {NoToken}]
  /\ since \in [Processes -> Nat]
  /\ missed \in [Processes -> SUBSET Clusters] /\ undone \subseteq Clusters
  /\ raced \in BOOLEAN

(* Tokens of earlier logins, for their clusters. *)
EarlierTokens ==
  {m \in UNION {[C -> [name : Clusters, resource : Resources,
                       exp : {0} \cup Lifetimes]] : C \in SUBSET Clusters} :
     \A c \in DOMAIN m : m[c].name = c}

(* There may be a file from before, which an earlier write may have left    *)
(* cut off.                                                                 *)
Init ==
  /\ now = 0
  /\ \/ fileState = "whole" /\ fileTokens \in EarlierTokens
     \/ fileState \in {"absent", "empty", "torn"} /\ fileTokens = NoTokens
  /\ pc = [p \in Processes |-> "idle"]
  /\ clusterName \in [Processes -> Clusters]
  /\ resource \in [Processes -> Resources]
  /\ cachedTokens = [p \in Processes |-> NoTokens]
  /\ token = [p \in Processes |-> NoToken]
  /\ since = [p \in Processes |-> 0]
  /\ obtained = fileTokens
  /\ missed = [p \in Processes |-> {}] /\ undone = {}
  /\ raced = (fileState \in {"empty", "torn"})
------------------------------------------------------------------------------
Go(p, to) == pc' = [pc EXCEPT ![p] = to]

(* The process exits and its memory is gone. *)
Exit(p) ==
  /\ Go(p, "idle")
  /\ cachedTokens' = [cachedTokens EXCEPT ![p] = NoTokens]
  /\ token' = [token EXCEPT ![p] = NoToken]
  /\ since' = [since EXCEPT ![p] = 0]
  /\ missed' = [missed EXCEPT ![p] = {}]
  /\ UNCHANGED <<clusterName, resource>>

Start(p, c, r) ==
  /\ pc[p] = "idle"
  /\ Go(p, "login")
  /\ clusterName' = [clusterName EXCEPT ![p] = c]
  /\ resource' = [resource EXCEPT ![p] = r]
  /\ UNCHANGED <<now, fileVars, cachedTokens, token, since, history>>

(* Mutant: a file that does not parse is taken for an empty map. *)
LoadTolerant(p) ==
  /\ pc[p] = "login"
  /\ cachedTokens' = [cachedTokens EXCEPT ![p] =
                        IF fileState = "whole" THEN fileTokens ELSE NoTokens]
  /\ missed' = [missed EXCEPT ![p] = {}]
  /\ Go(p, "loaded")
  /\ UNCHANGED <<now, fileVars, clusterName, resource, token, since, obtained,
                 undone, raced>>

(* newTokens: no file is an empty map. *)
Load(p) ==
  /\ pc[p] = "login"
  /\ fileState \in {"absent", "whole"}
  /\ cachedTokens' = [cachedTokens EXCEPT ![p] = fileTokens]
  /\ missed' = [missed EXCEPT ![p] = {}]
  /\ Go(p, "loaded")
  /\ UNCHANGED <<now, fileVars, clusterName, resource, token, since, obtained,
                 undone, raced>>

(* getFileContent fails although there is a file: Login returns a           *)
(* TokenCache error.                                                        *)
ReadFails(p) ==
  /\ pc[p] = "login"
  /\ fileState # "absent"
  /\ Exit(p)
  /\ UNCHANGED <<now, fileVars, obtained, undone, raced>>

(* Unmarshal fails on an empty file and on one that holds parts of two      *)
(* maps: Login returns the same error.                                      *)
LoadFails(p) ==
  /\ pc[p] = "login"
  /\ fileState \in {"empty", "torn"}
  /\ Exit(p)
  /\ UNCHANGED <<now, fileVars, obtained, undone, raced>>

(* Mutant: no expiryDelta. *)
ValidToTheEnd(t) == ~(t.exp < now)

(* Valid. *)
Valid(t) == ~(t.exp - ExpiryDelta < now)

HasValidToken(p) ==
  /\ clusterName[p] \in DOMAIN cachedTokens[p]
  /\ Valid(cachedTokens[p][clusterName[p]])

UseCachedToken(p) ==
  /\ pc[p] = "loaded"
  /\ HasValidToken(p)
  /\ token' = [token EXCEPT ![p] = cachedTokens[p][clusterName[p]]]
  /\ since' = [since EXCEPT ![p] = now]
  /\ Go(p, "output")
  /\ UNCHANGED <<now, fileVars, clusterName, resource, cachedTokens, history>>

(* Mutant: the map is keyed by the resource. *)
GetAccessTokenByResource(p, l) ==
  LET t == [name |-> clusterName[p], resource |-> resource[p], exp |-> now + l]
  IN
  /\ pc[p] = "loaded"
  /\ ~HasValidToken(p)
  /\ token' = [token EXCEPT ![p] = t]
  /\ cachedTokens' = [cachedTokens EXCEPT ![p] =
                        [c \in DOMAIN @ \cup {t.resource} |->
                           IF c = t.resource THEN t ELSE @[c]]]
  /\ since' = [since EXCEPT ![p] = now]
  /\ Go(p, "store")
  /\ UNCHANGED <<now, fileVars, clusterName, resource, history>>

(* Mutant: a new token is requested whether the cached one lasts or not.    *)
GetAccessTokenAlways(p, l) ==
  LET t == [name |-> clusterName[p], resource |-> resource[p], exp |-> now + l]
  IN
  /\ pc[p] = "loaded"
  /\ token' = [token EXCEPT ![p] = t]
  /\ cachedTokens' = [cachedTokens EXCEPT ![p] =
                        [c \in DOMAIN @ \cup {t.name} |->
                           IF c = t.name THEN t ELSE @[c]]]
  /\ since' = [since EXCEPT ![p] = now]
  /\ Go(p, "store")
  /\ UNCHANGED <<now, fileVars, clusterName, resource, history>>

(* getAccessToken returns a token that lasts for l, and SetToken enters it  *)
(* into the map.                                                            *)
GetAccessToken(p, l) ==
  LET t == [name |-> clusterName[p], resource |-> resource[p], exp |-> now + l]
  IN
  /\ pc[p] = "loaded"
  /\ ~HasValidToken(p)
  /\ token' = [token EXCEPT ![p] = t]
  /\ cachedTokens' = [cachedTokens EXCEPT ![p] =
                        [c \in DOMAIN @ \cup {t.name} |->
                           IF c = t.name THEN t ELSE @[c]]]
  /\ since' = [since EXCEPT ![p] = now]
  /\ Go(p, "store")
  /\ UNCHANGED <<now, fileVars, clusterName, resource, history>>

GetAccessTokenFails(p) ==
  /\ pc[p] = "loaded"
  /\ ~HasValidToken(p)
  /\ Exit(p)
  /\ UNCHANGED <<now, fileVars, obtained, undone, raced>>

(* Mutant: the file is opened without O_TRUNC. *)
OpenWithoutTruncating(p) ==
  /\ pc[p] = "store"
  /\ Go(p, "truncated")
  /\ raced' = (raced \/ \E q \in Processes : pc[q] = "truncated")
  /\ UNCHANGED <<now, fileVars, clusterName, resource, cachedTokens, token,
                 since, obtained, missed, undone>>

(* os.WriteFile opens the file with O_CREATE and O_TRUNC. *)
Truncate(p) ==
  /\ pc[p] = "store"
  /\ fileState' = "empty"
  /\ Go(p, "truncated")
  /\ raced' = (raced \/ \E q \in Processes : pc[q] = "truncated")
  /\ UNCHANGED <<now, fileTokens, clusterName, resource, cachedTokens, token,
                 since, obtained, missed, undone>>

(* The file cannot be opened for writing: the token is not handed out. *)
OpenFails(p) ==
  /\ pc[p] = "store"
  /\ Exit(p)
  /\ UNCHANGED <<now, fileVars, obtained, undone, raced>>

(* A login has read the file, and still holds what it read. *)
HasRead(p) == pc[p] \in {"loaded", "store", "truncated"}

(* The map is written from the start of the file.  Where another login has  *)
(* written since the truncation, the end of a longer map of its is left.    *)
WriteFile(p) ==
  /\ pc[p] = "truncated"
  /\ \/ /\ fileState' = "whole"
        /\ fileTokens' = cachedTokens[p]
     \/ /\ fileState \in {"whole", "torn"}
        /\ fileState' = "torn"
        /\ fileTokens' = NoTokens
  /\ obtained' = [c \in DOMAIN obtained \cup {clusterName[p]} |->
                    IF c = clusterName[p] THEN token[p] ELSE obtained[c]]
  /\ missed' = [q \in Processes |->
                  IF q # p /\ HasRead(q)
                    THEN missed[q] \cup missed[p] \cup {clusterName[p]}
                    ELSE missed[q]]
  /\ undone' = (undone \cup missed[p]) \ {clusterName[p]}
  /\ Go(p, "output")
  /\ UNCHANGED <<now, clusterName, resource, cachedTokens, token, since, raced>>

(* The disk is full: the file is left empty or with a part of the map, and  *)
(* Login returns an error.                                                  *)
WriteFails(p) ==
  /\ pc[p] = "truncated"
  /\ \/ UNCHANGED fileVars
     \/ fileState' = "torn" /\ fileTokens' = NoTokens
  /\ raced' = TRUE
  /\ Exit(p)
  /\ UNCHANGED <<now, obtained, undone>>

(* runLogin prints the ExecCredential. *)
Output(p) ==
  /\ pc[p] = "output"
  /\ Exit(p)
  /\ UNCHANGED <<now, fileVars, obtained, undone, raced>>

(* kubectl is interrupted. *)
Killed(p) ==
  /\ pc[p] # "idle"
  /\ raced' = (raced \/ pc[p] = "truncated")
  /\ Exit(p)
  /\ UNCHANGED <<now, fileVars, obtained, undone>>

LoginStep(p) ==
  \/ \E c \in Clusters, r \in Resources : Start(p, c, r)
  \/ Load(p)
  \/ ReadFails(p)
  \/ LoadFails(p)
  \/ UseCachedToken(p)
  \/ \E l \in Lifetimes : GetAccessToken(p, l)
  \/ GetAccessTokenFails(p)
  \/ Truncate(p)
  \/ OpenFails(p)
  \/ WriteFile(p)
  \/ WriteFails(p)
  \/ Output(p)
  \/ Killed(p)

(* A login that has its token is done within MaxLatency. *)
HasToken(p) == pc[p] \in {"store", "truncated", "output"}

ClockAdvances ==
  /\ now < MaxTime
  /\ \A p \in Processes : HasToken(p) => now < since[p] + MaxLatency
  /\ now' = now + 1
  /\ UNCHANGED <<fileVars, pc, clusterName, resource, cachedTokens, token, since,
                 history>>

Next == (\E p \in Processes : LoginStep(p)) \/ ClockAdvances

Spec == Init /\ [][Next]_vars
------------------------------------------------------------------------------
(* A token is not yet expired when it is handed out, whichever process      *)
(* cached it and however late it wrote it: the ten seconds of Valid make up *)
(* for the time a login still takes (token.go:43-46).                       *)
HandedOutUnexpired ==
  \A p \in Processes : pc[p] = "output" =>
    token[p].name = clusterName[p] /\ now <= token[p].exp

(* A token that a login has stored is in the file whenever nobody writes    *)
(* it, until a later login for its cluster stores another - or a login that *)
(* had read the file before the token was stored writes its own copy back:  *)
(* nothing in the code prevents that, and the token is then lost.  Reading, *)
(* failing or being killed before the write loses nothing.  Two writes at   *)
(* once, or one cut off, may leave any file (token.go:81-94, 143-162).      *)
TokensKept ==
  ~raced /\ (\A p \in Processes : pc[p] # "truncated") =>
    /\ fileState \in {"absent", "whole"}
    /\ \A c \in DOMAIN obtained \ undone :
         c \in DOMAIN fileTokens /\ fileTokens[c] = obtained[c]

(* A login finds a file that does not parse only while another is writing   *)
(* it, or after two writes overlapped or one was cut off, perhaps before    *)
(* this history begins.  Copies written back late never cause it            *)
(* (token.go:87-91, token.go:156).                                          *)
LoadFailureHasCause ==
  [][\A p \in Processes :
       LoadFails(p) => raced \/ \E q \in Processes : pc[q] = "truncated"]_vars

Store == INSTANCE TokenStore WITH
  store <- fileTokens,
  asked <- clusterName,
  readers <- {p \in Processes : HasRead(p)},
  handed <- [p \in Processes |-> IF pc[p] = "output" THEN token[p] ELSE NoToken],
  spoilt <- raced

(* Unless two writes overlap, or one is cut off, a login is atomic for every *)
(* cluster that no other has changed since it read the file: it hands out a  *)
(* token of the file that lasts, or replaces one that does not, and leaves   *)
(* the tokens of such clusters alone.  What others have changed it may undo, *)
(* a lasting token of its own cluster too (token.go:66-162).                 *)
AtomicUnlessMissed == Store!StoreSpec

(* Stated by the test of GetToken (token_test.go:180): the token of a login *)
(* is for the resource the login was asked for.                             *)
TokenIsForResource ==
  \A p \in Processes : pc[p] = "output" => token[p].resource = resource[p]
==============================================================================
