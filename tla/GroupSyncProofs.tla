---------------------------- MODULE GroupSyncProofs ----------------------------
(***************************************************************************)
(* Proofs about GroupSync, for every set of groups and names and every     *)
(* interval and latency: type correctness, and how old a cached name is.   *)
(***************************************************************************)
EXTENDS GroupSync, TLAPS

(* The past is not later than now. *)
HistoryOK ==
  /\ \A g \in Groups, n \in Names : namedUntil[g][n] <= now
  /\ \A p \in Principals, g \in Groups : memberUntil[p][g] <= now

(* A run of syncAzureADGroupsCache keeps to its latency. *)
RunInTime ==
  /\ syncStart <= now
  /\ SyncRunning => now <= syncStart + MaxLatency

(* What is left to store was listed in this run. *)
ToStoreOK ==
  /\ syncPC # "store" => toStore = {}
  /\ \A group \in toStore :
       /\ group.Name \in PrefixedNames
       /\ LastNamed(group.ObjectID, group.Name) >= syncStart

(* A cached name was in force at most one run before it was stored. *)
EntriesOK ==
  \A g \in Groups \cap DOMAIN cache :
    /\ cache[g].val.ObjectID = g
    /\ cache[g].val.Name \in PrefixedNames
    /\ LastNamed(g, cache[g].val.Name)
         >= cache[g].exp - SyncInterval - MaxLatency

SyncInv == SyncTypeOK /\ HistoryOK /\ RunInTime /\ ToStoreOK /\ EntriesOK
------------------------------------------------------------------------------
(* The constants, in the form the provers use them. *)
LEMMA ClockConstants ==
  /\ SyncInterval \in Nat /\ SyncInterval > 0
  /\ MaxLatency \in Nat /\ MaxTime \in Nat
  /\ Never \in Int /\ Never <= 0
BY ClockAssumption DEF Never

(* The initial state has the types and satisfies the invariant. *)
LEMMA SyncInitInv == SyncInit => SyncInv
<1> SUFFICES ASSUME SyncInit PROVE SyncInv
  OBVIOUS
<1> USE ClockConstants DEF SyncInit, DirectoryInit
<1>1. SyncTypeOK
  BY DEF SyncTypeOK, DirectoryTypeOK, Time
<1>2. HistoryOK
  BY DEF HistoryOK
<1>3. RunInTime
  BY DEF RunInTime, SyncRunning
<1>4. ToStoreOK /\ EntriesOK
  BY DEF ToStoreOK, EntriesOK
<1> QED
  BY <1>1, <1>2, <1>3, <1>4 DEF SyncInv

(* The listing returns groups under names with the prefix. *)
LEMMA GroupListTypes ==
  ASSUME DirectoryTypeOK
  PROVE  /\ GroupList \subseteq GroupModel
         /\ \A group \in GroupList : /\ group.Name \in PrefixedNames
                                     /\ group.Name = displayName[group.ObjectID]
BY AzureADAssumption DEF DirectoryTypeOK, GroupList, GroupModel

(* A step of the directory keeps its types. *)
LEMMA DirectoryTypes ==
  ASSUME DirectoryTypeOK, now \in Time, DirectoryNext
  PROVE  DirectoryTypeOK'
<1> USE DEF DirectoryTypeOK, Time
<1>1. ASSUME NEW g \in Groups, NEW n \in Names \cup {Nil}, Rename(g, n)
      PROVE  DirectoryTypeOK'
  BY <1>1 DEF Rename
<1>2. ASSUME NEW p \in Principals, NEW g \in Groups, Join(p, g)
      PROVE  DirectoryTypeOK'
  BY <1>2 DEF Join
<1>3. ASSUME NEW p \in Principals, NEW g \in Groups, Leave(p, g)
      PROVE  DirectoryTypeOK'
  BY <1>3 DEF Leave
<1> QED
  BY <1>1, <1>2, <1>3 DEF DirectoryNext

(* Every step of the sync and of its environment keeps the types. *)
LEMMA SyncTypes ==
  ASSUME SyncTypeOK, SyncNext
  PROVE  SyncTypeOK'
<1> USE ClockConstants DEF SyncTypeOK, Time
<1>1. CASE ListGroups
  BY <1>1, GroupListTypes DEF ListGroups, directoryVars, DirectoryTypeOK
<1>2. CASE ListGroupsFails
  BY <1>2 DEF ListGroupsFails, directoryVars, DirectoryTypeOK
<1>3. ASSUME NEW group \in toStore, StoreGroup(group)
      PROVE  SyncTypeOK'
  <2>1. group \in GroupModel /\ now + SyncInterval \in Int
    OBVIOUS
  <2>2. \A g \in Groups \cap DOMAIN cache' : cache'[g] \in GroupItem
    BY <1>3, <2>1 DEF StoreGroup, Stored, GroupItem
  <2> QED
    BY <1>3, <2>2 DEF StoreGroup, directoryVars, DirectoryTypeOK
<1>4. CASE SyncDone
  BY <1>4 DEF SyncDone, directoryVars, DirectoryTypeOK
<1>5. CASE TickerSync
  BY <1>5 DEF TickerSync, directoryVars, DirectoryTypeOK
<1>6. CASE DirectoryNext /\ UNCHANGED <<now, cache, syncVars>>
  BY <1>6, DirectoryTypes DEF syncVars
<1>7. CASE DeleteExpired /\ UNCHANGED <<directoryVars, syncVars>>
  BY <1>7 DEF DeleteExpired, directoryVars, syncVars, DirectoryTypeOK
<1>8. CASE SyncInTime /\ ClockAdvances
  <2>1. /\ now' \in Nat
        /\ UNCHANGED <<cache, directoryVars, phase, syncPC, syncStart, toStore,
                       listed, lastSyncOK>>
    BY <1>8 DEF ClockAdvances
  <2>2. tickPending' \in BOOLEAN /\ nextTick' \in Nat
    <3>1. CASE now' = nextTick
      <4>1. tickPending' = TRUE /\ nextTick' = nextTick + SyncInterval
        BY <1>8, <3>1, Zenon DEF ClockAdvances
      <4> QED
        BY <4>1
    <3>2. CASE now' # nextTick
      <4>1. tickPending' = tickPending /\ nextTick' = nextTick
        BY <1>8, <3>2, Zenon DEF ClockAdvances
      <4> QED
        BY <4>1
    <3> QED
      BY <3>1, <3>2
  <2> QED
    BY <2>1, <2>2 DEF directoryVars, DirectoryTypeOK
<1> QED
  BY <1>1, <1>2, <1>3, <1>4, <1>5, <1>6, <1>7, <1>8
  DEF SyncNext, SyncStep, EnvironmentStep

(* Withdrawals are recorded at the moment they happen. *)
LEMMA HistoryStep ==
  ASSUME SyncTypeOK, HistoryOK, SyncNext
  PROVE  HistoryOK'
<1> USE ClockConstants DEF SyncTypeOK, DirectoryTypeOK, Time, HistoryOK
<1>1. CASE SyncStep \/ (DeleteExpired /\ UNCHANGED <<directoryVars, syncVars>>)
  BY <1>1 DEF SyncStep, ListGroups, ListGroupsFails, StoreGroup, SyncDone,
              TickerSync, DeleteExpired, directoryVars
<1>2. CASE DirectoryNext /\ UNCHANGED <<now, cache, syncVars>>
  <2>1. ASSUME NEW g \in Groups, NEW n \in Names \cup {Nil}, Rename(g, n)
        PROVE  HistoryOK'
    BY <1>2, <2>1, AzureADAssumption DEF Rename
  <2>2. ASSUME NEW p \in Principals, NEW g \in Groups, Join(p, g)
        PROVE  HistoryOK'
    BY <1>2, <2>2 DEF Join
  <2>3. ASSUME NEW p \in Principals, NEW g \in Groups, Leave(p, g)
        PROVE  HistoryOK'
    BY <1>2, <2>3 DEF Leave
  <2> QED
    BY <1>2, <2>1, <2>2, <2>3 DEF DirectoryNext
<1>3. CASE SyncInTime /\ ClockAdvances
  BY <1>3 DEF ClockAdvances, directoryVars
<1> QED
  BY <1>1, <1>2, <1>3 DEF SyncNext, EnvironmentStep

(* The last moment of a name or a membership never moves back, whatever     *)
(* the administrators do.                                                   *)
LEMMA LastNeverMovesBack ==
  ASSUME SyncTypeOK, HistoryOK, SyncNext
  PROVE  /\ \A g \in Groups, n \in Names : LastNamed(g, n)' >= LastNamed(g, n)
         /\ \A p \in Principals, g \in Groups :
              LastMember(p, g)' >= LastMember(p, g)
         /\ now' >= now
<1> USE ClockConstants
    DEF SyncTypeOK, DirectoryTypeOK, Time, HistoryOK, LastNamed, LastMember
<1>1. CASE SyncStep \/ (DeleteExpired /\ UNCHANGED <<directoryVars, syncVars>>)
  BY <1>1 DEF SyncStep, ListGroups, ListGroupsFails, StoreGroup, SyncDone,
              TickerSync, DeleteExpired, directoryVars
<1>2. CASE DirectoryNext /\ UNCHANGED <<now, cache, syncVars>>
  <2>1. ASSUME NEW g \in Groups, NEW n \in Names \cup {Nil}, Rename(g, n)
        PROVE  \A h \in Groups, m \in Names :
                 LastNamed(h, m)' >= LastNamed(h, m)
    BY <1>2, <2>1, AzureADAssumption DEF Rename
  <2>2. ASSUME NEW g \in Groups, NEW n \in Names \cup {Nil}, Rename(g, n)
        PROVE  \A p \in Principals, h \in Groups :
                 LastMember(p, h)' >= LastMember(p, h)
    BY <1>2, <2>2 DEF Rename
  <2>3. ASSUME NEW p \in Principals, NEW g \in Groups, Join(p, g) \/ Leave(p, g)
        PROVE  \A q \in Principals, h \in Groups :
                 LastMember(q, h)' >= LastMember(q, h)
    <3>1. CASE Join(p, g)
      BY <1>2, <3>1 DEF Join
    <3>2. CASE Leave(p, g)
      BY <1>2, <3>2 DEF Leave
    <3> QED
      BY <2>3, <3>1, <3>2
  <2>4. ASSUME NEW p \in Principals, NEW g \in Groups, Join(p, g) \/ Leave(p, g)
        PROVE  \A h \in Groups, m \in Names :
                 LastNamed(h, m)' >= LastNamed(h, m)
    BY <1>2, <2>4 DEF Join, Leave
  <2> QED
    BY <1>2, <2>1, <2>2, <2>3, <2>4 DEF DirectoryNext
<1>3. CASE SyncInTime /\ ClockAdvances
  BY <1>3 DEF ClockAdvances, directoryVars
<1> QED
  BY <1>1, <1>2, <1>3 DEF SyncNext, EnvironmentStep

(* The clock waits for a run that has used up its latency. *)
LEMMA RunInTimeStep ==
  ASSUME SyncTypeOK, RunInTime, SyncNext
  PROVE  RunInTime'
<1> USE ClockConstants DEF SyncTypeOK, Time, RunInTime, SyncRunning
<1>1. CASE SyncStep
  BY <1>1 DEF SyncStep, ListGroups, ListGroupsFails, StoreGroup, SyncDone,
              TickerSync
<1>2. CASE EnvironmentStep
  BY <1>2 DEF EnvironmentStep, DeleteExpired, syncVars
<1>3. CASE SyncInTime /\ ClockAdvances
  BY <1>3 DEF ClockAdvances, SyncInTime
<1> QED
  BY <1>1, <1>2, <1>3 DEF SyncNext

(* What a run has listed but not stored is no older than the run. *)
LEMMA ToStoreStep ==
  ASSUME SyncTypeOK, HistoryOK, RunInTime, ToStoreOK, SyncNext
  PROVE  ToStoreOK'
<1> USE ClockConstants
<1>1. \A group \in toStore : group.ObjectID \in Groups /\ group.Name \in Names
  BY DEF SyncTypeOK, GroupModel
<1>2. \A group \in toStore :
        LastNamed(group.ObjectID, group.Name)'
          >= LastNamed(group.ObjectID, group.Name)
  BY <1>1, LastNeverMovesBack
<1>3. \A group \in toStore : /\ LastNamed(group.ObjectID, group.Name) \in Int
                             /\ LastNamed(group.ObjectID, group.Name)' \in Int
  BY <1>1, SyncTypes DEF SyncTypeOK, DirectoryTypeOK, LastNamed, Time
<1>4. \A group \in toStore :
        /\ group.Name \in PrefixedNames
        /\ LastNamed(group.ObjectID, group.Name)' >= syncStart
  BY <1>2, <1>3 DEF ToStoreOK, SyncTypeOK, Time
<1>5. CASE ListGroups
  <2>1. \A group \in GroupList :
          /\ group.Name \in PrefixedNames
          /\ LastNamed(group.ObjectID, group.Name)' = now
    BY <1>5, GroupListTypes DEF ListGroups, directoryVars, LastNamed, SyncTypeOK
  <2> QED
    BY <1>5, <2>1 DEF ListGroups, ToStoreOK, RunInTime
<1>6. CASE ListGroupsFails \/ SyncDone
  BY <1>4, <1>6 DEF ListGroupsFails, SyncDone, ToStoreOK
<1>7. ASSUME NEW group \in toStore, StoreGroup(group)
      PROVE  ToStoreOK'
  BY <1>4, <1>7 DEF StoreGroup, ToStoreOK
<1>8. CASE TickerSync
  BY <1>8 DEF TickerSync, ToStoreOK
<1>9. CASE EnvironmentStep
  BY <1>4, <1>9 DEF EnvironmentStep, syncVars, ToStoreOK
<1>10. CASE ClockAdvances
  BY <1>4, <1>10 DEF ClockAdvances, ToStoreOK
<1> QED
  BY <1>5, <1>6, <1>7, <1>8, <1>9, <1>10 DEF SyncNext, SyncStep

(* An entry outlives the withdrawal of its name by at most its lifetime and *)
(* the run that stored it.                                                  *)
LEMMA EntriesStep ==
  ASSUME SyncInv, SyncNext
  PROVE  EntriesOK'
<1> USE ClockConstants
<1> DEFINE LastNamedNext(g, n) ==
             IF displayName'[g] = n THEN now' ELSE namedUntil'[g][n]
           Good(g, entry) ==
             /\ entry.val.ObjectID = g
             /\ entry.val.Name \in PrefixedNames
             /\ LastNamedNext(g, entry.val.Name)
                  >= entry.exp - SyncInterval - MaxLatency
<1>1. \A g \in Groups, n \in Names :
        /\ LastNamedNext(g, n) >= LastNamed(g, n)
        /\ LastNamed(g, n) \in Int /\ LastNamedNext(g, n) \in Int
  BY LastNeverMovesBack, SyncTypes
  DEF SyncInv, SyncTypeOK, DirectoryTypeOK, LastNamed, Time
<1>2. \A g \in Groups \cap DOMAIN cache : Good(g, cache[g])
  <2> SUFFICES ASSUME NEW g \in Groups \cap DOMAIN cache
               PROVE  Good(g, cache[g])
    OBVIOUS
  <2>1. /\ cache[g].exp \in Int /\ cache[g].val.Name \in Names
    BY DEF SyncInv, SyncTypeOK, GroupItem, GroupModel
  <2>2. /\ cache[g].val.ObjectID = g
        /\ cache[g].val.Name \in PrefixedNames
        /\ LastNamed(g, cache[g].val.Name)
             >= cache[g].exp - SyncInterval - MaxLatency
    BY DEF SyncInv, EntriesOK
  <2>3. LastNamedNext(g, cache[g].val.Name) >= LastNamed(g, cache[g].val.Name)
    BY <1>1, <2>1
  <2> HIDE DEF LastNamedNext
  <2> QED
    BY <1>1, <2>1, <2>2, <2>3
<1>3. ASSUME \A g \in Groups \cap DOMAIN cache' : Good(g, cache'[g])
      PROVE  EntriesOK'
  BY <1>3 DEF EntriesOK, LastNamed
<1> HIDE DEF LastNamedNext
<1>4. ASSUME cache' = cache
      PROVE  EntriesOK'
  BY <1>2, <1>3, <1>4
<1>5. ASSUME NEW group \in toStore, StoreGroup(group)
      PROVE  EntriesOK'
  <2>1. /\ group.ObjectID \in Groups /\ group.Name \in PrefixedNames
        /\ group.Name \in Names
        /\ LastNamed(group.ObjectID, group.Name) >= syncStart
        /\ now <= syncStart + MaxLatency
        /\ now \in Int /\ syncStart \in Int
    BY <1>5 DEF SyncInv, SyncTypeOK, ToStoreOK, RunInTime, SyncRunning,
                GroupModel, StoreGroup, Time
  <2>2. Good(group.ObjectID, [val |-> group, exp |-> now + SyncInterval])
    BY <1>1, <2>1
  <2>3. \A g \in Groups \cap DOMAIN cache' :
          \/ /\ g = group.ObjectID
             /\ cache'[g] = [val |-> group, exp |-> now + SyncInterval]
          \/ g \in DOMAIN cache /\ cache'[g] = cache[g]
    BY <1>5 DEF StoreGroup, Stored
  <2> QED
    BY <1>2, <1>3, <2>2, <2>3
<1>6. CASE DeleteExpired
  BY <1>2, <1>3, <1>6 DEF DeleteExpired
<1> QED
  BY <1>4, <1>5, <1>6
  DEF SyncNext, SyncStep, EnvironmentStep, ListGroups, ListGroupsFails,
      SyncDone, TickerSync, ClockAdvances

(* The invariant is inductive. *)
LEMMA SyncInvStep ==
  ASSUME SyncInv, [SyncNext]_allSyncVars
  PROVE  SyncInv'
<1>1. CASE SyncNext
  BY <1>1, SyncTypes, HistoryStep, RunInTimeStep, ToStoreStep, EntriesStep
  DEF SyncInv
<1>2. CASE UNCHANGED allSyncVars
  BY <1>2
  DEF allSyncVars, directoryVars, syncVars, SyncInv, SyncTypeOK,
      DirectoryTypeOK, HistoryOK, RunInTime, SyncRunning, ToStoreOK, EntriesOK,
      LastNamed
<1> QED
  BY <1>1, <1>2

(* The types and the invariant hold in every state. *)
THEOREM SyncInvariant == SyncSpec => []SyncInv
BY SyncInitInv, SyncInvStep, PTL DEF SyncSpec

(* Every state of the sync is well typed (azure.go:116-140,                 *)
(* azure_groups.go:41-63).                                                  *)
THEOREM SyncTypeCorrect == SyncSpec => []SyncTypeOK
<1>1. SyncInv => SyncTypeOK
  BY DEF SyncInv
<1> QED
  BY <1>1, SyncInvariant, PTL

(* A cached group name is at most one interval and one run out of date,     *)
(* also when later runs fail (azure.go:134 drops their error).              *)
THEOREM CachedNamesAreBounded == SyncSpec => []CachedNamesBounded
<1>1. SyncInv => CachedNamesBounded
  <2> SUFFICES ASSUME SyncInv, NEW g \in Groups, Found(g)
               PROVE  /\ Lookup(g).Name \in PrefixedNames
                      /\ now - LastNamed(g, Lookup(g).Name)
                           <= SyncInterval + MaxLatency
    BY DEF CachedNamesBounded
  <2>1. g \in DOMAIN cache /\ ~(now > cache[g].exp)
    BY DEF Found, Expired
  <2>2. /\ cache[g].exp \in Int /\ cache[g].val.Name \in Names /\ now \in Int
    BY <2>1 DEF SyncInv, SyncTypeOK, GroupItem, GroupModel, Time
  <2>3. LastNamed(g, cache[g].val.Name) \in Int
    BY <2>2 DEF SyncInv, SyncTypeOK, DirectoryTypeOK, LastNamed
  <2> QED
    BY <2>1, <2>2, <2>3, ClockConstants DEF SyncInv, EntriesOK, Lookup
<1> QED
  BY <1>1, SyncInvariant, PTL
------------------------------------------------------------------------------
(* A tick that has not been taken was sent at nextTick - SyncInterval, and  *)
(* the run that took the last one began no earlier.                         *)
TicksInTime ==
  /\ now < nextTick /\ nextTick <= now + SyncInterval
  /\ ~tickPending => nextTick <= syncStart + SyncInterval

(* A group of the last listing that has been stored in this run. *)
StoredInRun(group) ==
  /\ group.ObjectID \in DOMAIN cache
  /\ cache[group.ObjectID].val = group
  /\ cache[group.ObjectID].exp >= syncStart + SyncInterval

(* Until the next tick comes, what the run has stored is in the cache. *)
ListedStored ==
  /\ \A a, b \in listed : a.ObjectID = b.ObjectID => a = b
  /\ toStore \subseteq listed
  /\ syncPC = "store" /\ ~tickPending =>
       \A group \in listed \ toStore : StoredInRun(group)
  /\ syncPC = "select" /\ lastSyncOK /\ ~tickPending =>
       \A group \in listed : StoredInRun(group)

(* The ticker fires once an interval, and a run follows a tick. *)
LEMMA TicksStep ==
  ASSUME SyncTypeOK, RunInTime, TicksInTime, SyncNext
  PROVE  TicksInTime'
<1> USE ClockConstants DEF SyncTypeOK, Time, TicksInTime
<1>1. CASE SyncStep
  BY <1>1 DEF SyncStep, ListGroups, ListGroupsFails, StoreGroup, SyncDone,
              TickerSync
<1>2. CASE EnvironmentStep
  BY <1>2 DEF EnvironmentStep, DeleteExpired, syncVars
<1>3. CASE ClockAdvances /\ now' = nextTick
  <2>1. tickPending' = TRUE /\ nextTick' = nextTick + SyncInterval
    BY <1>3, Zenon DEF ClockAdvances
  <2> QED
    BY <1>3, <2>1 DEF ClockAdvances
<1>4. CASE ClockAdvances /\ now' # nextTick
  <2>1. tickPending' = tickPending /\ nextTick' = nextTick
    BY <1>4, Zenon DEF ClockAdvances
  <2> QED
    BY <1>4, <2>1 DEF ClockAdvances
<1> QED
  BY <1>1, <1>2, <1>3, <1>4 DEF SyncNext

(* No entry of the last run expires before the next tick, so that neither   *)
(* the janitor nor the clock takes it away.                                 *)
LEMMA ListedStoredStep ==
  ASSUME SyncInv, TicksInTime, ListedStored, SyncNext
  PROVE  ListedStored'
<1> USE ClockConstants
<1>1. \A group \in GroupModel : group.ObjectID \in Groups
  BY DEF GroupModel
<1>2. listed \subseteq GroupModel /\ toStore \subseteq GroupModel
  BY DEF SyncInv, SyncTypeOK
<1>3. CASE ListGroups
  <2>1. \A a, b \in GroupList : a.ObjectID = b.ObjectID => a = b
    BY DEF GroupList
  <2> QED
    BY <1>3, <2>1 DEF ListGroups, ListedStored
<1>4. CASE ListGroupsFails
  BY <1>4 DEF ListGroupsFails, ListedStored, SyncInv, ToStoreOK
<1>5. ASSUME NEW group \in toStore, StoreGroup(group)
      PROVE  ListedStored'
  <2>1. /\ syncPC = "store" /\ syncPC' = syncPC /\ listed' = listed
        /\ toStore' = toStore \ {group} /\ tickPending' = tickPending
        /\ syncStart' = syncStart /\ lastSyncOK' = lastSyncOK
        /\ cache' = Stored(group.ObjectID, group)
    BY <1>5 DEF StoreGroup
  <2>2. group \in listed
    BY DEF ListedStored
  <2>3. StoredInRun(group)'
    BY <2>1 DEF StoredInRun, Stored, SyncInv, SyncTypeOK, RunInTime, Time
  <2>4. ASSUME NEW other \in listed \ toStore, ~tickPending
        PROVE  StoredInRun(other)'
    <3>1. StoredInRun(other)
      BY <2>1, <2>4 DEF ListedStored
    <3>2. other.ObjectID # group.ObjectID
      BY <2>2 DEF ListedStored
    <3> QED
      BY <2>1, <3>1, <3>2 DEF StoredInRun, Stored
  <2> QED
    BY <2>1, <2>3, <2>4 DEF ListedStored
<1>6. CASE SyncDone
  BY <1>6 DEF SyncDone, ListedStored, StoredInRun
<1>7. CASE TickerSync
  BY <1>7 DEF TickerSync, ListedStored
<1>8. CASE DirectoryNext /\ UNCHANGED <<now, cache, syncVars>>
  BY <1>8 DEF syncVars, ListedStored, StoredInRun
<1>9. CASE DeleteExpired /\ UNCHANGED <<directoryVars, syncVars>>
  <2>1. ASSUME NEW group \in listed, StoredInRun(group), ~tickPending
        PROVE  StoredInRun(group)'
    <3>1. ~Expired(cache[group.ObjectID])
      BY <1>1, <1>2, <2>1
      DEF StoredInRun, Expired, TicksInTime, SyncInv, SyncTypeOK, GroupItem,
          Time
    <3> QED
      BY <1>9, <2>1, <3>1 DEF DeleteExpired, StoredInRun, syncVars
  <2> QED
    BY <1>9, <2>1 DEF syncVars, ListedStored
<1>10. CASE ClockAdvances
  <2>1. /\ UNCHANGED <<cache, syncPC, syncStart, toStore, listed, lastSyncOK>>
        /\ tickPending => tickPending'
    BY <1>10, Zenon DEF ClockAdvances
  <2> QED
    BY <2>1 DEF ListedStored, StoredInRun
<1> QED
  BY <1>3, <1>4, <1>5, <1>6, <1>7, <1>8, <1>9, <1>10
  DEF SyncNext, SyncStep, EnvironmentStep

(* While the goroutine waits for the next tick, every group its last run    *)
(* listed is found in the cache under that name: an entry lives as long as  *)
(* the ticker's period (proxy.go:35, proxy.go:98).                          *)
THEOREM GroupsAreAvailable == SyncSpec => []GroupsAvailableBetweenSyncs
<1> DEFINE Inv == SyncInv /\ TicksInTime /\ ListedStored
<1>1. SyncInit => Inv
  <2> SUFFICES ASSUME SyncInit PROVE Inv
    OBVIOUS
  <2>1. TicksInTime /\ ListedStored
    BY ClockConstants DEF SyncInit, TicksInTime, ListedStored
  <2> QED
    BY <2>1, SyncInitInv
<1>2. Inv /\ [SyncNext]_allSyncVars => Inv'
  <2>1. CASE Inv /\ SyncNext
    BY <2>1, SyncInvStep, TicksStep, ListedStoredStep DEF SyncInv
  <2>2. CASE Inv /\ UNCHANGED allSyncVars
    <3>1. SyncInv'
      BY <2>2, SyncInvStep
    <3> QED
      BY <2>2, <3>1
      DEF allSyncVars, syncVars, TicksInTime, ListedStored, StoredInRun
  <2> QED
    BY <2>1, <2>2
<1>3. Inv => GroupsAvailableBetweenSyncs
  <2> SUFFICES ASSUME Inv, syncPC = "select", ~tickPending, lastSyncOK,
                      NEW group \in listed
               PROVE  Found(group.ObjectID) /\ Lookup(group.ObjectID) = group
    BY DEF GroupsAvailableBetweenSyncs, SyncRunning
  <2>1. StoredInRun(group)
    BY DEF ListedStored
  <2>2. group.ObjectID \in Groups
    BY DEF SyncInv, SyncTypeOK, GroupModel
  <2>3. ~Expired(cache[group.ObjectID])
    BY <2>1, <2>2, ClockConstants
    DEF StoredInRun, Expired, TicksInTime, SyncInv, SyncTypeOK, GroupItem, Time
  <2> QED
    BY <2>1, <2>3 DEF StoredInRun, Found, Lookup
<1> HIDE DEF Inv
<1> QED
  BY <1>1, <1>2, <1>3, PTL DEF SyncSpec
==============================================================================
