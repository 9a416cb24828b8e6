------------------------------ MODULE GroupSync ------------------------------
(***************************************************************************)
(* The group synchronisation: startSyncGroups (azure.go) lists the groups  *)
(* once before the servers start, then a goroutine lists them again at     *)
(* every tick, and syncAzureADGroupsCache (azure_groups.go) stores them in *)
(* the cache one by one.  A listing that fails at a tick is ignored; one   *)
(* that fails at start makes Start return.                                 *)
(***************************************************************************)
EXTENDS AzureAD, MemoryCache

VARIABLES
  phase,        \* of Start: "starting", "serving", or "failed"
  syncPC,       \* the sync goroutine: "list", "store" or "select"
  syncStart,    \* when the current run of syncAzureADGroupsCache began
  toStore,      \* the groups of groupsResponse that setGroup has not seen
  tickPending,  \* the one-element channel ticker.C
  nextTick,     \* when the ticker fires next
  listed,       \* history: the last groupsResponse
  lastSyncOK    \* history: the last run stored all it listed

syncVars == <<phase, syncPC, syncStart, toStore, tickPending, nextTick,
              listed, lastSyncOK>>

GroupItem == [val : GroupModel, exp : Int]

SyncTypeOK ==
  /\ now \in Time
  /\ DirectoryTypeOK
  /\ phase \in {"starting", "serving", "failed"}
  /\ syncPC \in {"list", "store", "select"}
  /\ syncStart \in Time
  /\ toStore \subseteq GroupModel
  /\ tickPending \in BOOLEAN
  /\ nextTick \in Time
  /\ listed \subseteq GroupModel
  /\ lastSyncOK \in BOOLEAN
  /\ \A g \in Groups \cap DOMAIN cache : cache[g] \in GroupItem

(* Start calls startSyncGroups: the ticker is created before the listing. *)
SyncInit ==
  /\ now = 0
  /\ cache = [k \in {} |-> Nil]
  /\ DirectoryInit
  /\ phase = "starting"
  /\ syncPC = "list"
  /\ syncStart = 0
  /\ toStore = {}
  /\ tickPending = FALSE
  /\ nextTick = SyncInterval
  /\ listed = {}
  /\ lastSyncOK = FALSE

(* getAllGroups returns: the response is what the directory held meanwhile. *)
ListGroups ==
  /\ syncPC = "list" /\ phase # "failed"
  /\ toStore' = GroupList
  /\ listed' = GroupList
  /\ syncPC' = "store"
  /\ UNCHANGED <<now, cache, directoryVars, phase, syncStart, tickPending,
                 nextTick, lastSyncOK>>

(* getAllGroups fails: Start returns the error of the first run, and the    *)
(* goroutine drops the error of any other.                                  *)
ListGroupsFails ==
  /\ syncPC = "list" /\ phase # "failed"
  /\ phase' = IF phase = "starting" THEN "failed" ELSE phase
  /\ syncPC' = "select"
  /\ lastSyncOK' = FALSE
  /\ UNCHANGED <<now, cache, directoryVars, syncStart, toStore, tickPending,
                 nextTick, listed>>

(* The loop of syncAzureADGroupsCache: one setGroup. *)
StoreGroup(group) ==
  /\ syncPC = "store"
  /\ group \in toStore
  /\ cache' = Stored(group.ObjectID, group)
  /\ toStore' = toStore \ {group}
  /\ UNCHANGED <<now, directoryVars, phase, syncPC, syncStart, tickPending,
                 nextTick, listed, lastSyncOK>>

(* The loop ends; after the first run Start goes on to start the servers. *)
SyncDone ==
  /\ syncPC = "store"
  /\ toStore = {}
  /\ syncPC' = "select"
  /\ phase' = "serving"
  /\ lastSyncOK' = TRUE
  /\ UNCHANGED <<now, cache, directoryVars, syncStart, toStore, tickPending,
                 nextTick, listed>>

(* case <-ticker.C of the goroutine. *)
TickerSync ==
  /\ phase = "serving"
  /\ syncPC = "select"
  /\ tickPending
  /\ tickPending' = FALSE
  /\ syncPC' = "list"
  /\ syncStart' = now
  /\ UNCHANGED <<now, cache, directoryVars, phase, toStore, nextTick, listed,
                 lastSyncOK>>

SyncRunning == syncPC # "select"

(* A sync run ends within MaxLatency, and a waiting goroutine takes a tick  *)
(* before the clock moves on.                                               *)
SyncInTime ==
  /\ SyncRunning => now < syncStart + MaxLatency
  /\ ~(phase = "serving" /\ syncPC = "select" /\ tickPending)

(* One unit of time passes.  The ticker drops a tick nobody has taken yet. *)
ClockAdvances ==
  /\ now < MaxTime /\ phase # "failed"
  /\ now' = now + 1
  /\ IF now' = nextTick
       THEN tickPending' = TRUE /\ nextTick' = nextTick + SyncInterval
       ELSE UNCHANGED <<tickPending, nextTick>>
  /\ UNCHANGED <<cache, directoryVars, phase, syncPC, syncStart, toStore,
                 listed, lastSyncOK>>

SyncStep ==
  \/ ListGroups
  \/ ListGroupsFails
  \/ \E group \in toStore : StoreGroup(group)
  \/ SyncDone
  \/ TickerSync

EnvironmentStep ==
  \/ DirectoryNext /\ UNCHANGED <<now, cache, syncVars>>
  \/ DeleteExpired /\ UNCHANGED <<directoryVars, syncVars>>

SyncNext ==
  \/ SyncStep
  \/ EnvironmentStep
  \/ SyncInTime /\ ClockAdvances

allSyncVars == <<now, cache, directoryVars, syncVars>>

SyncSpec == SyncInit /\ [][SyncNext]_allSyncVars
------------------------------------------------------------------------------
(* Between two syncs the last of which succeeded, every group it listed is  *)
(* found in the cache: an entry stored with the ticker's own period as its  *)
(* time to live does not expire before the next tick is taken               *)
(* (proxy.go:35, proxy.go:98).                                              *)
GroupsAvailableBetweenSyncs ==
  (phase = "serving" /\ ~SyncRunning /\ ~tickPending /\ lastSyncOK) =>
    \A group \in listed :
      Found(group.ObjectID) /\ Lookup(group.ObjectID) = group

(* A group the cache returns bore the cached name, and that name had the    *)
(* prefix, at most one interval and one sync ago - also when later syncs    *)
(* failed, or no longer list the group because it was renamed or deleted.   *)
CachedNamesBounded ==
  \A g \in Groups : Found(g) =>
    /\ Lookup(g).Name \in PrefixedNames
    /\ now - LastNamed(g, Lookup(g).Name) <= SyncInterval + MaxLatency
==============================================================================
