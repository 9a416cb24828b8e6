------------------------------- MODULE AzureAD -------------------------------
(***************************************************************************)
(* Azure AD as the proxy sees it through Microsoft Graph: groups with a    *)
(* display name that administrators change, and the groups each principal  *)
(* is a member of.  External: only what the code reads is modelled.        *)
(*                                                                         *)
(* namedUntil and memberUntil are history variables: the last moment a     *)
(* name or a membership that has since been withdrawn was still in force.  *)
(***************************************************************************)
EXTENDS Clock

CONSTANTS
  Groups,             \* object ids of groups
  Names,              \* display names
  PrefixedNames,      \* the names AZURE_AD_GROUP_PREFIX lets through
  Principals,         \* object ids of users and service principals
  ServicePrincipals,  \* those of Principals that are service principals
  Nil                 \* an absent claim, or the name of a deleted group

ASSUME AzureADAssumption ==
  /\ PrefixedNames \subseteq Names
  /\ ServicePrincipals \subseteq Principals
  /\ Nil \notin Names \cup Principals

(* A group with a name, as the listing and the cache hold it. *)
GroupModel == [Name : Names, ObjectID : Groups]

VARIABLES displayName, memberOf, namedUntil, memberUntil

directoryVars == <<displayName, memberOf, namedUntil, memberUntil>>

DirectoryTypeOK ==
  /\ displayName \in [Groups -> Names \cup {Nil}]
  /\ memberOf \in [Principals -> SUBSET Groups]
  /\ namedUntil \in [Groups -> [Names -> Int]]
  /\ memberUntil \in [Principals -> [Groups -> Int]]

DirectoryInit ==
  /\ displayName \in [Groups -> Names \cup {Nil}]
  /\ memberOf \in [Principals -> SUBSET Groups]
  /\ namedUntil = [g \in Groups |-> [n \in Names |-> Never]]
  /\ memberUntil = [p \in Principals |-> [g \in Groups |-> Never]]

(* The last moment at which group g bore name n. *)
LastNamed(g, n) == IF displayName[g] = n THEN now ELSE namedUntil[g][n]

(* The last moment at which principal p was a member of group g. *)
LastMember(p, g) == IF g \in memberOf[p] THEN now ELSE memberUntil[p][g]

(* An administrator renames a group, deletes it (n = Nil) or restores it. *)
Rename(g, n) ==
  /\ displayName[g] # n
  /\ displayName' = [displayName EXCEPT ![g] = n]
  /\ namedUntil' = IF displayName[g] = Nil
                     THEN namedUntil
                     ELSE [namedUntil EXCEPT ![g][displayName[g]] = now]
  /\ UNCHANGED <<memberOf, memberUntil>>

Join(p, g) ==
  /\ g \notin memberOf[p]
  /\ memberOf' = [memberOf EXCEPT ![p] = @ \cup {g}]
  /\ UNCHANGED <<displayName, namedUntil, memberUntil>>

Leave(p, g) ==
  /\ g \in memberOf[p]
  /\ memberOf' = [memberOf EXCEPT ![p] = @ \ {g}]
  /\ memberUntil' = [memberUntil EXCEPT ![p][g] = now]
  /\ UNCHANGED <<displayName, namedUntil>>

DirectoryNext ==
  \/ \E g \in Groups, n \in Names \cup {Nil} : Rename(g, n)
  \/ \E p \in Principals, g \in Groups : Join(p, g) \/ Leave(p, g)

(* Mutant: the listing names groups that have been deleted. *)
GroupListWithDeleted == {[Name |-> displayName[g], ObjectID |-> g] : g \in Groups}

(* GroupsClient.List with the filter startswith(displayName, prefix). *)
GroupList == {[Name |-> displayName[g], ObjectID |-> g] :
                g \in {x \in Groups : displayName[x] \in PrefixedNames}}

(* ListGroupMemberships: the ids of the existing groups p is a member of. *)
Memberships(p) == {g \in memberOf[p] : displayName[g] # Nil}
==============================================================================
