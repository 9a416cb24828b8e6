-------------------------------- MODULE Claims --------------------------------
(***************************************************************************)
(* The bearer tokens of clients: the claims the proxy reads from a token   *)
(* (toInternalAzureADClaims, azure_internal.go), whether it accepts the    *)
(* token, and the name and type of user it takes the claims for; and the   *)
(* impersonation headers that come with them.                              *)
(***************************************************************************)
EXTENDS AzureAD, Headers

CONSTANTS
  Subs,            \* sub claims
  Usernames,       \* preferred_username claims
  Tokens,          \* the bearer tokens clients may present
  HeaderSets       \* the impersonation headers requests may carry

(* toInternalAzureADClaims returns no error. *)
ClaimsOK(t) == t.sub # Nil /\ t.oid # Nil

(* accepted: signature, issuer, audience and tid pass the OIDC middleware. *)
Valid(t) == t.accepted /\ ClaimsOK(t)

(* Azure AD gives a principal one sub per application: two valid tokens     *)
(* with the same sub name the same object.                                  *)
ASSUME TokensAssumption ==
  /\ Tokens \subseteq [sub : Subs \cup {Nil}, oid : Principals \cup {Nil},
                       username : Usernames \cup {Nil}, accepted : BOOLEAN]
  /\ \A t, u \in Tokens :
       Valid(t) /\ Valid(u) /\ t.sub = u.sub => t.oid = u.oid

ASSUME HeaderSetsAssumption == HeaderSets \subseteq SUBSET ImpersonationHeaders

(* getUser's userType: a token without preferred_username is taken for a    *)
(* service principal, whose Username is its object id.                      *)
UserType(t) == IF t.username = Nil THEN "ServicePrincipal" ELSE "NormalUser"

Username(t) == IF t.username = Nil THEN t.oid ELSE t.username

(* A user as the handler impersonates it. *)
UserModel == [Username : Usernames \cup Principals, ObjectID : Principals,
              Groups : SUBSET GroupModel,
              Type : {"NormalUser", "ServicePrincipal"}]
==============================================================================
