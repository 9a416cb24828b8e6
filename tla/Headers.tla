------------------------------- MODULE Headers -------------------------------
(***************************************************************************)
(* The impersonation headers of Kubernetes that a client may send, and     *)
(* which of them handler.proxy refuses (handlers.go).                      *)
(***************************************************************************)

(* Impersonate-User, Impersonate-Group, any Impersonate-Extra-... header,   *)
(* and Impersonate-Uid.                                                     *)
ImpersonationHeaders == {"User", "Group", "Extra", "Uid"}

(* The loop over the client's headers refuses the first three.  A client's  *)
(* Impersonate-Uid passes, and is forwarded with the others.                *)
Impersonates(headers) == headers \cap {"User", "Group", "Extra"} # {}
==============================================================================
