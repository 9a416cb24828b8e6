----------------------------- MODULE MCEndpoints -----------------------------
(***************************************************************************)
(* Endpoints for TLC: every list of three protocols on the first header    *)
(* line, a second line, a second Authorization header, a Connection header *)
(* that names some of the others, three tokens of the service account, and *)
(* a rule that suffices and one that does not.                             *)
(***************************************************************************)
EXTENDS Endpoints

CONSTANTS good, bad, bearer, p, q

MCAccepted == {good}
MCRejected == {bad}
MCBearers == {bearer}
MCOthers == {p, q}

Plain(authorization, protocols) ==
  [preflight |-> FALSE, connection |-> {}, impersonates |-> {},
   authorization |-> authorization, protocols |-> protocols]

MCRequests ==
  {[Plain(a, <<>>) EXCEPT !.preflight = f] :
     f \in BOOLEAN, a \in {<<>>, <<good>>, <<bad>>, <<good, bad>>, <<bad, good>>}}
    \cup {[Plain(<<good>>, <<>>) EXCEPT !.impersonates = {h}, !.connection = c] :
            h \in ImpersonationHeaders, c \in {{}, {"Uid"}}}
    \cup {[Plain(<<good, good>>, <<<<p, bearer>>>>) EXCEPT !.connection = c] :
            c \in SUBSET {"Authorization", "Protocol", "User", "Group"}}
    \cup {Plain(<<good>>, <<l>>) : l \in BoundedSeq({p, q, bearer}, 3)}
    \cup {Plain(<<good>>, <<<<p>>, <<l>>>>) : l \in {q, bearer}}

MCRules ==
  {[verbs |-> {"impersonate"}, resources |-> {"users", "groups", "serviceaccounts"}],
   [verbs |-> {"impersonate", "get"}, resources |-> {"users", "groups"}]}

Symmetry == Permutations(MCOthers)
==============================================================================
