----------------------------- MODULE MCTenants -----------------------------
(***************************************************************************)
(* A small instance of Tenants for TLC.  All kinds of operations at once    *)
(* are too many states: each behaviour uses the operations of one slice,    *)
(* fixed in its initial state, which are those that touch the same rows.    *)
(***************************************************************************)
EXTENDS Tenants

CONSTANT Third    \* a user who takes part in the slice of the members only

VARIABLE slice

Slices == [members  |-> MemberKinds,
           projects |-> {"add", "remove"} \cup ProjectKinds \cup PMemberKinds,
           tokens   |-> {"add", "remove", "create", "setProject"} \cup TokenKinds]

MCInit == Init /\ slice \in DOMAIN Slices

InSlice ==
    /\ \A a \in Users : tx'[a].kind \in Slices[slice] \cup {Nothing}
    /\ account'[Third] = "active"
    /\ Cardinality({a \in Users : tx'[a].pc # "idle"}) <= 2
    /\ CASE slice = "members"  -> \A u \in Users : member'[u].role # "developer"
         [] slice = "projects" -> member'[Third].status = "none" /\ account' = account
         [] slice = "tokens"   -> /\ member'[Third].status = "none" /\ account'[Founder] = "active"
                                  /\ \A u \in Users \ {Founder} : member'[u].role \in {"none", "tenant_admin"}
                                  /\ \A p \in Projects \ {DefaultProject} : project'[p] # "disabled"
                                  /\ \A u \in Users \ {Founder} :
                                        tx'[u].kind \in TokenKinds \cup {"setProject", Nothing}

MCNext == Next /\ InSlice /\ UNCHANGED slice

MCSpec == MCInit /\ [][MCNext]_<<tenantVars, slice>>
=============================================================================
