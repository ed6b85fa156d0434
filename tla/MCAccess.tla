-------------------------------- MODULE MCAccess -------------------------------
(* Constants for checking Access on a small instance. *)
EXTENDS Access

MCSlug == [b \in Backends |-> "alcohol_zinc"]

MCPolicies == [report |-> [kind |-> "any", field |-> "roles", target |-> {"admin"}],
               typo   |-> [kind |-> "some", field |-> "roles", target |-> {"admin"}]]

\* Every kind of request, with the tokens a client may confuse.
MCRequests ==
    {[kind |-> "sub", target |-> t, present |-> "access"] : t \in Users \cup {Absent}}
    \cup {[kind |-> "any", target |-> t, required |-> {"admin"}, present |-> "access"] :
        t \in (Users \ Clients) \cup {Absent}}
    \cup {[kind |-> "all", target |-> Absent, required |-> r, present |-> "access"] :
        r \in {{}, {"admin"}}}
    \cup {[kind |-> "policy", policy |-> p, present |-> "access"] : p \in {"report", "typo"}}
    \cup {[kind |-> "registered", backend |-> "Alcohol Zinc", present |-> t] :
        t \in Presented \ {"blank"}}
    \cup {[kind |-> "onboard", access |-> pair[1], id |-> pair[2], present |-> "access"] :
        pair \in {<<c, c>> : c \in Clients} \cup (Clients \X (Users \ Clients))
                \cup {<<o, o>> : o \in Users \ Clients}}

\* A slow clock, and flags as text; a fast clock, flags as booleans, and a
\* user whose address is not verified.
MCEnvironments ==
    {[offset |-> -1, encoding |-> "text",   unverified |-> {}],
     [offset |-> 1,  encoding |-> "native", unverified |-> Clients]}
================================================================================
