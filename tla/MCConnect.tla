------------------------------ MODULE MCConnect ------------------------------
(* TLC instances of what opening a connection is made of: the Browser replies *)
(* a dial goes by, the sockets of one Browser probe, the Entra token of its    *)
(* login, and the database it logs in to.  None of them reads another's state, *)
(* so a behaviour is one of one part, the others at rest.                      *)
EXTENDS LoginRetarget, BrowserCache, ProbeSockets, EntraToken

CONSTANTS a

VARIABLE part
connect == <<part, vars, browser, probe, entra>>

ConnectInit ==
    /\ part \in {"replies", "sockets", "token", "database"}
    /\ Init /\ BrowserInit /\ ProbeInit /\ EntraInit
    /\ port = CHOOSE r \in Replies : TRUE   \* ports are told apart by nothing else
    /\ part # "database" => asked = Master /\ site = [n \in Names |-> "open"]

ConnectNext ==
    /\ UNCHANGED part
    /\ \/ part = "replies" /\ BrowserNext /\ UNCHANGED <<vars, probe, entra>>
       \/ part = "sockets" /\ ProbeNext /\ UNCHANGED <<vars, browser, entra>>
       \/ part = "token" /\ EntraNext /\ UNCHANGED <<vars, browser, probe>>
       \/ part = "database" /\ Next /\ UNCHANGED <<browser, probe, entra>>

ConnectSpec ==
    /\ ConnectInit /\ [][ConnectNext]_connect
    /\ BrowserFairness /\ ProbeFairness /\ EntraFairness
    /\ \A p \in Procs : WF_vars(Step(p))
=============================================================================
