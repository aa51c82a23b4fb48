--------------------------------- MODULE Nat ---------------------------------
(***************************************************************************)
(* Port forwarding: class NAT (net/NAT/nat.cpp) of one host and the router *)
(* it asks over UPnP.  The class is used by one thread, so its methods do  *)
(* not overlap, but every UPnP call is a step of its own: other hosts use  *)
(* the router in between, and each call may fail, before or after the      *)
(* router did what it was asked for: the answer comes over HTTP.           *)
(*                                                                         *)
(* The router is external.  Of it the model keeps what the calls are for:  *)
(* a deletion that does not fail frees the external port whoever holds it, *)
(* and a port another host holds is not mapped to us until it is freed.    *)
(***************************************************************************)
EXTENDS Integers, FiniteSets

CONSTANTS Port,        \* the ports 0..65535
          RandomPort,  \* those that rand() % (32768 - 1024) + 1024 yields
          NoPort,      \* the answer -1, and an argument out of range
          Tries        \* how many random ports are tried (10)

ASSUME PortAssumption ==
  RandomPort \subseteq Port /\ NoPort \notin Port /\ Tries \in Nat

\* Mappings: to an inner port of this host by this object, by a program
\* that ran here before ("dangling"), or to another host.
Mapping == [owner : {"us"}, inner : Port] \cup [owner : {"dangling", "other", "none"}]
Free == [owner |-> "none"]
Ours(p) == [owner |-> "us", inner |-> p]

VARIABLES router,         \* the mapping at every external port
          m_reg, m_initialized,
          at,             \* the next call of the running method, or "idle"
          port_str, port, \* addRedirect: the port asked for, and _port
          tries,          \* addRedirect: i
          answer,         \* what addRedirect returned last
          kept,           \* history: ports the router did not free in removeRedirect
          untold         \* history: ports it mapped in a call that was answered an error

vars == <<router, m_reg, m_initialized, at, port_str, port, tries, answer, kept, untold>>
locals == <<port_str, port, tries>>

Init ==
  /\ router \in [Port -> {Free, [owner |-> "dangling"], [owner |-> "other"]}]
  /\ m_reg = {} /\ m_initialized = FALSE
  /\ at = "idle"
  /\ port_str = NoPort /\ port = NoPort /\ tries = 0
  /\ answer = NoPort /\ kept = {} /\ untold = {}

(* NAT::init: the router is found, or the object stays unusable *)
Discover ==
  /\ at = "idle" /\ ~m_initialized
  /\ m_initialized' = TRUE
  /\ UNCHANGED <<router, m_reg, at, locals, answer, kept, untold>>

(* The router's side of UPNP_DeletePortMapping and UPNP_AddPortMapping *)
DeleteMapping(p) ==
  /\ router' \in {router, [router EXCEPT ![p] = Free]}
  /\ untold' = IF router'[p] = Free THEN untold \ {p} ELSE untold
CanMap(ext) == router[ext].owner # "other"
Map(ext, inner) == router' = [router EXCEPT ![ext] = Ours(inner)]

Answer(p) == /\ answer' = p
             /\ at' = "idle"
             /\ port_str' = NoPort /\ port' = NoPort /\ tries' = 0
             /\ m_reg' = m_reg \cup ({p} \ {NoPort})

(* The two outcomes of a call that may map port ext to inner *)
Given(ext, inner) == Map(ext, inner) /\ Answer(ext) /\ untold' = untold \ {ext}
Failed(ext, inner) ==
  \/ UNCHANGED <<router, untold>>
  \/ CanMap(ext) /\ Map(ext, inner) /\ untold' = untold \cup {ext}

(* addRedirect: the checks, and the mapping of the port itself is removed *)
AddRedirect(p) ==
  /\ at = "idle"
  /\ IF m_initialized /\ p \in Port
       THEN /\ DeleteMapping(p)
            /\ at' = "direct"
            /\ port_str' = p /\ port' = p
            /\ UNCHANGED answer
       ELSE answer' = NoPort /\ UNCHANGED <<router, at, port_str, port, untold>>
  /\ UNCHANGED <<m_reg, m_initialized, tries, kept>>

(* The direct mapping, port external and port internal *)
AddDirect ==
  /\ at = "direct"
  /\ \/ CanMap(port) /\ Given(port, port_str)
     \/ /\ Failed(port, port_str)
        /\ at' = "random" /\ tries' = 0
        /\ UNCHANGED <<m_reg, answer, port_str, port>>
  /\ UNCHANGED <<m_initialized, kept>>

(* A random external port is freed, ... *)
DeleteRandom ==
  /\ at = "random" /\ tries < Tries
  /\ \E p \in RandomPort : port' = p /\ DeleteMapping(p)
  /\ at' = "add_random"
  /\ UNCHANGED <<m_reg, m_initialized, port_str, tries, answer, kept>>

\* A variant that takes the inner port from the port just drawn.
AddRandomSamePort ==
  /\ at = "add_random"
  /\ \/ CanMap(port) /\ Given(port, port)
     \/ /\ Failed(port, port)
        /\ at' = "random" /\ tries' = tries + 1
        /\ UNCHANGED <<m_reg, answer, port_str, port>>
  /\ UNCHANGED <<m_initialized, kept>>

(* ... and mapped to the port asked for, or the next one is tried *)
AddRandom ==
  /\ at = "add_random"
  /\ \/ CanMap(port) /\ Given(port, port_str)
     \/ /\ Failed(port, port_str)
        /\ at' = "random" /\ tries' = tries + 1
        /\ UNCHANGED <<m_reg, answer, port_str, port>>
  /\ UNCHANGED <<m_initialized, kept>>

\* A variant that notes the port asked for.
AddAnyNotesAsked ==
  /\ at = "random" /\ tries = Tries
  /\ \E p \in Port : /\ router[p] = Free /\ Map(p, port_str)
                     /\ answer' = p /\ m_reg' = m_reg \cup {port_str}
                     /\ untold' = untold \ {p}
  /\ at' = "idle" /\ port_str' = NoPort /\ port' = NoPort /\ tries' = 0
  /\ UNCHANGED <<m_initialized, kept>>

(* The router chooses the external port, or the redirect fails *)
AddAny ==
  /\ at = "random" /\ tries = Tries
  /\ \/ \E p \in Port : router[p] = Free /\ Given(p, port_str)
     \/ /\ Answer(NoPort)
        /\ UNCHANGED <<router, untold>> \/ \E p \in Port : router[p] = Free /\ Failed(p, port_str)
  /\ UNCHANGED <<m_initialized, kept>>

(* removeRedirect *)
Unmap(p) ==
  IF m_initialized /\ p \in Port
    THEN /\ DeleteMapping(p)
         /\ m_reg' = m_reg \ {p}
         /\ kept' = IF router'[p] = Free THEN kept \ {p} ELSE kept \cup {p}
    ELSE UNCHANGED <<router, m_reg, kept, untold>>

RemoveRedirect(p) ==
  /\ at = "idle"
  /\ Unmap(p)
  /\ UNCHANGED <<m_initialized, at, locals, answer>>

(* ~NAT: removeRedirect for every port of a copy of m_reg *)
Destroy ==
  /\ at = "idle"
  /\ at' = "destroy"
  /\ UNCHANGED <<router, m_reg, m_initialized, locals, answer, kept, untold>>

DestroyStep ==
  /\ at = "destroy"
  /\ \E p \in m_reg : (\A q \in m_reg : p <= q) /\ Unmap(p)
  /\ UNCHANGED <<m_initialized, at, locals, answer>>

(* Another host takes a free port, or gives one up *)
OtherHost ==
  /\ \E p \in Port :
       \/ router[p] = Free /\ router' = [router EXCEPT ![p] = [owner |-> "other"]]
       \/ router[p].owner = "other" /\ router' = [router EXCEPT ![p] = Free]
  /\ UNCHANGED <<m_reg, m_initialized, at, locals, answer, kept, untold>>

Next ==
  \/ Discover
  \/ \E p \in Port \cup {NoPort} : AddRedirect(p) \/ RemoveRedirect(p)
  \/ AddDirect
  \/ DeleteRandom
  \/ AddRandom
  \/ AddAny
  \/ Destroy
  \/ DestroyStep
  \/ OtherHost

Spec == Init /\ [][Next]_vars

-----------------------------------------------------------------------------
(* Every mapping the object asked for and the router still has is          *)
(* remembered, whichever of the three ways gave the port, so the           *)
(* destructor can take it back: only a mapping that the router did not     *)
(* delete when removeRedirect asked for it, or that it made in a call it   *)
(* answered with an error, outlives the object.                            *)
MappingsRemembered ==
  \A p \in Port : router[p].owner = "us" => p \in m_reg \cup kept \cup untold

(* The port addRedirect answers leads to the port asked for: the step that *)
(* returns a port leaves it mapped to the port of that call.               *)
AnswerStep ==
  at # "idle" /\ at' = "idle" /\ answer' # NoPort => router'[answer'] = Ours(port_str)
AnswerLeadsToAsked == [][AnswerStep]_vars
=============================================================================
