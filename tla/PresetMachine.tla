--------------------------- MODULE PresetMachine ----------------------------
(* What rpm and pacman have in common: a new unit stays disabled on their    *)
(* systems unless a preset enables it, so that the packages ship one, and    *)
(* the steps of an operation that are not of the package's scripts.          *)
EXTENDS Administrator

CONSTANT Policies      \* the administrator's preset for the unit: "none", "disable"

VARIABLES built,       \* the `init` each version of the package was built with
          policy,      \* the administrator's preset file, there from the start
          installed    \* the version in the package manager's database

machineVars == <<built, policy, installed, host, todo, admin>>

InitOn(os) == /\ built \in Builds
              /\ policy \in Policies
              /\ host = CleanHost(os)
              /\ installed = None
              /\ todo = <<>>
              /\ admin = NoDecision

MachineOK == /\ built \in Builds /\ policy \in Policies
             /\ host \in Host
             /\ installed \in Version \cup {None}
             /\ admin \in Decisions
             /\ Idle => installed = host.files

-----------------------------------------------------------------------------
Begin(steps) ==
    /\ Idle
    /\ todo' = steps
    /\ UNCHANGED <<built, policy, installed, host, admin>>

UnpackFiles ==
    /\ ~Idle /\ Head(todo).do = "unpack"
    /\ host' = Unpack(host, Head(todo).version, built[Head(todo).version])
    /\ todo' = Tail(todo)
    /\ UNCHANGED <<built, policy, installed, admin>>

DeleteFiles ==
    /\ ~Idle /\ Head(todo).do = "delete"
    /\ host' = [Delete(host) EXCEPT !.defaults = "never", !.init = "none"]
    /\ todo' = Tail(todo)
    /\ UNCHANGED <<built, policy, installed, admin>>

(* With the package gone, so is what was decided about its service. *)
UpdateDatabase ==
    /\ ~Idle /\ Head(todo).do = "database"
    /\ installed' = Head(todo).version
    /\ admin' = IF installed' = None THEN NoDecision ELSE admin
    /\ todo' = Tail(todo)
    /\ UNCHANGED <<built, policy, host>>

(* A first install applies presets, so decisions start when it is done.      *)
Beside == installed # None /\ Administer /\ UNCHANGED <<built, policy, installed>>

-----------------------------------------------------------------------------
(* Properties are of packages whose `init` does not change between versions  *)
(* unless they say otherwise.                                                *)

Settled == Idle /\ installed # None
SameInit == \A u, v \in Version : built[u] = built[v]
=============================================================================
