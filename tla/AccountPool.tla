----------------------------- MODULE AccountPool -----------------------------
(* What a pool of sandbox accounts promises, whatever its workers do in which  *)
(* order: an account has one tenant at a time, a session is tenant once, only  *)
(* the tenant's resources are ever in the account, and it is handed back empty. *)
(* LabPool implements this (LabPool!PoolContract).                             *)
EXTENDS FiniteSets

CONSTANTS Accounts, Sessions, None

VARIABLES
  tenant,  \* tenant[a]: the session account a is leased to
  inside,  \* inside[a]: whose resources exist in a
  served   \* the sessions that were ever given an account

Init == /\ tenant = [a \in Accounts |-> None]
        /\ inside = [a \in Accounts |-> {}]
        /\ served = {}

\* An account without tenant is empty, and is leased to a session that never had one.
Lease(a, s) == /\ tenant[a] = None /\ inside[a] = {}
               /\ s \notin served
               /\ tenant' = [tenant EXCEPT ![a] = s]
               /\ served' = served \cup {s}
               /\ UNCHANGED inside

\* Resources appear in an account only in the name of its tenant.
Build(a) == /\ tenant[a] # None
            /\ inside' = [inside EXCEPT ![a] = @ \cup {tenant[a]}]
            /\ UNCHANGED <<tenant, served>>

\* A leased account is wiped, or what was built in it is rolled back.
Clear(a) == /\ tenant[a] # None
            /\ inside' = [inside EXCEPT ![a] = {}]
            /\ UNCHANGED <<tenant, served>>

\* The account goes back empty.
Return(a) == /\ tenant[a] # None /\ inside[a] = {}
             /\ tenant' = [tenant EXCEPT ![a] = None]
             /\ UNCHANGED <<inside, served>>

Next == \E a \in Accounts : \/ \E s \in Sessions : Lease(a, s)
                            \/ Build(a) \/ Clear(a) \/ Return(a)

Spec == Init /\ [][Next]_<<tenant, inside, served>>

=============================================================================
