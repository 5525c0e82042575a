------------------------------- MODULE Vault -------------------------------
(***************************************************************************)
(* What the backup archive of SE3 promises its user: a vault that holds at *)
(* most one copy of each script.  A copy is taken of a script as it is on  *)
(* the disk and replaces the copy the vault had of that script; restoring  *)
(* puts the vault's copy back on the disk and gives the copy up.  No other *)
(* copy is touched by either.  If the program dies, the vault is as it     *)
(* was, or empty: a crash never leaves some of the copies, or others.      *)
(***************************************************************************)
CONSTANTS
    Paths, Content, None,
    MayCrash   \* the program may die at any time

VARIABLES
    scripts,  \* scripts[p]: the content on the disk, or None
    vault,    \* vault[p]: the copy kept of p, or None
    pending,  \* the copy being taken, <<p, content>>, or None
    given     \* the script whose copy was just given back, or None

vars == <<scripts, vault, pending, given>>

Init ==
    /\ scripts \in [Paths -> Content \cup {None}]
    /\ vault = [p \in Paths |-> None]
    /\ pending = None
    /\ given = None

\* Anyone may change or delete a script at any time.
Edit(p) ==
    /\ \E c \in Content \cup {None} : scripts' = [scripts EXCEPT ![p] = c]
    /\ UNCHANGED <<vault, pending, given>>

Take(p) ==
    /\ pending = None /\ given = None
    /\ scripts[p] # None
    /\ pending' = <<p, scripts[p]>>
    /\ UNCHANGED <<scripts, vault, given>>

Store ==
    /\ pending # None
    /\ vault' = [vault EXCEPT ![pending[1]] = pending[2]]
    /\ pending' = None
    /\ UNCHANGED <<scripts, given>>

\* A copy given back is gone from the vault before anything else is done with it.
GiveBack(p) ==
    /\ pending = None /\ given = None
    /\ vault[p] # None
    /\ scripts' = [scripts EXCEPT ![p] = vault[p]]
    /\ vault' = [vault EXCEPT ![p] = None]
    /\ given' = p
    /\ UNCHANGED pending

Done ==
    /\ given # None
    /\ given' = None
    /\ UNCHANGED <<scripts, vault, pending>>

\* The copy being taken is lost.  All the others are lost with it only once it has been
\* stored: until then the vault is not touched.
Crash ==
    /\ MayCrash
    /\ \/ UNCHANGED vault
       \/ pending = None /\ vault' = [p \in Paths |-> None]
    /\ pending' = None /\ given' = None
    /\ UNCHANGED scripts

Next ==
    \/ \E p \in Paths : Edit(p) \/ Take(p) \/ GiveBack(p)
    \/ Store
    \/ Done
    \/ Crash

Spec == Init /\ [][Next]_vars
=============================================================================
