--------------------------- MODULE ConfigSnapshot ---------------------------
(***************************************************************************)
(* What the control plane promises its readers, without goroutines, hash  *)
(* or file: the snapshot is one atomic register that only ever holds the   *)
(* controlPlane section of a valid config the process read; a load that    *)
(* is not installed is dropped only when its section is the one already   *)
(* installed; a restart empties the register.                             *)
(*                                                                         *)
(* The loads in flight form a bag: two loads may carry the same section.  *)
(***************************************************************************)
EXTENDS Naturals, Bags, BagsExt

CONSTANTS
    RawConfigs,   \* every config the process can hold
    ValidRaw,     \* those that parse and validate, each with a section .cp
    NoSnapshot    \* the register before the first install

VARIABLES
    cfg,        \* the config the process holds
    snapshot,   \* the installed section, or NoSnapshot
    loads       \* bag of sections read and not yet installed or dropped

vars == <<cfg, snapshot, loads>>

Init ==
    /\ cfg \in RawConfigs
    /\ snapshot = NoSnapshot
    /\ loads = EmptyBag

\* The process comes to hold another config
Change ==
    /\ cfg' \in RawConfigs
    /\ UNCHANGED <<snapshot, loads>>

\* A load reads the config the process holds, which is valid
BeginLoad ==
    /\ cfg \in ValidRaw
    /\ loads' = BagAdd(loads, cfg.cp)
    /\ UNCHANGED <<cfg, snapshot>>

\* A load ends without installing: its section is installed already
Drop ==
    /\ snapshot \in BagToSet(loads)
    /\ loads' = BagRemove(loads, snapshot)
    /\ UNCHANGED <<cfg, snapshot>>

\* A load installs its section
Install ==
    \E c \in BagToSet(loads) :
        /\ snapshot' = c
        /\ loads' = BagRemove(loads, c)
        /\ UNCHANGED cfg

\* The process restarts: no snapshot, no loads, some config held
Restart ==
    /\ cfg' \in RawConfigs
    /\ snapshot' = NoSnapshot
    /\ loads' = EmptyBag

Next == Change \/ BeginLoad \/ Drop \/ Install \/ Restart

Spec == Init /\ [][Next]_vars

=============================================================================
