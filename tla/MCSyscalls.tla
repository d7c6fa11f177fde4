----------------------------- MODULE MCSyscalls -----------------------------
(***************************************************************************)
(* The system calls of assignment 2: processes, and the descriptor tables  *)
(* they share.  A behaviour is one of one part; the other stays in its     *)
(* initial state.                                                          *)
(***************************************************************************)
EXTENDS Process, Descriptors

VARIABLE part

ASSUME DescConstants

(* Which process structure a new process gets makes no difference: the     *)
(* first that is left.                                                     *)
InOrder ==
    \A p, q \in Holders : p < q /\ spc[q] # "none" => spc[p] # "none"

(* Nor does it which file is the first to be opened. *)
InUse == {arg[p].path : p \in Holders} \cup {fd[o].name : o \in DOMAIN fd}
FirstPath ==
    InUse \subseteq {NoPath} => InUse' \subseteq {NoPath, CHOOSE f \in Paths : TRUE}

(* Two calls overlap, while the third process may fork or exit. *)
TwoCalls ==
    Cardinality({p \in Holders : spc[p] \notin {"none", "user", "dead"}}) < 3

MCInit == part \in {"processes", "descriptors"} /\ Init /\ DescInit

MCNext ==
    /\ UNCHANGED part
    /\ \/ part = "processes" /\ Next /\ UNCHANGED svars
       \/ /\ part = "descriptors" /\ DescNext /\ InOrder' /\ FirstPath /\ TwoCalls'
          /\ UNCHANGED vars

MCSpec == MCInit /\ [][MCNext]_<<part, vars, svars>> /\ Fairness
=============================================================================
