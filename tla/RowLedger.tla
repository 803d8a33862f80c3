------------------------------ MODULE RowLedger ------------------------------
(***************************************************************************)
(* What the row queue promises, without processes, claims or generations:  *)
(* one ledger at a time, opened for one tree; each planned row entered at  *)
(* most once; published from the ledger; and given up only when everything *)
(* in it is published, or when the user asked to start afresh. A ledger    *)
(* may go piece by piece, and what is left of it is a ledger still. All    *)
(* this for as long as nobody left over from an earlier run writes too.    *)
(***************************************************************************)
CONSTANTS Rows, Keys, None, Planned(_)

VARIABLES
  tree,       \* the key the open ledger is for, or None
  ledger,     \* the rows entered so far
  published,  \* the tier file: the tree each published row was measured on
  afresh,     \* has the user asked to discard the open ledger?
  disturbed   \* did a run begin beside somebody left over from an earlier one?

lvars == <<tree, ledger, published, afresh, disturbed>>

Init ==
  /\ tree = None /\ ledger = {}
  /\ published = [r \in Rows |-> None]
  /\ afresh = FALSE /\ disturbed = FALSE

\* A ledger is opened only when none is open.
Open ==
  /\ tree = None /\ tree' \in Keys /\ ledger = {}
  /\ UNCHANGED <<ledger, published, afresh, disturbed>>

\* Each row of the plan is entered at most once.
Enter ==
  /\ tree # None /\ ~afresh
  /\ \E r \in Planned(tree) \ ledger : ledger' = ledger \cup {r}
  /\ UNCHANGED <<tree, published, afresh, disturbed>>

\* The published rows are exactly the ledger's, all of the ledger's tree.
Publish ==
  /\ tree # None /\ ~afresh
  /\ published' = [r \in Rows |-> IF r \in ledger THEN tree ELSE None]
  /\ UNCHANGED <<tree, ledger, afresh, disturbed>>

Ask == afresh' = ~afresh /\ UNCHANGED <<tree, ledger, published, disturbed>>

\* A ledger without its tree can be neither continued nor published.
Close ==
  /\ afresh \/ tree = None \/ \A r \in ledger : published[r] = tree
  /\ tree' \in {tree, None} /\ ledger' \in SUBSET ledger
  /\ UNCHANGED <<published, afresh, disturbed>>

Next == Open \/ Enter \/ Publish \/ Ask \/ Close \/ disturbed'

Spec == Init /\ [][Next]_lvars
=============================================================================
