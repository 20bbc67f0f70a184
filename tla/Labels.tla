--------------------------------- MODULE Labels --------------------------------
(***************************************************************************)
(* What categories promise their readers: a user's categories label notes. *)
(* No two labels share a name; a note carries labels that exist; a label   *)
(* or a note that is removed takes its marks along in the same step and    *)
(* never comes back.  CategoryStore implements this without cascades: what *)
(* was removed leaves rows behind that no reader is shown.                 *)
(***************************************************************************)
EXTENDS Functions

CONSTANTS Notes,       \* every note there may be
          LabelIds,    \* every id a label may get
          Names

VARIABLES present,     \* the notes that exist
          labels,      \* label id -> name
          marks,       \* pairs of a note and a label on it
          retired      \* ids of labels removed

labelling == <<present, labels, marks, retired>>

Unused == LabelIds \ (DOMAIN labels \cup retired)
NamesOf(ids) == {labels[c] : c \in ids}

LabelsInit ==
  /\ present = Notes
  /\ labels = [c \in {} |-> c]
  /\ marks = {}
  /\ retired = {}

AddLabel(c, name) ==
  /\ c \in Unused /\ name \notin NamesOf(DOMAIN labels)
  /\ labels' = [d \in DOMAIN labels \cup {c} |-> IF d = c THEN name ELSE labels[d]]
  /\ UNCHANGED <<present, marks, retired>>

\* A client may deliver a label it has already removed.
DiscardLabel(c) ==
  /\ c \in Unused
  /\ retired' = retired \cup {c}
  /\ UNCHANGED <<present, labels, marks>>

RenameLabel(c, name) ==
  /\ c \in DOMAIN labels /\ name \notin NamesOf(DOMAIN labels \ {c})
  /\ labels' = [labels EXCEPT ![c] = name]
  /\ UNCHANGED <<present, marks, retired>>

RemoveLabel(c) ==
  /\ c \in DOMAIN labels
  /\ labels' = Restrict(labels, DOMAIN labels \ {c})
  /\ marks' = {m \in marks : m[2] # c}
  /\ retired' = retired \cup {c}
  /\ UNCHANGED present

RemoveNote(n) ==
  /\ n \in present
  /\ present' = present \ {n}
  /\ marks' = {m \in marks : m[1] # n}
  /\ UNCHANGED <<labels, retired>>

Mark(n, c) ==
  /\ n \in present /\ c \in DOMAIN labels
  /\ marks' = marks \cup {<<n, c>>}
  /\ UNCHANGED <<present, labels, retired>>

Unmark(m) ==
  /\ m \in marks
  /\ marks' = marks \ {m}
  /\ UNCHANGED <<present, labels, retired>>

LabelsNext ==
  \/ \E c \in LabelIds, name \in Names : AddLabel(c, name) \/ RenameLabel(c, name)
  \/ \E c \in LabelIds : DiscardLabel(c) \/ RemoveLabel(c)
  \/ \E n \in Notes : RemoveNote(n)
  \/ \E n \in Notes, c \in LabelIds : Mark(n, c) \/ Unmark(<<n, c>>)

LabelsSpec == LabelsInit /\ [][LabelsNext]_labelling
===============================================================================
