------------------------------ MODULE MsdDrive ------------------------------
(***************************************************************************)
(* What the mass-storage drive promises, without calls, locks, remounts,   *)
(* watchers and restarts: a set of image files, each complete or not, and  *)
(* one medium in the drive that the controlled host sees.  An image comes  *)
(* to be called complete only when its data is there, and kvmd inserts     *)
(* only what it stores.  MsdOtg implements this.                           *)
(***************************************************************************)
EXTENDS Naturals

CONSTANTS
  Images,   \* names of images that may be stored
  Foreign,  \* an image file from elsewhere
  NoImage

VARIABLES
  partial,  \* stored images that are not offered as complete
  complete, \* those that are
  data,     \* stored images that have all their data
  medium,   \* the image in the drive, or NoImage
  others    \* what somebody else has done so far

vars == <<partial, complete, data, medium, others>>

Stored == partial \cup complete

Create(i) ==
  /\ i \notin Stored
  /\ partial' = partial \cup {i}
  /\ UNCHANGED <<complete, data, medium, others>>

Fill(i) ==
  /\ i \in partial
  /\ data' = data \cup {i}
  /\ UNCHANGED <<partial, complete, medium, others>>

Publish(i) ==
  /\ i \in partial \cap data
  /\ partial' = partial \ {i} /\ complete' = complete \cup {i}
  /\ UNCHANGED <<data, medium, others>>

Discard(i) ==
  /\ i \in Stored
  /\ partial' = partial \ {i} /\ complete' = complete \ {i} /\ data' = data \ {i}
  /\ UNCHANGED medium

Remove(i) == Discard(i) /\ UNCHANGED others

Insert(i) ==
  /\ medium = NoImage /\ i \in Stored
  /\ medium' = i
  /\ UNCHANGED <<partial, complete, data, others>>

Eject ==
  /\ medium # NoImage
  /\ medium' = NoImage
  /\ UNCHANGED <<partial, complete, data, others>>

\* Somebody else inserts or ejects anything, or deletes a file.
Other ==
  /\ others' = others + 1
  /\ \/ /\ medium' \in Images \cup {Foreign, NoImage}
        /\ UNCHANGED <<partial, complete, data>>
     \/ \E i \in Images : Discard(i)

Init ==
  /\ complete \in SUBSET Images /\ partial = {}
  /\ data = complete
  /\ medium = NoImage /\ others = 0

Next ==
  \/ \E i \in Images : Create(i) \/ Fill(i) \/ Publish(i) \/ Remove(i) \/ Insert(i)
  \/ Eject
  \/ Other

Spec == Init /\ [][Next]_vars

=============================================================================
