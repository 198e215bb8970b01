----------------------------- MODULE Catalogue -----------------------------
(***************************************************************************)
(* What the published repository promises its clients, whatever files and  *)
(* crashes are behind it: a catalogue that lists applications and, for     *)
(* each, the releases published and the one that is current.  Publication  *)
(* switches from one catalogue to the next in a single step.  Nothing that *)
(* was published is withdrawn, and the current release is a published one. *)
(***************************************************************************)
EXTENDS Naturals

CONSTANTS Apps, MaxRelease

VARIABLES
    listed,     \* applications the targets role delegates
    catalogue   \* catalogue[a]: the releases of a and the current one (0: none)

Entry == [releases: SUBSET (1..MaxRelease), pointer: 0..MaxRelease]
Nothing == [releases |-> {}, pointer |-> 0]

(* An entry only gains releases; its pointer goes to a published release, an
   older one included (that is a rollback), and never back to none. *)
Follows(new, old) ==
    /\ old.releases \subseteq new.releases
    /\ new.pointer = old.pointer \/ new.pointer \in new.releases

Init ==
    /\ listed = {}
    /\ catalogue = [a \in Apps |-> Nothing]

Publish ==
    /\ listed' \in {l \in SUBSET Apps : listed \subseteq l}
    /\ catalogue' \in [Apps -> Entry]
    /\ \A a \in Apps : Follows(catalogue'[a], catalogue[a])
    /\ \A a \in Apps : catalogue'[a] # Nothing => a \in listed'

Spec == Init /\ [][Publish]_<<listed, catalogue>>
=============================================================================
