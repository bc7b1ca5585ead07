------------------------- MODULE MCSessionLifecycle -------------------------
(* Instances of SessionLifecycle for TLC. *)
EXTENDS SessionLifecycle, TLC

CONSTANTS phone, laptop, page, tab, relay

\* Every request comes from one page load of one device.
OneDevice == [a \in Attempts |-> phone]
OnePage   == [a \in Attempts |-> page]
NoRelay   == [a \in Attempts |-> None]

\* Every request comes through one relay client, from pages that are not the same.
OneRelay == [a \in Attempts |-> relay]
NewPage  == [a \in Attempts |-> a]

\* The last of the requests comes from another device.
Last == CHOOSE a \in Attempts : TRUE
OneStranger == [a \in Attempts |-> IF a = Last THEN laptop ELSE phone]
TwoPages    == [a \in Attempts |-> IF a = Last THEN tab ELSE page]

\* The symmetry of the ids the host hands out, and of requests that are all alike.
IdSymmetry == Permutations(Joins) \cup Permutations(Displays)
Symmetry   == IdSymmetry \cup Permutations(Attempts)

\* Two requests of two devices change names together with their devices.
Swap == [x \in Attempts \cup {phone, laptop} |->
           IF x \in Attempts THEN CHOOSE b \in Attempts : b # x
           ELSE IF x = phone THEN laptop ELSE phone]
PairSymmetry == IdSymmetry \cup {Swap}

\* The same together: requests, displays and geometries change names at once.
AllSymmetry == {p @@ q @@ r : p \in Permutations(Attempts), q \in Permutations(Displays),
                              r \in Permutations(Modes)}
=============================================================================
