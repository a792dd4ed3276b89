---------------------------- MODULE ArtifactQuota ----------------------------
(***************************************************************************)
(* What the artifact budget promises a session: an artifact is stored      *)
(* whole, once and for good, and only as long as there is room for it.     *)
(***************************************************************************)
EXTENDS Naturals

CONSTANTS Maps, Contents, Sizes, ShotBytes, ShotCount, MapBytes

VARIABLES stored, copies

Init ==
  /\ stored = [shots |-> 0, count |-> 0, maps |-> 0]
  /\ copies = [d \in Maps |-> 0]

AddShot(s) ==
  /\ stored.shots + s <= ShotBytes /\ stored.count + 1 <= ShotCount
  /\ stored' = [stored EXCEPT !.shots = @ + s, !.count = @ + 1]
  /\ UNCHANGED copies

AddMap(d, c, s) ==
  /\ copies[d] = 0 /\ stored.maps + s <= MapBytes
  /\ stored' = [stored EXCEPT !.maps = @ + s]
  /\ copies' = [copies EXCEPT ![d] = c]

Next ==
  \/ \E s \in Sizes : AddShot(s)
  \/ \E d \in Maps, c \in Contents, s \in Sizes : AddMap(d, c, s)

Spec == Init /\ [][Next]_<<stored, copies>>
=============================================================================
