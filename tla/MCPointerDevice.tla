-------------------------- MODULE MCPointerDevice --------------------------
(* The constants of the TLC runs of PointerDevice.                         *)
EXTENDS PointerDevice, TLC

(* A desktop of three pixels, and the same with a monitor of one more.     *)
TwoSizes == {<<3, 1>>, <<4, 1>>}

(* From the origin a new device already holds to a point beyond the edge.  *)
OneAim == {<< <<0, 0>>, <<5, 0>> >>}

FarAim == {<< <<2, 0>>, <<0, 0>> >>}

OneModifier  == <<"ctrl">>

(* Nothing tells the calls apart.                                          *)
Calls == Permutations(Call)

(* At most one kind of failure in a behaviour, and a pointer created for   *)
(* the smaller desktop.                                                    *)
OneFault == Cardinality(broken) <= 1 /\ slot.size # <<4, 1>>
=============================================================================
