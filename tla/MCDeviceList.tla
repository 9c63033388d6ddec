----------------------------- MODULE MCDeviceList ------------------------------
(* Model-checking instances of DeviceList: versions that differ in the major *)
(* and in the minor number.  Names are only compared with each other, so     *)
(* they are symmetric.                                                       *)
EXTENDS DeviceList, TLC

MCVersions == {<<1, 1>>, <<1, 2>>, <<2, 0>>}
MCSymmetry == Permutations(Names)
===============================================================================
