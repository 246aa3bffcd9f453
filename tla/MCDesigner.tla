------------------------------- MODULE MCDesigner -------------------------------
(* The designer with two files: a lamp and a place for another device.  A  *)
(* developer switches encryption, clears and restores the category.        *)
EXTENDS Designer

CONSTANTS lampFile, otherFile

TheLowerSnake ==
    {"lamp", "light", "on", "power_switch", "motion_sensor", "occupancy_sensor"}

Lamp == Template("lamp", "light", <<Actuator("power_switch", <<"on">>)>>, <<"matter">>, FALSE)
TheForms == {Lamp, [Lamp EXCEPT !.category = ""]}

LampFile == [formToManifest(Lamp) EXCEPT !.protocols = <<"matter", "sigfox">>]
Unreadable == [LampFile EXCEPT !.broken = {"capabilities"}]
TheOnDisk == [u \in Uris |-> IF u = lampFile THEN LampFile ELSE None]
TheOutside == {Unreadable}
TheProposals == {formToManifest([Lamp EXCEPT !.encryption = FALSE])}
TheModeLists == {<<"on">>}
================================================================================
